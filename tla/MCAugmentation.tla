--------------------------- MODULE MCAugmentation ---------------------------
EXTENDS Augmentation

Article(page, rev) == [page |-> page, rev |-> rev]

MCRegionSeq == <<"a", "b">>
MCTags == << {{"q1"}, {"q1", "q2"}}, {{"q1"}, {"q3"}} >>
MCArticles == << {Article("p1", 1)}, {Article("p1", 2)} >>
MCVoyages == << {"q1", "q2"}, {"q1", "q3"} >>
=============================================================================
