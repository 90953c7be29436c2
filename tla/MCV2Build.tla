----------------------------- MODULE MCV2Build ------------------------------
(* Small instances of V2Build.                                             *)
EXTENDS V2Build

MCShardSeq == <<"documents/a">>
MCNoLegacy == <<>>
MCInitialV1 == {[s \in {"documents/a"} |-> 1]}

(* A rewritten shard holds its two titles in the other order.              *)
MCTitleAt ==
    [s \in {"documents/a"} |->
        [v \in 1..2 |-> IF v = 1 THEN <<"Alps", "Bern">> ELSE <<"Bern", "Alps">>]]

Tagged(i, t) == [id |-> i, ref |-> t]
Plain(i) == [id |-> i, ref |-> NoRef]

MCRegionSeq == <<"north", "south">>

MCPbfRows ==
    [r \in {"north", "south"} |->
        IF r = "north"
        THEN <<<<Tagged(1, "Alps"), Plain(2)>>, <<Tagged(1, "Cork"), Plain(2)>>>>
        ELSE <<<<>>>>]

MCV1Polygons ==
    [r \in {"north", "south"} |->
        IF r = "north" THEN {Plain(2)} ELSE {Tagged(3, "Bern")}]
=============================================================================
