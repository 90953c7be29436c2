-------------------------- MODULE ContainmentProofs --------------------------
(***************************************************************************)
(* Proofs about Containment, for any number of children, identities, runs, *)
(* edits and kills: the types, that no row of a child is removed that the  *)
(* parent does not cover, that a recorded retirement has manifests which   *)
(* describe the merged parent as far as its processing has come, and that  *)
(* a clean run leaves no retired child on the Hub.                         *)
(***************************************************************************)
EXTENDS Containment, FiniteSetTheorems, WellFoundedInduction, TLAPS

------------------------------------------------------------------------------
(* The inductive invariant *)

Preparing == pc \in {"copy", "install", "processed", "augmented", "record"}

\* A rule is retired as a whole, and what is installed was staged before that.
RuleInv ==
    /\ retired = {} \/ retired = ChildSet
    /\ Preparing => retired = {} /\ staged # <<>>
    /\ pc = "remove" => retired = ChildSet /\ staged # <<>>

\* The polygons and links of a merged table are the parent's.
OwnedByParent(tables) ==
    \A d \in {"polygons", "polygon_articles"} : \A k \in DOMAIN tables[d] : tables[d][k].of = Parent

\* The parent always has its tables and its manifest entries, its polygons and links
\* are its own, and the links of a child name polygons of the child unless its links
\* are still those of an earlier extraction.
TablesInv ==
    /\ HasFiles(Parent) /\ processed[Parent] # <<>> /\ core[Parent] # <<>>
    /\ OwnedByParent(TablesOf(Parent))
    /\ \A c \in ChildSet :
           "links" \notin owed[c] /\ live[c]["polygons"] # <<>> /\ live[c]["polygon_articles"] # <<>> =>
               DOMAIN live[c]["polygon_articles"][1] \subseteq DOMAIN live[c]["polygons"][1]

\* Every polygon has its facts, unless they are owed.
FactsInv ==
    \A r \in Regions :
        /\ live[r]["polygons"] # <<>> /\ live[r]["facts"] # <<>>
        /\ "facts" \notin owed[r] /\ (r = Parent => "merge" \notin owed[r])
        => DOMAIN live[r]["polygons"][1] \subseteq DOMAIN live[r]["facts"][1]

\* A merge is installed to the end before anything is recorded of it.
MergeInv ==
    pc \in {"processed", "augmented", "record", "remove"} \/ retired # {} => "merge" \notin owed[Parent]

\* The region at hand is active and has polygons: until its entry is written, those
\* that were extracted together with the links.
WorkInv ==
    /\ Working => region \notin retired /\ live[region]["polygons"] # <<>>
    /\ pc \in {"links", "entry"} =>
           /\ staged # <<>> /\ live[region]["polygons"] = <<staged[1]["polygons"]>>
           /\ DOMAIN staged[1]["polygon_articles"] = DOMAIN staged[1]["polygons"]
           /\ \A k \in DOMAIN staged[1]["polygon_articles"] :
                  staged[1]["polygon_articles"][k].of = region

\* Every row of table d has its counterpart in the tables of the parent; a link
\* need not name a polygon if the links are owed.
CoveredBy(rows, d, tables, owes) ==
    \A k \in DOMAIN rows :
        /\ k \in DOMAIN tables[d]
        /\ d = "polygons" => tables[d][k].extracted >= rows[k].extracted
        /\ d = "polygon_articles" => \/ "links" \in owes
                                     \/ /\ k \in DOMAIN tables["polygons"]
                                        /\ tables[d][k].of = tables["polygons"][k].of

FactsOf(tables) == DOMAIN tables["polygons"] \subseteq DOMAIN tables["facts"]

\* What is staged covers the children until the last of their files is removed.
StagedInv ==
    Preparing \/ pc = "remove" =>
        /\ OwnedByParent(staged[1])
        /\ "facts" \notin owed[Parent] => FactsOf(staged[1])
        /\ \A c \in ChildSet, d \in Subdirs :
               live[c][d] # <<>> => CoveredBy(live[c][d][1], d, staged[1], owed[c])

\* How far the installation is: tables, then the processed manifest, then the hashes.
InstalledInv ==
    /\ pc \in {"copy", "install"} =>
           \A i \in 1..Len(Contracts) : i < at[1] =>
               live[Parent][Contracts[i]] = <<staged[1][Contracts[i]]>>
    /\ pc \in {"processed", "augmented", "record", "remove"} =>
           \A d \in Subdirs : live[Parent][d] = <<staged[1][d]>>
    /\ pc \in {"augmented", "record"} => processed[Parent] = <<ManifestStats(staged[1])>>
    /\ pc = "record" => core[Parent] = <<CoreHashes(staged[1])>>

\* As long as a run is clean, a retired child that is on the Hub is about to be deleted
\* there, and no job would bring one back.
PublishedInv ==
    (pc \in {"open", "run"} \/ Working) /\ clean /\ failed = 0 =>
        /\ \A i \in DOMAIN queue : queue[i].adds \notin retired
        /\ \A c \in retired : \/ c \notin hub
                              \/ pc = "open" /\ c \in present
                              \/ \E i \in DOMAIN queue : c \in queue[i].deletes

\* A run is clean from its inventory on.
CleanInv == clean => pc \in {"down", "open", "run"} \/ Working

IInv ==
    /\ TypeOK /\ RuleInv /\ TablesInv /\ FactsInv /\ MergeInv /\ WorkInv
    /\ StagedInv /\ InstalledInv /\ OnlyCutShortStale
    /\ PublishedInv /\ CleanInv /\ CleanRunRetires

------------------------------------------------------------------------------
(* Lemmas: files, tables, the rule *)

\* What there is of a file or entry: nothing, or its content.
LEMMA MaybeFacts ==
    /\ \A x : <<x>> # <<>> /\ <<x>>[1] = x
    /\ \A S : <<>> \in Maybe(S)
    /\ \A S : \A x \in S : <<x>> \in Maybe(S)
    /\ \A S : \A m \in Maybe(S) : m # <<>> => m[1] \in S /\ m = <<m[1]>>
<1>1. \A x : <<x>> # <<>> /\ <<x>>[1] = x
  OBVIOUS
<1>2. \A S : <<>> \in Maybe(S)
  BY DEF Maybe
<1>3. \A S : \A x \in S : <<x>> \in Maybe(S)
  BY DEF Maybe
<1>4. \A S : \A m \in Maybe(S) : m # <<>> => m[1] \in S /\ m = <<m[1]>>
  <2>. SUFFICES ASSUME NEW S, NEW m \in [1..1 -> S] PROVE m[1] \in S /\ m = <<m[1]>>
    BY DEF Maybe
  <2>. QED OBVIOUS
<1>. QED BY <1>1, <1>2, <1>3, <1>4

\* The tables of a region, in their order.
LEMMA ContractFacts ==
    /\ Len(Contracts) = 3
    /\ Contracts[1] = "polygons" /\ Contracts[2] = "polygon_articles" /\ Contracts[3] = "facts"
    /\ Subdirs = {"polygons", "polygon_articles", "facts"}
<1>1. /\ Len(Contracts) = 3 /\ DOMAIN Contracts = 1..3
      /\ Contracts[1] = "polygons" /\ Contracts[2] = "polygon_articles" /\ Contracts[3] = "facts"
  BY DEF Contracts
<1>2. \A x : x \in Subdirs <=> x \in {"polygons", "polygon_articles", "facts"}
  <2>1. \A x : x \in Subdirs <=> \E i \in 1..3 : x = Contracts[i]
    BY <1>1 DEF Subdirs, Range
  <2>2. \A i \in 1..3 : i = 1 \/ i = 2 \/ i = 3
    OBVIOUS
  <2>. QED BY <2>1, <2>2, <1>1
<1>. QED BY <1>1, <1>2

\* The children of the rule and their parent.
LEMMA Constants ==
    /\ Len(Children) \in Nat /\ Len(Children) > 0 /\ DOMAIN Children = 1..Len(Children)
    /\ \A i \in 1..Len(Children) : Children[i] \in ChildSet
    /\ \A c \in ChildSet : \E i \in 1..Len(Children) : Children[i] = c
    /\ ChildSet # {} /\ Parent \notin ChildSet /\ Parent \in Regions /\ ChildSet \subseteq Regions
    /\ MaxEdits \in Nat /\ MaxRuns \in Nat /\ MaxKills \in Nat
    /\ IsFiniteSet(Keys) /\ Cardinality(Keys) \in Nat
<1>1. /\ Children \in Seq(ChildSet) /\ Children # <<>> /\ Parent \notin ChildSet
      /\ MaxEdits \in Nat /\ MaxRuns \in Nat /\ MaxKills \in Nat
      /\ IsFiniteSet(Keys) /\ Cardinality(Keys) \in Nat
  BY ConstantsAssumption, FS_CardinalityType DEF ChildSet
<1>2. /\ Len(Children) \in Nat /\ Len(Children) > 0 /\ DOMAIN Children = 1..Len(Children)
      /\ \A i \in 1..Len(Children) : Children[i] \in ChildSet
  BY <1>1
<1>3. \A c \in ChildSet : \E i \in 1..Len(Children) : Children[i] = c
  BY <1>2 DEF ChildSet, Range
<1>4. ChildSet # {} /\ Parent \in Regions /\ ChildSet \subseteq Regions
  BY <1>2 DEF Regions
<1>. QED BY <1>1, <1>2, <1>3, <1>4

\* A row under another provenance.
LEMMA RowFacts ==
    ASSUME NEW row \in Row, NEW r \in Regions
    PROVE  /\ row.extracted \in Nat /\ row.of \in Regions
           /\ [row EXCEPT !.of = r] \in Row
           /\ [row EXCEPT !.of = r].of = r
           /\ [row EXCEPT !.of = r].extracted = row.extracted
  BY Constants DEF Row

\* A table of rows, and a row of a table.
LEMMA RowsFacts ==
    /\ \A ks \in SUBSET Keys : \A f \in [ks -> Row] : f \in Rows
    /\ \A t \in Rows : DOMAIN t \subseteq Keys /\ t = [k \in DOMAIN t |-> t[k]]
                       /\ \A k \in DOMAIN t : t[k] \in Row
  BY DEF Rows

\* A set of natural numbers has a smallest one.
LEMMA Smallest ==
    ASSUME NEW S \in SUBSET Nat, S # {} PROVE \E m \in S : \A n \in S : m <= n
<1>1. PICK m \in S : \A n \in S : ~ (<<n, m>> \in OpToRel(<, Nat))
  BY WFMin, NatLessThanWellFounded
<1>2. \A n \in S : ~ (n < m)
  BY <1>1 DEF OpToRel
<1>. QED BY <1>2

------------------------------------------------------------------------------
(* Lemmas: the children that are not retired *)

\* What the loop of _pending_rule has kept after n children.
KeptAt(f, n) == IF n = 0 THEN <<>>
                ELSE IF Children[n] \in retired THEN f[n - 1]
                ELSE Append(f[n - 1], Children[n])

KeptUpTo(f, m) == f = [n \in 0..m |-> KeptAt(f, n)]

\* The recursion has a solution: the shortest one without would have a predecessor.
LEMMA KeptExists == ASSUME NEW l \in Nat PROVE \E f : KeptUpTo(f, l)
<1>. DEFINE Bad == {m \in Nat : ~ \E f : KeptUpTo(f, m)}
<1>. SUFFICES ASSUME Bad # {} PROVE FALSE
  OBVIOUS
<1>1. PICK m \in Bad : \A n \in Bad : m <= n
  BY Smallest
<1>2. CASE m = 0
  <2>. DEFINE g == [n \in 0..0 |-> <<>>]
  <2>1. KeptUpTo(g, 0)
    BY DEF KeptUpTo, KeptAt
  <2>. QED BY <2>1, <1>2, <1>1
<1>3. CASE m # 0
  <2>1. m - 1 \in Nat /\ m - 1 \notin Bad
    BY <1>1, <1>3
  <2>2. PICK f : KeptUpTo(f, m - 1)
    BY <2>1
  <2>. DEFINE last == KeptAt(f, m)
              g    == [n \in 0..m |-> IF n = m THEN last ELSE f[n]]
  <2>. HIDE DEF last
  <2>3. \A n \in 0..m - 1 : g[n] = f[n]
    BY <2>1
  <2>4. \A n \in 0..m - 1 : f[n] = KeptAt(f, n)
    BY <2>2, <2>1 DEF KeptUpTo
  <2>5. \A n \in 0..m : g[n] = KeptAt(g, n)
    BY <2>3, <2>4, <1>3, <2>1 DEF last, KeptAt
  <2>6. g = [n \in 0..m |-> g[n]]
    OBVIOUS
  <2>. HIDE DEF g
  <2>7. KeptUpTo(g, m)
    BY <2>5, <2>6 DEF KeptUpTo
  <2>. QED BY <2>7, <1>1
<1>. QED BY <1>2, <1>3

\* What is kept of the first n children.
KeptOf(s, n) ==
    /\ s \in Seq(ChildSet) /\ Len(s) <= n
    /\ \A c : c \in Range(s) <=> c \notin retired /\ \E i \in 1..n : Children[i] = c

\* Every prefix is kept as the recursion's name says.
LEMMA KeptInvariant ==
    ASSUME NEW f, KeptUpTo(f, Len(Children)), NEW l \in 0..Len(Children)
    PROVE  KeptOf(f[l], l)
<1>. DEFINE Bad == {m \in 0..Len(Children) : ~KeptOf(f[m], m)}
<1>. SUFFICES ASSUME Bad # {} PROVE FALSE
  OBVIOUS
<1>0. Bad \subseteq Nat
  BY Constants
<1>1. PICK m \in Bad : \A n \in Bad : m <= n
  BY Smallest, <1>0
<1>2. f[m] = KeptAt(f, m)
  BY <1>1 DEF KeptUpTo
<1>3. CASE m = 0
  <2>1. f[m] = <<>>
    BY <1>2, <1>3 DEF KeptAt
  <2>2. Range(<<>>) = {} /\ <<>> \in Seq(ChildSet) /\ Len(<<>>) = 0
    BY DEF Range
  <2>3. ~ \E i \in 1..0 : TRUE
    OBVIOUS
  <2>4. KeptOf(<<>>, 0)
    BY <2>2, <2>3 DEF KeptOf
  <2>. QED BY <2>1, <2>4, <1>1, <1>3
<1>4. CASE m # 0
  <2>1. m \in 1..Len(Children) /\ m - 1 \in 0..Len(Children) /\ m - 1 \notin Bad
    BY <1>1, <1>4, Constants
  <2>2. KeptOf(f[m - 1], m - 1)
    BY <2>1
  <2>3. Children[m] \in ChildSet
    BY <2>1, Constants
  <2>4. \A c : (\E i \in 1..m : Children[i] = c)
               <=> (\E i \in 1..(m - 1) : Children[i] = c) \/ c = Children[m]
    BY <2>1, Constants
  <2>5. CASE Children[m] \in retired
    <3>1. f[m] = f[m - 1]
      BY <2>5, <1>2, <1>4 DEF KeptAt
    <3>2. f[m - 1] \in Seq(ChildSet) /\ Len(f[m - 1]) <= m - 1
      BY <2>2 DEF KeptOf
    <3>3. Len(f[m - 1]) <= m
      BY <3>2, <2>1, Constants
    <3>. QED BY <3>1, <3>2, <3>3, <2>2, <2>4, <2>5, <1>1 DEF KeptOf
  <2>6. CASE Children[m] \notin retired
    <3>. DEFINE s == f[m - 1]
    <3>1. f[m] = Append(s, Children[m])
      BY <2>6, <1>2, <1>4 DEF KeptAt
    <3>2. s \in Seq(ChildSet) /\ Len(s) <= m - 1
      BY <2>2 DEF KeptOf
    <3>3. /\ Append(s, Children[m]) \in Seq(ChildSet) /\ Len(Append(s, Children[m])) <= m
          /\ \A c : c \in Range(Append(s, Children[m])) <=> c \in Range(s) \/ c = Children[m]
      <4>1. /\ Append(s, Children[m]) \in Seq(ChildSet)
            /\ Len(Append(s, Children[m])) = Len(s) + 1
            /\ DOMAIN Append(s, Children[m]) = 1..(Len(s) + 1) /\ DOMAIN s = 1..Len(s)
            /\ \A i \in 1..Len(s) : Append(s, Children[m])[i] = s[i]
            /\ Append(s, Children[m])[Len(s) + 1] = Children[m] /\ Len(s) \in Nat
        BY <3>2, <2>3
      <4>. HIDE DEF s
      <4>2. \A c : c \in Range(Append(s, Children[m])) <=> c \in Range(s) \/ c = Children[m]
        BY <4>1 DEF Range
      <4>. QED BY <4>1, <4>2, <3>2, <2>1, Constants
    <3>. QED BY <3>1, <3>3, <2>2, <2>4, <2>6, <1>1 DEF KeptOf
  <2>. QED BY <2>5, <2>6
<1>. QED BY <1>3, <1>4

\* The pending children are those that are not retired, at most all of them.
LEMMA PendingFacts ==
    /\ Pending \in Seq(ChildSet) /\ Len(Pending) \in Nat /\ Len(Pending) <= Len(Children)
    /\ DOMAIN Pending = 1..Len(Pending)
    /\ Range(Pending) = ChildSet \ retired
    /\ \A c \in ChildSet \ retired : \E i \in 1..Len(Pending) : Pending[i] = c
    /\ \A i \in 1..Len(Pending) : Pending[i] \in ChildSet \ retired
<1>1. \E f : KeptUpTo(f, Len(Children))
  BY KeptExists, Constants
<1>2. PICK f : KeptUpTo(f, Len(Children)) /\ Pending = f[Len(Children)]
  BY <1>1 DEF KeptUpTo, KeptAt, Pending
<1>3. KeptOf(Pending, Len(Children))
  BY <1>2, KeptInvariant, Constants
<1>4. Pending \in Seq(ChildSet) /\ Len(Pending) <= Len(Children) /\ Range(Pending) = ChildSet \ retired
  BY <1>3, Constants DEF KeptOf
<1>5. Len(Pending) \in Nat /\ DOMAIN Pending = 1..Len(Pending)
  BY <1>4
<1>. QED BY <1>4, <1>5 DEF Range

------------------------------------------------------------------------------
(* Lemmas: the merge *)

\* Table d of the parent after the first n children.
MergedAt(d, children, polygons, f, n) ==
    IF n = 0 THEN TablesOf(Parent)[d]
    ELSE IF d = "polygons" THEN MergePolygons(f[n - 1], TablesOf(children[n])["polygons"])
    ELSE AppendRows(f[n - 1], TablesOf(children[n])[d], d, polygons)

MergedUpTo(d, children, polygons, f, m) ==
    f = [n \in 0..m |-> MergedAt(d, children, polygons, f, n)]

\* The recursion of the merge has a solution.
LEMMA MergedExists ==
    ASSUME NEW d, NEW children, NEW polygons, NEW l \in Nat
    PROVE  \E f : MergedUpTo(d, children, polygons, f, l)
<1>. DEFINE Bad == {m \in Nat : ~ \E f : MergedUpTo(d, children, polygons, f, m)}
<1>. SUFFICES ASSUME Bad # {} PROVE FALSE
  OBVIOUS
<1>1. PICK m \in Bad : \A n \in Bad : m <= n
  BY Smallest
<1>2. CASE m = 0
  <2>. DEFINE g == [n \in 0..0 |-> TablesOf(Parent)[d]]
  <2>1. MergedUpTo(d, children, polygons, g, 0)
    BY DEF MergedUpTo, MergedAt
  <2>. QED BY <2>1, <1>2, <1>1
<1>3. CASE m # 0
  <2>1. m - 1 \in Nat /\ m - 1 \notin Bad
    BY <1>1, <1>3
  <2>2. PICK f : MergedUpTo(d, children, polygons, f, m - 1)
    BY <2>1
  <2>. DEFINE last == MergedAt(d, children, polygons, f, m)
              g    == [n \in 0..m |-> IF n = m THEN last ELSE f[n]]
  <2>. HIDE DEF last
  <2>3. \A n \in 0..m - 1 : g[n] = f[n]
    BY <2>1
  <2>4. \A n \in 0..m - 1 : f[n] = MergedAt(d, children, polygons, f, n)
    BY <2>2, <2>1 DEF MergedUpTo
  <2>5. \A n \in 0..m : g[n] = MergedAt(d, children, polygons, g, n)
    BY <2>3, <2>4, <1>3, <2>1 DEF last, MergedAt
  <2>6. g = [n \in 0..m |-> g[n]]
    OBVIOUS
  <2>. HIDE DEF g
  <2>7. MergedUpTo(d, children, polygons, g, m)
    BY <2>5, <2>6 DEF MergedUpTo
  <2>. QED BY <2>7, <1>1
<1>. QED BY <1>2, <1>3

\* One child's polygons: none is lost, none gets older, all are the parent's.
LEMMA MergePolygonsFacts ==
    ASSUME NEW rows \in Rows, NEW child \in Rows,
           \A k \in DOMAIN rows : rows[k].of = Parent
    PROVE  LET merged == MergePolygons(rows, child)
           IN  /\ merged \in Rows /\ DOMAIN merged = DOMAIN rows \cup DOMAIN child
               /\ \A k \in DOMAIN merged : merged[k].of = Parent
               /\ \A k \in DOMAIN rows : merged[k].extracted >= rows[k].extracted
               /\ \A k \in DOMAIN child : merged[k].extracted >= child[k].extracted
<1>. DEFINE merged == MergePolygons(rows, child)
<1>1. DOMAIN merged = DOMAIN rows \cup DOMAIN child /\ DOMAIN merged \subseteq Keys
  BY RowsFacts DEF MergePolygons
<1>2. ASSUME NEW k \in DOMAIN child
      PROVE  /\ merged[k] \in Row /\ merged[k].of = Parent
             /\ merged[k].extracted >= child[k].extracted
             /\ k \in DOMAIN rows => merged[k].extracted >= rows[k].extracted
  <2>1. merged[k] = CanonicalPolygonRow(RowAt(rows, k), child[k])
    BY DEF MergePolygons
  <2>2. child[k] \in Row
    BY RowsFacts
  <2>3. CASE k \in DOMAIN rows
    <3>1. rows[k] \in Row /\ RowAt(rows, k) = <<rows[k]>>
      BY <2>3, RowsFacts DEF RowAt
    <3>2. merged[k] = [IF child[k].extracted > rows[k].extracted THEN child[k] ELSE rows[k]
                          EXCEPT !.of = Parent]
      BY <2>1, <3>1, MaybeFacts DEF CanonicalPolygonRow
    <3>3. child[k].extracted \in Nat /\ rows[k].extracted \in Nat
      BY <2>2, <3>1, Constants, RowFacts
    <3>4. CASE child[k].extracted > rows[k].extracted
      BY <3>2, <3>3, <3>4, <2>2, RowFacts, Constants
    <3>5. CASE ~(child[k].extracted > rows[k].extracted)
      BY <3>1, <3>2, <3>3, <3>5, RowFacts, Constants
    <3>. QED BY <3>4, <3>5
  <2>4. CASE k \notin DOMAIN rows
    <3>1. merged[k] = [child[k] EXCEPT !.of = Parent]
      BY <2>1, <2>4 DEF CanonicalPolygonRow, RowAt
    <3>2. child[k].extracted \in Nat
      BY <2>2, Constants, RowFacts
    <3>. QED BY <3>1, <3>2, <2>2, <2>4, RowFacts, Constants
  <2>. QED BY <2>3, <2>4
<1>3. ASSUME NEW k \in DOMAIN rows, k \notin DOMAIN child
      PROVE  merged[k] = rows[k] /\ merged[k] \in Row /\ rows[k].extracted \in Nat
  <2>1. merged[k] = rows[k]
    BY <1>3 DEF MergePolygons
  <2>2. rows[k] \in Row
    BY RowsFacts
  <2>. QED BY <2>1, <2>2, RowFacts, Constants
<1>4. \A k \in DOMAIN merged : merged[k] \in Row
  BY <1>1, <1>2, <1>3
<1>5. merged = [k \in DOMAIN merged |-> merged[k]]
  BY DEF MergePolygons
<1>6. merged \in Rows
  <2>. HIDE DEF merged
  <2>1. merged \in [DOMAIN merged -> Row]
    BY <1>4, <1>5
  <2>. QED BY <1>1, <2>1, RowsFacts
<1>. QED BY <1>1, <1>2, <1>3, <1>6

\* The polygons that the links in ks refer to.
Named(polygons, ks) == \A k \in ks : polygons[k].of \in Regions

Appended(merged, rows, child, d, polygons) ==
    /\ merged \in Rows /\ DOMAIN merged = DOMAIN rows \cup DOMAIN child
    /\ \A k \in DOMAIN rows : merged[k] = rows[k]
    /\ d = "polygon_articles" =>
           \A k \in DOMAIN child \ DOMAIN rows : merged[k].of = polygons[k].of

\* One child's rows of another table: those it adds are the only ones it changes.
LEMMA AppendRowsFacts ==
    ASSUME NEW rows \in Rows, NEW child \in Rows, NEW d, NEW polygons,
           d = "polygon_articles" => Named(polygons, DOMAIN child \ DOMAIN rows)
    PROVE  Appended(AppendRows(rows, child, d, polygons), rows, child, d, polygons)
<1>. DEFINE merged == AppendRows(rows, child, d, polygons)
<1>1. DOMAIN merged = DOMAIN rows \cup DOMAIN child /\ DOMAIN merged \subseteq Keys
  BY RowsFacts DEF AppendRows
<1>2. \A k \in DOMAIN rows : merged[k] = rows[k] /\ merged[k] \in Row
  BY RowsFacts DEF AppendRows
<1>3. ASSUME NEW k \in DOMAIN child \ DOMAIN rows
      PROVE  merged[k] \in Row /\ (d = "polygon_articles" => merged[k].of = polygons[k].of)
  <2>1. child[k] \in Row
    BY RowsFacts
  <2>2. CASE d = "polygon_articles"
    <3>1. merged[k] = [child[k] EXCEPT !.of = polygons[k].of]
      BY <2>2 DEF AppendRows, RemapLink
    <3>2. polygons[k].of \in Regions
      BY <2>2 DEF Named
    <3>. QED BY <3>1, <3>2, <2>1, RowFacts
  <2>3. CASE d # "polygon_articles"
    BY <2>1, <2>3 DEF AppendRows
  <2>. QED BY <2>2, <2>3
<1>4. \A k \in DOMAIN merged : merged[k] \in Row
  BY <1>1, <1>2, <1>3
<1>5. merged = [k \in DOMAIN merged |-> merged[k]]
  BY DEF AppendRows
<1>6. merged \in Rows
  <2>. HIDE DEF merged
  <2>1. merged \in [DOMAIN merged -> Row]
    BY <1>4, <1>5
  <2>. QED BY <1>1, <2>1, RowsFacts
<1>. QED BY <1>1, <1>2, <1>3, <1>6 DEF Appended

\* Regions that can be merged: they have all their tables, the parent's polygons and
\* links are its own.
Mergeable(children) ==
    /\ live \in [Regions -> [Subdirs -> Maybe(Rows)]]
    /\ children \in Seq(ChildSet)
    /\ \A d \in Subdirs : TablesOf(Parent)[d] \in Rows
    /\ OwnedByParent(TablesOf(Parent))
    /\ \A i \in 1..Len(children) : \A d \in Subdirs : TablesOf(children[i])[d] \in Rows

\* The links that are new to the parent name a polygon of the table.
LinksIn(children, polygons) ==
    \A i \in 1..Len(children) :
        DOMAIN TablesOf(children[i])["polygon_articles"] \ DOMAIN TablesOf(Parent)["polygon_articles"]
            \subseteq DOMAIN polygons

\* The first n children are in the polygon table, and nobody else.
PolygonsOf(rows, children, n) ==
    /\ rows \in Rows /\ \A k \in DOMAIN rows : rows[k].of = Parent
    /\ \A i \in 1..n : \A k \in DOMAIN TablesOf(children[i])["polygons"] :
           /\ k \in DOMAIN rows
           /\ rows[k].extracted >= TablesOf(children[i])["polygons"][k].extracted
    /\ \A k \in DOMAIN rows : \/ k \in DOMAIN TablesOf(Parent)["polygons"]
                              \/ \E i \in 1..n : k \in DOMAIN TablesOf(children[i])["polygons"]

\* Every prefix of the children is.
LEMMA MergedPolygonsInvariant ==
    ASSUME NEW children, Mergeable(children), NEW polygons, NEW f,
           MergedUpTo("polygons", children, polygons, f, Len(children)),
           NEW l \in 0..Len(children)
    PROVE  PolygonsOf(f[l], children, l)
<1>. DEFINE Bad == {m \in 0..Len(children) : ~PolygonsOf(f[m], children, m)}
<1>. SUFFICES ASSUME Bad # {} PROVE FALSE
  OBVIOUS
<1>0. Bad \subseteq Nat /\ Len(children) \in Nat
  BY DEF Mergeable
<1>1. PICK m \in Bad : \A n \in Bad : m <= n
  BY Smallest, <1>0
<1>2. f[m] = MergedAt("polygons", children, polygons, f, m)
  BY <1>1 DEF MergedUpTo
<1>3. "polygons" \in Subdirs
  BY ContractFacts
<1>4. CASE m = 0
  <2>1. f[m] = TablesOf(Parent)["polygons"]
    BY <1>2, <1>4 DEF MergedAt
  <2>2. \A k \in DOMAIN f[m] : f[m][k].of = Parent
    BY <2>1 DEF Mergeable, OwnedByParent
  <2>3. f[m] \in Rows
    BY <2>1, <1>3 DEF Mergeable
  <2>. QED BY <2>1, <2>2, <2>3, <1>1, <1>4 DEF PolygonsOf
<1>5. CASE m # 0
  <2>1. m \in 1..Len(children) /\ m - 1 \in 0..Len(children) /\ m - 1 \notin Bad
    BY <1>0, <1>1, <1>5
  <2>. DEFINE rows  == f[m - 1]
              child == TablesOf(children[m])["polygons"]
  <2>2. PolygonsOf(rows, children, m - 1)
    BY <2>1
  <2>3. child \in Rows
    BY <2>1, <1>3 DEF Mergeable
  <2>4. f[m] = MergePolygons(rows, child)
    BY <1>2, <1>5 DEF MergedAt
  <2>5. rows \in Rows /\ \A k \in DOMAIN rows : rows[k].of = Parent
    BY <2>2 DEF PolygonsOf
  <2>6. /\ f[m] \in Rows /\ DOMAIN f[m] = DOMAIN rows \cup DOMAIN child
        /\ \A k \in DOMAIN f[m] : f[m][k].of = Parent
        /\ \A k \in DOMAIN rows : f[m][k].extracted >= rows[k].extracted
        /\ \A k \in DOMAIN child : f[m][k].extracted >= child[k].extracted
    <3>. HIDE DEF rows, child
    <3>. QED BY <2>3, <2>4, <2>5, MergePolygonsFacts, SMTT(20)
  <2>7. ASSUME NEW i \in 1..m, NEW k \in DOMAIN TablesOf(children[i])["polygons"]
        PROVE  k \in DOMAIN f[m] /\ f[m][k].extracted >= TablesOf(children[i])["polygons"][k].extracted
    <3>1. CASE i = m
      BY <3>1, <2>6
    <3>2. CASE i # m
      <4>1. i \in 1..(m - 1) /\ i \in 1..Len(children)
        BY <3>2, <2>1, <1>0
      <4>2. k \in DOMAIN rows /\ rows[k].extracted >= TablesOf(children[i])["polygons"][k].extracted
        BY <4>1, <2>2, <2>7 DEF PolygonsOf
      <4>3. TablesOf(children[i])["polygons"] \in Rows
        BY <4>1, <1>3 DEF Mergeable
      <4>4. /\ TablesOf(children[i])["polygons"][k].extracted \in Nat
            /\ rows[k].extracted \in Nat /\ f[m][k].extracted \in Nat
        <5>1. /\ TablesOf(children[i])["polygons"][k] \in Row /\ rows[k] \in Row /\ f[m][k] \in Row
          BY <4>2, <4>3, <2>5, <2>6, <2>7, RowsFacts
        <5>. QED BY <5>1, RowFacts, Constants
      <4>5. f[m][k].extracted >= rows[k].extracted /\ k \in DOMAIN f[m]
        BY <4>2, <2>6
      <4>. QED BY <4>2, <4>4, <4>5
    <3>. QED BY <3>1, <3>2
  <2>8. ASSUME NEW k \in DOMAIN f[m]
        PROVE  \/ k \in DOMAIN TablesOf(Parent)["polygons"]
               \/ \E i \in 1..m : k \in DOMAIN TablesOf(children[i])["polygons"]
    <3>1. CASE k \in DOMAIN child
      <4>1. m \in 1..m
        BY <2>1, <1>0
      <4>. QED BY <3>1, <4>1
    <3>2. CASE k \in DOMAIN rows
      <4>1. \A i \in 1..(m - 1) : i \in 1..m
        BY <2>1, <1>0
      <4>2. \/ k \in DOMAIN TablesOf(Parent)["polygons"]
            \/ \E i \in 1..(m - 1) : k \in DOMAIN TablesOf(children[i])["polygons"]
        BY <3>2, <2>2 DEF PolygonsOf
      <4>. QED BY <4>1, <4>2
    <3>. QED BY <3>1, <3>2, <2>6
  <2>. QED BY <2>6, <2>7, <2>8, <1>1 DEF PolygonsOf
<1>. QED BY <1>4, <1>5

\* The merged polygon table covers every child.
LEMMA MergedPolygonsFacts ==
    ASSUME NEW children, Mergeable(children)
    PROVE  PolygonsOf(MergedPolygons(children), children, Len(children))
<1>1. Len(children) \in Nat
  BY DEF Mergeable
<1>2. PICK g : MergedUpTo("polygons", children, {}, g, Len(children))
  BY <1>1, MergedExists
<1>3. g = [n \in 0..Len(children) |->
              IF n = 0 THEN TablesOf(Parent)["polygons"]
              ELSE MergePolygons(g[n - 1], TablesOf(children[n])["polygons"])]
  BY <1>2 DEF MergedUpTo, MergedAt
<1>4. PICK f : /\ f = [n \in 0..Len(children) |->
                          IF n = 0 THEN TablesOf(Parent)["polygons"]
                          ELSE MergePolygons(f[n - 1], TablesOf(children[n])["polygons"])]
               /\ MergedPolygons(children) = f[Len(children)]
  BY <1>3 DEF MergedPolygons
<1>5. MergedUpTo("polygons", children, {}, f, Len(children))
  BY <1>4 DEF MergedUpTo, MergedAt
<1>6. Len(children) \in 0..Len(children)
  BY <1>1
<1>7. PolygonsOf(f[Len(children)], children, Len(children))
  BY <1>5, <1>6, MergedPolygonsInvariant
<1>. QED BY <1>4, <1>7

\* The parent and the first n children are in table d; its links are the parent's.
RowsOf(rows, d, children, n) ==
    /\ rows \in Rows /\ DOMAIN TablesOf(Parent)[d] \subseteq DOMAIN rows
    /\ d = "polygon_articles" => \A k \in DOMAIN rows : rows[k].of = Parent
    /\ \A i \in 1..n : DOMAIN TablesOf(children[i])[d] \subseteq DOMAIN rows

\* Every prefix of the children is, once all polygons are in the polygon table.
LEMMA MergedRowsInvariant ==
    ASSUME NEW children, Mergeable(children), NEW d \in Subdirs \ {"polygons"}, NEW polygons,
           PolygonsOf(polygons, children, Len(children)), LinksIn(children, polygons), NEW f,
           MergedUpTo(d, children, polygons, f, Len(children)), NEW l \in 0..Len(children)
    PROVE  RowsOf(f[l], d, children, l)
<1>. DEFINE Bad == {m \in 0..Len(children) : ~RowsOf(f[m], d, children, m)}
<1>. SUFFICES ASSUME Bad # {} PROVE FALSE
  OBVIOUS
<1>0. Bad \subseteq Nat /\ Len(children) \in Nat
  BY DEF Mergeable
<1>1. PICK m \in Bad : \A n \in Bad : m <= n
  BY Smallest, <1>0
<1>2. f[m] = MergedAt(d, children, polygons, f, m)
  BY <1>1 DEF MergedUpTo
<1>4. CASE m = 0
  <2>1. f[m] = TablesOf(Parent)[d]
    BY <1>2, <1>4 DEF MergedAt
  <2>2. d = "polygon_articles" => \A k \in DOMAIN f[m] : f[m][k].of = Parent
    BY <2>1 DEF Mergeable, OwnedByParent
  <2>3. f[m] \in Rows
    BY <2>1 DEF Mergeable
  <2>. QED BY <2>1, <2>2, <2>3, <1>1, <1>4 DEF RowsOf
<1>5. CASE m # 0
  <2>1. m \in 1..Len(children) /\ m - 1 \in 0..Len(children) /\ m - 1 \notin Bad
    BY <1>0, <1>1, <1>5
  <2>. DEFINE rows  == f[m - 1]
              child == TablesOf(children[m])[d]
  <2>2. RowsOf(rows, d, children, m - 1)
    BY <2>1
  <2>3. child \in Rows
    BY <2>1 DEF Mergeable
  <2>4. f[m] = AppendRows(rows, child, d, polygons)
    BY <1>2, <1>5 DEF MergedAt
  <2>5. ASSUME d = "polygon_articles", NEW k \in DOMAIN child \ DOMAIN rows
        PROVE  polygons[k].of = Parent
    <3>1. k \notin DOMAIN TablesOf(Parent)["polygon_articles"]
      BY <2>2, <2>5 DEF RowsOf
    <3>2. k \in DOMAIN polygons
      BY <2>1, <2>5, <3>1 DEF LinksIn
    <3>. QED BY <3>2 DEF PolygonsOf
  <2>6. rows \in Rows
    BY <2>2 DEF RowsOf
  <2>7. /\ f[m] \in Rows /\ DOMAIN f[m] = DOMAIN rows \cup DOMAIN child
        /\ \A k \in DOMAIN rows : f[m][k] = rows[k]
        /\ d = "polygon_articles" =>
               \A k \in DOMAIN child \ DOMAIN rows : f[m][k].of = polygons[k].of
    <3>. HIDE DEF rows, child
    <3>1. d = "polygon_articles" => Named(polygons, DOMAIN child \ DOMAIN rows)
      BY <2>5, Constants DEF Named
    <3>2. Appended(AppendRows(rows, child, d, polygons), rows, child, d, polygons)
      BY <3>1, <2>3, <2>6, AppendRowsFacts
    <3>. QED BY <3>2, <2>4 DEF Appended
  <2>8. d = "polygon_articles" => \A k \in DOMAIN f[m] : f[m][k].of = Parent
    <3>. HIDE DEF rows, child
    <3>1. d = "polygon_articles" => \A k \in DOMAIN rows : rows[k].of = Parent
      BY <2>2 DEF RowsOf
    <3>. QED BY <3>1, <2>5, <2>7
  <2>9. ASSUME NEW i \in 1..m PROVE DOMAIN TablesOf(children[i])[d] \subseteq DOMAIN f[m]
    <3>1. CASE i = m
      BY <3>1, <2>7
    <3>2. CASE i # m
      <4>1. i \in 1..(m - 1)
        BY <3>2, <2>1, <1>0
      <4>2. DOMAIN TablesOf(children[i])[d] \subseteq DOMAIN rows
        BY <4>1, <2>2 DEF RowsOf
      <4>. QED BY <4>2, <2>7
    <3>. QED BY <3>1, <3>2
  <2>10. DOMAIN TablesOf(Parent)[d] \subseteq DOMAIN f[m]
    <3>1. DOMAIN TablesOf(Parent)[d] \subseteq DOMAIN rows
      BY <2>2 DEF RowsOf
    <3>. QED BY <3>1, <2>7
  <2>. QED BY <2>7, <2>8, <2>9, <2>10, <1>1 DEF RowsOf
<1>. QED BY <1>4, <1>5

\* The merged table d holds every child's rows.
LEMMA MergedRowsFacts ==
    ASSUME NEW children, Mergeable(children), NEW d \in Subdirs \ {"polygons"}, NEW polygons,
           PolygonsOf(polygons, children, Len(children)), LinksIn(children, polygons)
    PROVE  RowsOf(MergedRows(d, children, polygons), d, children, Len(children))
<1>1. Len(children) \in Nat
  BY DEF Mergeable
<1>2. PICK g : MergedUpTo(d, children, polygons, g, Len(children))
  BY <1>1, MergedExists
<1>3. g = [n \in 0..Len(children) |->
              IF n = 0 THEN TablesOf(Parent)[d]
              ELSE AppendRows(g[n - 1], TablesOf(children[n])[d], d, polygons)]
  BY <1>2 DEF MergedUpTo, MergedAt
<1>4. PICK f : /\ f = [n \in 0..Len(children) |->
                          IF n = 0 THEN TablesOf(Parent)[d]
                          ELSE AppendRows(f[n - 1], TablesOf(children[n])[d], d, polygons)]
               /\ MergedRows(d, children, polygons) = f[Len(children)]
  BY <1>3 DEF MergedRows
<1>5. MergedUpTo(d, children, polygons, f, Len(children))
  BY <1>4 DEF MergedUpTo, MergedAt
<1>6. Len(children) \in 0..Len(children)
  BY <1>1
<1>7. RowsOf(f[Len(children)], d, children, Len(children))
  BY <1>5, <1>6, MergedRowsInvariant
<1>. QED BY <1>4, <1>7

\* stage_rule loses nothing: what is staged is the parent's own, covers every table of
\* every child that was merged, and has the facts of its polygons if all of them do.
LEMMA StagedFacts ==
    ASSUME NEW children, Mergeable(children), LinksNamed(children)
    PROVE  /\ StagedTables(children) \in Tables
           /\ OwnedByParent(StagedTables(children))
           /\ \A owes : \A i \in 1..Len(children), d \in Subdirs :
                  (d = "polygon_articles" /\ "links" \notin owes =>
                      DOMAIN TablesOf(children[i])["polygon_articles"]
                          \subseteq DOMAIN TablesOf(children[i])["polygons"])
                  => CoveredBy(TablesOf(children[i])[d], d, StagedTables(children), owes)
           /\ FactsOf(TablesOf(Parent)) /\ (\A i \in 1..Len(children) : FactsOf(TablesOf(children[i])))
                  => FactsOf(StagedTables(children))
<1>. DEFINE polygons == MergedPolygons(children)
            tables   == StagedTables(children)
<1>1. PolygonsOf(polygons, children, Len(children))
  BY MergedPolygonsFacts
<1>0. LinksIn(children, polygons)
  <2>1. \A i \in 1..Len(children) : children[i] \in Range(children)
    BY DEF Mergeable, Range
  <2>. HIDE DEF polygons
  <2>2. \A c \in Range(children) :
            DOMAIN TablesOf(c)["polygon_articles"] \ DOMAIN TablesOf(Parent)["polygon_articles"]
                \subseteq DOMAIN polygons
    BY DEF LinksNamed, polygons
  <2>. QED BY <2>1, <2>2 DEF LinksIn
<1>2. \A d \in Subdirs \ {"polygons"} :
          RowsOf(MergedRows(d, children, polygons), d, children, Len(children))
  <2>. HIDE DEF polygons
  <2>. QED BY <1>0, <1>1, MergedRowsFacts
<1>3. /\ tables["polygons"] = polygons
      /\ \A d \in Subdirs \ {"polygons"} : tables[d] = MergedRows(d, children, polygons)
      /\ tables = [d \in Subdirs |-> tables[d]]
  BY ContractFacts DEF StagedTables
<1>. HIDE DEF polygons, tables
<1>4. /\ \A d \in Subdirs \ {"polygons"} : RowsOf(tables[d], d, children, Len(children))
      /\ PolygonsOf(tables["polygons"], children, Len(children))
  BY <1>1, <1>2, <1>3
<1>5. \A d \in Subdirs : tables[d] \in Rows
  BY <1>4 DEF RowsOf, PolygonsOf
<1>6. tables \in Tables
  BY <1>3, <1>5 DEF Tables
<1>7. OwnedByParent(tables)
  BY <1>4, ContractFacts DEF OwnedByParent, RowsOf, PolygonsOf
<1>8. ASSUME NEW i \in 1..Len(children), NEW d \in Subdirs, NEW owes,
             d = "polygon_articles" /\ "links" \notin owes =>
                 DOMAIN TablesOf(children[i])["polygon_articles"]
                     \subseteq DOMAIN TablesOf(children[i])["polygons"]
      PROVE  CoveredBy(TablesOf(children[i])[d], d, tables, owes)
  <2>. SUFFICES ASSUME NEW k \in DOMAIN TablesOf(children[i])[d]
                PROVE  /\ k \in DOMAIN tables[d]
                       /\ d = "polygons" =>
                              tables[d][k].extracted >= TablesOf(children[i])[d][k].extracted
                       /\ d = "polygon_articles" => \/ "links" \in owes
                              \/ /\ k \in DOMAIN tables["polygons"]
                                 /\ tables[d][k].of = tables["polygons"][k].of
    BY DEF CoveredBy
  <2>1. CASE d = "polygons"
    BY <2>1, <1>4 DEF PolygonsOf
  <2>2. CASE d = "polygon_articles"
    <3>1. k \in DOMAIN tables[d]
      BY <2>2, <1>4 DEF RowsOf
    <3>2. CASE "links" \notin owes
      <4>1. k \in DOMAIN TablesOf(children[i])["polygons"]
        BY <2>2, <3>2, <1>8
      <4>2. k \in DOMAIN tables["polygons"]
        BY <4>1, <1>4 DEF PolygonsOf
      <4>. QED BY <2>2, <3>1, <4>2, <1>7 DEF OwnedByParent
    <3>. QED BY <2>2, <3>1, <3>2
  <2>3. CASE d \notin {"polygons", "polygon_articles"}
    BY <2>3, <1>4 DEF RowsOf
  <2>. QED BY <2>1, <2>2, <2>3
<1>9. ASSUME FactsOf(TablesOf(Parent)), \A i \in 1..Len(children) : FactsOf(TablesOf(children[i]))
      PROVE  FactsOf(tables)
  <2>1. RowsOf(tables["facts"], "facts", children, Len(children))
    BY <1>4, ContractFacts
  <2>2. /\ DOMAIN TablesOf(Parent)["facts"] \subseteq DOMAIN tables["facts"]
        /\ \A i \in 1..Len(children) : DOMAIN TablesOf(children[i])["facts"] \subseteq DOMAIN tables["facts"]
    BY <2>1 DEF RowsOf
  <2>3. \A k \in DOMAIN tables["polygons"] :
            \/ k \in DOMAIN TablesOf(Parent)["polygons"]
            \/ \E i \in 1..Len(children) : k \in DOMAIN TablesOf(children[i])["polygons"]
    BY <1>4 DEF PolygonsOf
  <2>. QED BY <1>9, <2>2, <2>3 DEF FactsOf
<1>. QED BY <1>6, <1>7, <1>8, <1>9 DEF tables

------------------------------------------------------------------------------
(* The types *)

Stats  == 0..Cardinality(Keys)
Owable == {"links", "entry", "facts", "hash", "merge"}

DiskTypeOK ==
    /\ live \in [Regions -> [Subdirs -> Maybe(Rows)]]
    /\ sound \in [Regions -> BOOLEAN]
    /\ quarantine \in [Regions -> [Subdirs -> Maybe(Rows) \cup {Torn}]]
    /\ retired \subseteq ChildSet
    /\ processed \in [Regions -> Maybe(Stats)]
    /\ core \in [Regions -> Maybe(Rows)]
    /\ owed \in [Regions -> SUBSET Owable]

QueueTypeOK ==
    /\ queue \in Seq(Job) /\ hub \subseteq Regions /\ failed \in 0..Len(queue)

Steps == {"down", "prepare", "copy", "install", "processed", "augmented", "record", "remove",
          "plan", "open", "run", "links", "entry", "facts", "hashes", "publish"}

RunTypeOK ==
    /\ pc \in Steps /\ region \in Regions
    /\ push \in BOOLEAN /\ clean \in BOOLEAN
    /\ staged \in Maybe(Tables)
    /\ at \in (1..Len(Contracts)) \X (1..Len(Children) + 1)
    /\ present \subseteq ChildSet
    /\ clock \in 0..MaxEdits /\ runs \in 0..MaxRuns /\ kills \in 0..MaxKills

\* The three parts are the type invariant.
LEMMA TypeParts == TypeOK <=> DiskTypeOK /\ QueueTypeOK /\ RunTypeOK
  BY DEF TypeOK, DiskTypeOK, QueueTypeOK, RunTypeOK, Stats, Owable, Steps

\* What the manifests record of tables.
LEMMA TablesFacts ==
    ASSUME NEW tables \in Tables
    PROVE  /\ \A d \in Subdirs : tables[d] \in Rows
           /\ tables = [d \in Subdirs |-> tables[d]]
           /\ ManifestStats(tables) \in Stats /\ CoreHashes(tables) \in Rows
<1>1. \A d \in Subdirs : tables[d] \in Rows
  BY DEF Tables
<1>2. \A t \in Rows : Cardinality(DOMAIN t) \in 0..Cardinality(Keys)
  <2>. SUFFICES ASSUME NEW t \in Rows PROVE Cardinality(DOMAIN t) \in 0..Cardinality(Keys)
    OBVIOUS
  <2>1. DOMAIN t \subseteq Keys /\ IsFiniteSet(Keys)
    BY RowsFacts, Constants
  <2>2. IsFiniteSet(DOMAIN t) /\ Cardinality(DOMAIN t) <= Cardinality(Keys)
    BY <2>1, FS_Subset
  <2>. QED BY <2>1, <2>2, FS_CardinalityType
<1>3. tables["polygons"] \in Rows
  BY <1>1, ContractFacts
<1>4. ManifestStats(tables) \in Stats
  BY <1>2, <1>3 DEF ManifestStats, Stats
<1>5. CoreHashes(tables) \in Rows
  BY <1>3 DEF CoreHashes
<1>6. tables = [d \in Subdirs |-> tables[d]]
  BY DEF Tables
<1>. QED BY <1>1, <1>4, <1>5, <1>6

\* The tables of a region that was processed.
LEMMA ExtractedFacts ==
    ASSUME NEW r \in Regions, NEW ks \in SUBSET Keys, NEW now \in 0..MaxEdits
    PROVE  /\ Extracted(r, ks, now) \in Tables
           /\ \A d \in Subdirs : /\ DOMAIN Extracted(r, ks, now)[d] = ks
                                 /\ \A k \in ks : Extracted(r, ks, now)[d][k].of = r
<1>1. [extracted |-> now, of |-> r] \in Row
  BY DEF Row
<1>2. [k \in ks |-> [extracted |-> now, of |-> r]] \in Rows
  BY <1>1, RowsFacts
<1>3. Extracted(r, ks, now) \in Tables
  BY <1>2 DEF Extracted, Tables
<1>4. \A d \in Subdirs : Extracted(r, ks, now)[d] = [k \in ks |-> [extracted |-> now, of |-> r]]
  BY DEF Extracted
<1>. QED BY <1>3, <1>4

\* The tables of a region as they are on disk.
LEMMA LiveFacts ==
    ASSUME DiskTypeOK, NEW r \in Regions
    PROVE  /\ \A d \in Subdirs : TablesOf(r)[d] = live[r][d][1]
           /\ \A d \in Subdirs : live[r][d] # <<>> => live[r][d][1] \in Rows /\ live[r][d] = <<live[r][d][1]>>
           /\ HasFiles(r) => TablesOf(r) \in Tables
<1>1. \A d \in Subdirs : TablesOf(r)[d] = live[r][d][1]
  BY DEF TablesOf
<1>2. \A d \in Subdirs : live[r][d] \in Maybe(Rows)
  BY DEF DiskTypeOK
<1>3. \A d \in Subdirs : live[r][d] # <<>> => live[r][d][1] \in Rows /\ live[r][d] = <<live[r][d][1]>>
  BY <1>2, MaybeFacts
<1>4. HasFiles(r) => TablesOf(r) \in Tables
  BY <1>3 DEF HasFiles, TablesOf, Tables
<1>. QED BY <1>1, <1>3, <1>4

\* What StageRule merges can be merged.
LEMMA PendingMergeable ==
    ASSUME TypeOK, TablesInv, HasRequiredFiles PROVE Mergeable(Pending)
<1>1. DiskTypeOK
  BY TypeParts
<1>2. \A d \in Subdirs : TablesOf(Parent)[d] \in Rows
  BY <1>1, LiveFacts, TablesFacts, Constants DEF TablesInv
<1>3. ASSUME NEW i \in 1..Len(Pending) PROVE \A d \in Subdirs : TablesOf(Pending[i])[d] \in Rows
  <2>1. Pending[i] \in ChildSet /\ Pending[i] \in Regions /\ Pending[i] \in Range(Pending)
    BY PendingFacts, Constants
  <2>2. HasFiles(Pending[i])
    BY <2>1 DEF HasRequiredFiles
  <2>. QED BY <1>1, <2>1, <2>2, LiveFacts, TablesFacts
<1>. QED BY <1>1, <1>2, <1>3, PendingFacts DEF Mergeable, TablesInv, DiskTypeOK

\* One table of one region is written.
OneTable(r, d, file) == live' = [live EXCEPT ![r][d] = file]

\* What the tables are then.
LEMMA OneTableFacts ==
    ASSUME live \in [Regions -> [Subdirs -> Maybe(Rows)]],
           NEW r \in Regions, NEW d \in Subdirs, NEW file, OneTable(r, d, file)
    PROVE  /\ file \in Maybe(Rows) => live' \in [Regions -> [Subdirs -> Maybe(Rows)]]
           /\ \A x \in Regions, e \in Subdirs :
                  live'[x][e] = IF x = r /\ e = d THEN file ELSE live[x][e]
           /\ \A x \in Regions : x # r => live'[x] = live[x]
  BY DEF OneTable

\* What is owed of one region changes.
LEMMA OwedFacts ==
    ASSUME owed \in [Regions -> SUBSET Owable], NEW r \in Regions, NEW what \in SUBSET Owable,
           owed' = [owed EXCEPT ![r] = what]
    PROVE  /\ owed' \in [Regions -> SUBSET Owable]
           /\ \A x \in Regions : owed'[x] = IF x = r THEN what ELSE owed[x]
  OBVIOUS

\* The steps that change what is owed, and how.
LEMMA OwedSteps ==
    ASSUME TypeOK
    PROVE  /\ StageRule => owed' = owed \/ owed' = [owed EXCEPT ![Parent] = owed[Parent] \cup {"facts"}]
           /\ StageRule /\ Lags => owed' = [owed EXCEPT ![Parent] = owed[Parent] \cup {"facts"}]
           /\ InstallFile => owed' = [owed EXCEPT ![Parent] = IF at[1] = 3
                  THEN owed[Parent] \ {"merge"} ELSE owed[Parent] \cup {"merge"}]
           /\ UpdateProcessedManifest => owed' = [owed EXCEPT ![Parent] = owed[Parent] \ {"entry"}]
           /\ UpdateAugmentationManifest => owed' = [owed EXCEPT ![Parent] = owed[Parent] \ {"hash"}]
           /\ \A r, ks, s : PersistPolygons(r, ks, s) =>
                  owed' = [owed EXCEPT ![r] = {"links", "entry", "facts", "hash"}]
           /\ PersistLinks => owed' = [owed EXCEPT ![region] = owed[region] \ {"links"}]
           /\ WriteManifestEntry => owed' = [owed EXCEPT ![region] = owed[region] \ {"entry"}]
           /\ WriteSidecars => owed' = [owed EXCEPT ![region] = owed[region] \ {"facts", "merge"}]
           /\ WriteAugmentationEntry => owed' = [owed EXCEPT ![region] = owed[region] \ {"hash"}]
<1>1. owed \in [Regions -> SUBSET Owable] /\ at[1] \in 1..3
  BY ContractFacts DEF TypeOK, Owable
<1>2. Contracts[at[1]] = "facts" <=> at[1] = 3
  <2>1. at[1] = 1 \/ at[1] = 2 \/ at[1] = 3
    BY <1>1
  <2>. QED BY <2>1, ContractFacts
<1>3. StageRule => owed' = owed \/ owed' = [owed EXCEPT ![Parent] = owed[Parent] \cup {"facts"}]
  BY <1>1, Constants DEF StageRule
<1>4. StageRule /\ Lags => owed' = [owed EXCEPT ![Parent] = owed[Parent] \cup {"facts"}]
  BY DEF StageRule
<1>5. InstallFile => owed' = [owed EXCEPT ![Parent] = IF at[1] = 3
          THEN owed[Parent] \ {"merge"} ELSE owed[Parent] \cup {"merge"}]
  BY <1>2 DEF InstallFile
<1>. QED BY <1>3, <1>4, <1>5 DEF UpdateProcessedManifest, UpdateAugmentationManifest, PersistPolygons,
            PersistLinks, WriteManifestEntry, WriteSidecars, WriteAugmentationEntry

\* What is owed keeps its shape.
LEMMA OwedTypeStep ==
    ASSUME IInv, Next PROVE owed' \in [Regions -> SUBSET Owable]
<1>0. /\ TypeOK /\ owed \in [Regions -> SUBSET Owable] /\ region \in Regions /\ Parent \in Regions
      /\ \A r \in Regions : owed[r] \in SUBSET Owable
  BY Constants DEF IInv, TypeOK, Owable
<1>1. "facts" \in Owable /\ "merge" \in Owable /\ {"links", "entry", "facts", "hash"} \in SUBSET Owable
  BY DEF Owable
<1>2. ASSUME NEW r \in Regions, NEW what \in SUBSET Owable, owed' = [owed EXCEPT ![r] = what]
      PROVE  owed' \in [Regions -> SUBSET Owable]
  BY <1>0, <1>2
<1>3. CASE StageRule \/ InstallFile \/ UpdateProcessedManifest \/ UpdateAugmentationManifest
  <2>1. \E what \in SUBSET Owable : owed' = owed \/ owed' = [owed EXCEPT ![Parent] = what]
    <3>1. /\ owed[Parent] \cup {"facts"} \in SUBSET Owable /\ owed[Parent] \cup {"merge"} \in SUBSET Owable
          /\ owed[Parent] \ {"merge"} \in SUBSET Owable /\ owed[Parent] \ {"entry"} \in SUBSET Owable
          /\ owed[Parent] \ {"hash"} \in SUBSET Owable
      BY <1>0, <1>1
    <3>2. CASE StageRule
      BY <3>1, <3>2, <1>0, OwedSteps
    <3>3. CASE InstallFile
      <4>1. \/ owed' = [owed EXCEPT ![Parent] = owed[Parent] \ {"merge"}]
            \/ owed' = [owed EXCEPT ![Parent] = owed[Parent] \cup {"merge"}]
        BY <3>3, <1>0, OwedSteps
      <4>. QED BY <4>1, <3>1
    <3>4. CASE UpdateProcessedManifest
      BY <3>1, <3>4, <1>0, OwedSteps
    <3>5. CASE UpdateAugmentationManifest
      BY <3>1, <3>5, <1>0, OwedSteps
    <3>. QED BY <1>3, <3>2, <3>3, <3>4, <3>5
  <2>. QED BY <2>1, <1>0, <1>2
<1>4. CASE Process
  <2>1. ASSUME NEW r \in Regions, NEW ks, NEW s, PersistPolygons(r, ks, s)
        PROVE  owed' \in [Regions -> SUBSET Owable]
    <3>1. owed' = [owed EXCEPT ![r] = {"links", "entry", "facts", "hash"}]
      BY <2>1, <1>0, OwedSteps
    <3>. QED BY <3>1, <1>1, <1>2
  <2>2. CASE PersistLinks \/ WriteManifestEntry \/ WriteSidecars \/ WriteAugmentationEntry
    <3>1. \E what : owed' = [owed EXCEPT ![region] = owed[region] \ what]
      BY <2>2, <1>0, OwedSteps
    <3>2. PICK what : owed' = [owed EXCEPT ![region] = owed[region] \ what]
      BY <3>1
    <3>3. owed[region] \ what \in SUBSET Owable
      BY <1>0
    <3>. QED BY <3>2, <3>3, <1>0, <1>2
  <2>3. ASSUME UNCHANGED owed PROVE owed' \in [Regions -> SUBSET Owable]
    BY <2>3, <1>0
  <2>4. ASSUME NEW r \in Regions, AugmentRegion(r) PROVE UNCHANGED owed
    BY <2>4 DEF AugmentRegion, disk
  <2>5. CASE PublishRegion
    BY <2>5, <2>3 DEF PublishRegion, disk
  <2>. QED BY <1>4, <2>1, <2>2, <2>3, <2>4, <2>5 DEF Process
<1>5. ASSUME UNCHANGED owed PROVE owed' \in [Regions -> SUBSET Owable]
  BY <1>5, <1>0
<1>6. CASE \/ \E p \in BOOLEAN : Begin(p)
           \/ SkipRule \/ StageRaises \/ CopyOnce \/ PersistPreparedRule \/ RemoveFile \/ Removed
           \/ FetchInventory \/ PlanRaises \/ EnqueueRetirement \/ Deliver \/ Finish
           \/ \E committed \in BOOLEAN : DeliverFails(committed)
           \/ \E torn \in BOOLEAN : Kill(torn)
  BY <1>5, <1>6 DEF Begin, SkipRule, StageRaises, CopyOnce, PersistPreparedRule, RemoveFile, Removed,
                    FetchInventory, PlanRaises, EnqueueRetirement, Deliver, Finish, DeliverFails,
                    Kill, disk
<1>. QED BY <1>3, <1>4, <1>6 DEF Next, Prepare

\* Region r was extracted as tables, and its polygon table is replaced.
Persisted(r, ks, tables) ==
    /\ OneTable(r, "polygons", <<tables["polygons"]>>)
    /\ staged' = <<tables>> /\ region' = r /\ r \notin retired
    /\ \A d \in Subdirs : DOMAIN tables[d] = ks /\ \A k \in ks : tables[d][k].of = r

\* What the steps that process a region write, and what they leave.
LEMMA ProcessSteps ==
    ASSUME IInv
    PROVE  /\ \A r \in Regions, ks \in (SUBSET Keys) \ {{}}, s \in BOOLEAN : PersistPolygons(r, ks, s) =>
                  \E tables \in Tables : Persisted(r, ks, tables)
           /\ PersistLinks => /\ staged[1] \in Tables
                              /\ OneTable(region, "polygon_articles", <<staged[1]["polygon_articles"]>>)
           /\ WriteSidecars => \E rows \in Rows : /\ OneTable(region, "facts", <<rows>>)
                                                  /\ DOMAIN rows = DOMAIN live[region]["polygons"][1]
<1>0. TypeOK /\ WorkInv /\ DiskTypeOK /\ RunTypeOK
  BY TypeParts DEF IInv
<1>1. ASSUME NEW r \in Regions, NEW ks \in (SUBSET Keys) \ {{}}, NEW s \in BOOLEAN,
             PersistPolygons(r, ks, s)
      PROVE  \E tables \in Tables : Persisted(r, ks, tables)
  <2>1. clock + 1 \in 0..MaxEdits
    BY <1>0, <1>1, Constants DEF PersistPolygons, RunTypeOK
  <2>2. PICK tables : tables = Extracted(r, ks, clock + 1)
    OBVIOUS
  <2>3. /\ tables \in Tables
        /\ \A d \in Subdirs : DOMAIN tables[d] = ks /\ \A k \in ks : tables[d][k].of = r
    BY <2>1, <2>2, ExtractedFacts
  <2>4. /\ OneTable(r, "polygons", <<tables["polygons"]>>)
        /\ staged' = <<tables>> /\ region' = r /\ r \notin retired
    BY <1>1, <2>2 DEF PersistPolygons, OneTable, Active
  <2>. QED BY <2>3, <2>4 DEF Persisted
<1>2. ASSUME PersistLinks
      PROVE  /\ staged[1] \in Tables
             /\ OneTable(region, "polygon_articles", <<staged[1]["polygon_articles"]>>)
  <2>1. staged # <<>> /\ staged \in Maybe(Tables)
    BY <1>0, <1>2 DEF PersistLinks, WorkInv, RunTypeOK
  <2>. QED BY <2>1, <1>2, MaybeFacts DEF PersistLinks, OneTable
<1>3. ASSUME WriteSidecars
      PROVE  \E rows \in Rows : /\ OneTable(region, "facts", <<rows>>)
                                /\ DOMAIN rows = DOMAIN live[region]["polygons"][1]
  <2>. DEFINE ks   == DOMAIN live[region]["polygons"][1]
              rows == [k \in ks |-> [extracted |-> clock, of |-> region]]
  <2>1. live[region]["polygons"] # <<>> /\ region \in Regions /\ clock \in 0..MaxEdits
    BY <1>0, <1>3 DEF WriteSidecars, WorkInv, Working, RunTypeOK
  <2>2. "polygons" \in Subdirs
    BY ContractFacts
  <2>3. live[region]["polygons"][1] \in Rows
    BY <1>0, <2>1, <2>2, LiveFacts
  <2>4. ks \in SUBSET Keys
    BY <2>3, RowsFacts
  <2>5. [extracted |-> clock, of |-> region] \in Row
    BY <2>1 DEF Row
  <2>6. rows \in Rows
    <3>. HIDE DEF ks
    <3>. QED BY <2>4, <2>5, RowsFacts
  <2>7. DOMAIN rows = ks
    OBVIOUS
  <2>8. OneTable(region, "facts", <<rows>>)
    BY <1>3 DEF WriteSidecars, OneTable
  <2>. QED BY <2>6, <2>7, <2>8
<1>. QED BY <1>1, <1>2, <1>3

\* A file of a child at hand is removed.
LEMMA RemoveStep ==
    ASSUME IInv, RemoveFile PROVE \E c \in ChildSet, d \in Subdirs : OneTable(c, d, <<>>)
<1>1. PICK i \in DOMAIN Children, j \in DOMAIN Contracts :
          live' = [live EXCEPT ![Children[i]][Contracts[j]] = <<>>]
  BY DEF RemoveFile
<1>2. Children[i] \in ChildSet /\ Contracts[j] \in Subdirs
  BY DEF ChildSet, Subdirs, Range
<1>. QED BY <1>1, <1>2 DEF OneTable

\* The files and manifests keep their shape.
LEMMA DiskTypeStep ==
    ASSUME IInv, Next PROVE DiskTypeOK'
<1>0. /\ TypeOK /\ DiskTypeOK /\ RunTypeOK
      /\ owed' \in [Regions -> SUBSET Owable]
  BY TypeParts, OwedTypeStep DEF IInv
<1>1. ASSUME UNCHANGED disk PROVE DiskTypeOK'
  BY <1>0, <1>1 DEF DiskTypeOK, disk
<1>2. ASSUME NEW p \in BOOLEAN, Begin(p) PROVE DiskTypeOK'
  BY <1>1, <1>2 DEF Begin
<1>3. CASE \/ SkipRule \/ StageRaises \/ Removed \/ FetchInventory \/ PlanRaises \/ EnqueueRetirement
           \/ PublishRegion \/ \E r \in Regions : AugmentRegion(r)
  BY <1>1, <1>3 DEF SkipRule, StageRaises, Removed, FetchInventory, PlanRaises, EnqueueRetirement,
                    PublishRegion, AugmentRegion
<1>14. CASE StageRule
  BY <1>0, <1>14 DEF StageRule, DiskTypeOK
<1>4. CASE CopyOnce
  <2>. DEFINE d == Contracts[at[1]]
              r == Inputs[at[2]]
  <2>1. d \in Subdirs
    <3>1. at[1] \in 1..3
      BY <1>0, ContractFacts DEF RunTypeOK
    <3>. QED BY <3>1, ContractFacts
  <2>2. UNCHANGED <<live, sound, retired, processed, core>>
    BY <1>4 DEF CopyOnce
  <2>3. quarantine' = quarantine \/ quarantine' = [quarantine EXCEPT ![r][d] = live[r][d]]
    BY <1>4 DEF CopyOnce
  <2>. HIDE DEF d, r
  <2>4. quarantine' \in [Regions -> [Subdirs -> Maybe(Rows) \cup {Torn}]]
    <3>1. CASE r \in Regions
      <4>1. live[r][d] \in Maybe(Rows)
        BY <1>0, <2>1, <3>1 DEF DiskTypeOK
      <4>. DEFINE Copy == Maybe(Rows) \cup {Torn}
                  copy == live[r][d]
      <4>2. copy \in Copy /\ quarantine \in [Regions -> [Subdirs -> Copy]]
        BY <1>0, <4>1 DEF DiskTypeOK
      <4>3. quarantine' = quarantine \/ quarantine' = [quarantine EXCEPT ![r][d] = copy]
        BY <2>3
      <4>. HIDE DEF Copy, copy
      <4>4. [quarantine EXCEPT ![r][d] = copy] \in [Regions -> [Subdirs -> Copy]]
        BY <4>2
      <4>. QED BY <4>2, <4>3, <4>4 DEF Copy
    <3>2. CASE r \notin Regions
      BY <1>0, <2>3, <3>2 DEF DiskTypeOK
    <3>. QED BY <3>1, <3>2
  <2>. QED BY <1>0, <2>2, <2>4 DEF DiskTypeOK
<1>5. CASE InstallFile
  <2>. DEFINE d == Contracts[at[1]]
  <2>1. d \in Subdirs
    <3>1. at[1] \in 1..3
      BY <1>0, ContractFacts DEF RunTypeOK
    <3>. QED BY <3>1, ContractFacts
  <2>2. UNCHANGED <<sound, quarantine, retired, processed, core>>
    BY <1>5 DEF InstallFile
  <2>3. live' = [live EXCEPT ![Parent][d] = <<staged[1][d]>>]
    BY <1>5 DEF InstallFile
  <2>4. staged[1] \in Tables
    BY <1>0, <1>5, MaybeFacts DEF RunTypeOK, InstallFile, IInv, RuleInv, Preparing
  <2>. HIDE DEF d
  <2>5. <<staged[1][d]>> \in Maybe(Rows)
    BY <2>1, <2>4, TablesFacts, MaybeFacts
  <2>6. live' \in [Regions -> [Subdirs -> Maybe(Rows)]]
    BY <1>0, <2>1, <2>3, <2>5, Constants DEF DiskTypeOK
  <2>. QED BY <1>0, <2>2, <2>6 DEF DiskTypeOK
<1>6. CASE UpdateProcessedManifest
  <2>1. staged[1] \in Tables
    BY <1>0, <1>6, MaybeFacts DEF RunTypeOK, UpdateProcessedManifest, IInv, RuleInv, Preparing
  <2>2. <<>> \in Maybe(Stats) /\ <<ManifestStats(staged[1])>> \in Maybe(Stats)
    BY <2>1, TablesFacts, MaybeFacts
  <2>3. \A r \in Regions : processed[r] \in Maybe(Stats)
    BY <1>0 DEF DiskTypeOK
  <2>4. processed' \in [Regions -> Maybe(Stats)]
    BY <1>6, <2>2, <2>3 DEF UpdateProcessedManifest
  <2>. QED BY <1>0, <1>6, <2>4 DEF DiskTypeOK, UpdateProcessedManifest
<1>7. CASE UpdateAugmentationManifest
  <2>1. staged[1] \in Tables
    BY <1>0, <1>7, MaybeFacts DEF RunTypeOK, UpdateAugmentationManifest, IInv, RuleInv, Preparing
  <2>2. <<>> \in Maybe(Rows) /\ <<CoreHashes(staged[1])>> \in Maybe(Rows)
    BY <2>1, TablesFacts, MaybeFacts
  <2>3. \A r \in Regions : core[r] \in Maybe(Rows)
    BY <1>0 DEF DiskTypeOK
  <2>4. core' \in [Regions -> Maybe(Rows)]
    BY <1>7, <2>2, <2>3 DEF UpdateAugmentationManifest
  <2>. QED BY <1>0, <1>7, <2>4 DEF DiskTypeOK, UpdateAugmentationManifest
<1>8. CASE PersistPreparedRule
  BY <1>0, <1>8, PendingFacts DEF DiskTypeOK, PersistPreparedRule
<1>9. CASE RemoveFile
  <2>1. PICK c \in ChildSet, d \in Subdirs : OneTable(c, d, <<>>)
    BY <1>9, RemoveStep
  <2>2. live' \in [Regions -> [Subdirs -> Maybe(Rows)]]
    BY <1>0, <2>1, MaybeFacts, OneTableFacts, Constants DEF DiskTypeOK
  <2>. QED BY <1>0, <1>9, <2>2 DEF DiskTypeOK, RemoveFile
<1>10. CASE Process
  <2>0. /\ live \in [Regions -> [Subdirs -> Maybe(Rows)]] /\ region \in Regions
        /\ "polygons" \in Subdirs /\ "polygon_articles" \in Subdirs /\ "facts" \in Subdirs
    BY <1>0, ContractFacts DEF DiskTypeOK, RunTypeOK
  <2>1. ASSUME NEW r \in Regions, NEW ks \in (SUBSET Keys) \ {{}}, NEW s \in BOOLEAN,
               PersistPolygons(r, ks, s)
        PROVE  DiskTypeOK'
    <3>0. PICK tables \in Tables : Persisted(r, ks, tables)
      BY <2>1, ProcessSteps
    <3>1. OneTable(r, "polygons", <<tables["polygons"]>>)
      BY <3>0 DEF Persisted
    <3>2. <<tables["polygons"]>> \in Maybe(Rows)
      BY <2>0, TablesFacts, MaybeFacts
    <3>3. live' \in [Regions -> [Subdirs -> Maybe(Rows)]]
      BY <2>0, <3>1, <3>2, OneTableFacts
    <3>4. sound' \in [Regions -> BOOLEAN] /\ UNCHANGED <<quarantine, retired, processed, core>>
      BY <1>0, <2>1 DEF PersistPolygons, DiskTypeOK
    <3>. QED BY <1>0, <3>3, <3>4 DEF DiskTypeOK
  <2>2. CASE PersistLinks
    <3>1. <<staged[1]["polygon_articles"]>> \in Maybe(Rows)
      BY <2>0, <2>2, ProcessSteps, TablesFacts, MaybeFacts
    <3>2. live' \in [Regions -> [Subdirs -> Maybe(Rows)]]
      BY <2>0, <2>2, <3>1, ProcessSteps, OneTableFacts
    <3>. QED BY <1>0, <2>2, <3>2 DEF DiskTypeOK, PersistLinks
  <2>3. CASE WriteManifestEntry
    <3>1. staged[1] \in Tables
      BY <1>0, <2>3, MaybeFacts DEF WriteManifestEntry, IInv, WorkInv, RunTypeOK
    <3>2. <<ManifestStats(staged[1])>> \in Maybe(Stats)
      BY <3>1, TablesFacts, MaybeFacts
    <3>3. processed' \in [Regions -> Maybe(Stats)]
      BY <1>0, <2>0, <2>3, <3>2 DEF WriteManifestEntry, DiskTypeOK
    <3>. QED BY <1>0, <2>3, <3>3 DEF DiskTypeOK, WriteManifestEntry
  <2>4. CASE WriteSidecars
    <3>1. PICK rows \in Rows : OneTable(region, "facts", <<rows>>)
      BY <2>4, ProcessSteps
    <3>2. live' \in [Regions -> [Subdirs -> Maybe(Rows)]]
      BY <2>0, <3>1, MaybeFacts, OneTableFacts
    <3>. QED BY <1>0, <2>4, <3>2 DEF DiskTypeOK, WriteSidecars
  <2>5. CASE WriteAugmentationEntry
    <3>1. live[region]["polygons"] \in Maybe(Rows)
      BY <2>0
    <3>2. core' \in [Regions -> Maybe(Rows)]
      BY <1>0, <2>0, <2>5, <3>1 DEF WriteAugmentationEntry, DiskTypeOK
    <3>. QED BY <1>0, <2>5, <3>2 DEF DiskTypeOK, WriteAugmentationEntry
  <2>. QED BY <1>10, <1>3, <2>1, <2>2, <2>3, <2>4, <2>5 DEF Process
<1>11. CASE Deliver \/ Finish
  BY <1>1, <1>11 DEF Deliver, Finish
<1>12. ASSUME NEW committed \in BOOLEAN, DeliverFails(committed) PROVE DiskTypeOK'
  BY <1>1, <1>12 DEF DeliverFails
<1>13. ASSUME NEW torn \in BOOLEAN, Kill(torn) PROVE DiskTypeOK'
  <2>. DEFINE d == Contracts[at[1]]
              r == Inputs[at[2]]
  <2>1. quarantine' = quarantine \/ quarantine' = [quarantine EXCEPT ![r][d] = Torn]
    BY <1>13 DEF Kill
  <2>2. UNCHANGED <<live, sound, retired, processed, core>>
    BY <1>13 DEF Kill
  <2>. HIDE DEF d, r
  <2>3. quarantine' \in [Regions -> [Subdirs -> Maybe(Rows) \cup {Torn}]]
    <3>. DEFINE Copy == Maybe(Rows) \cup {Torn}
    <3>1. Torn \in Copy /\ quarantine \in [Regions -> [Subdirs -> Copy]]
      BY <1>0 DEF DiskTypeOK
    <3>. HIDE DEF Copy
    <3>2. [quarantine EXCEPT ![r][d] = Torn] \in [Regions -> [Subdirs -> Copy]]
      BY <3>1
    <3>. QED BY <2>1, <3>1, <3>2 DEF Copy
  <2>. QED BY <1>0, <2>2, <2>3 DEF DiskTypeOK
<1>. QED BY <1>2, <1>3, <1>4, <1>5, <1>6, <1>7, <1>8, <1>9, <1>10, <1>11, <1>12, <1>13, <1>14
         DEF Next, Prepare

------------------------------------------------------------------------------
(* The queue and the run *)

\* The commits that are enqueued.
LEMMA JobFacts ==
    /\ \A r \in Regions : /\ RegionJob(r) \in Job /\ RegionJob(r).adds = r
                          /\ RegionJob(r).deletes = {}
    /\ TypeOK => RetirementJob \in Job
    /\ RetirementJob.adds = Parent /\ RetirementJob.deletes = present
    /\ \A j \in Job : j.adds \in Regions
  BY Constants DEF RegionJob, RetirementJob, Job, TypeOK

\* A job that is appended, and one that leaves the queue.
LEMMA QueueFacts ==
    ASSUME NEW q \in Seq(Job)
    PROVE  /\ DOMAIN q = 1..Len(q) /\ Len(q) \in Nat /\ \A i \in 1..Len(q) : q[i] \in Job
           /\ \A j \in Job : /\ Append(q, j) \in Seq(Job) /\ Len(Append(q, j)) = Len(q) + 1
                             /\ \A i \in 1..Len(q) : Append(q, j)[i] = q[i]
                             /\ Append(q, j)[Len(q) + 1] = j
           /\ \A n \in 1..Len(q) : /\ RemoveAt(q, n) \in Seq(Job)
                                   /\ Len(RemoveAt(q, n)) = Len(q) - 1
                                   /\ \A i \in 1..Len(q) - 1 :
                                          RemoveAt(q, n)[i] = IF i < n THEN q[i] ELSE q[i + 1]
<1>1. /\ DOMAIN q = 1..Len(q) /\ Len(q) \in Nat /\ \A i \in 1..Len(q) : q[i] \in Job
      /\ \A j \in Job : /\ Append(q, j) \in Seq(Job) /\ Len(Append(q, j)) = Len(q) + 1
                        /\ \A i \in 1..Len(q) : Append(q, j)[i] = q[i]
                        /\ Append(q, j)[Len(q) + 1] = j
  OBVIOUS
<1>2. ASSUME NEW n \in 1..Len(q)
      PROVE  /\ RemoveAt(q, n) \in Seq(Job)
             /\ Len(RemoveAt(q, n)) = Len(q) - 1
             /\ \A i \in 1..Len(q) - 1 : RemoveAt(q, n)[i] = IF i < n THEN q[i] ELSE q[i + 1]
  <2>. DEFINE before == SubSeq(q, 1, n - 1)
              after  == SubSeq(q, n + 1, Len(q))
  <2>1. /\ before \in Seq(Job) /\ Len(before) = n - 1
        /\ \A i \in 1..n - 1 : before[i] = q[i]
    BY <1>1
  <2>2. /\ after \in Seq(Job) /\ Len(after) = Len(q) - n
        /\ \A i \in 1..Len(q) - n : after[i] = q[i + n]
    BY <1>1
  <2>3. RemoveAt(q, n) = before \o after
    BY DEF RemoveAt
  <2>. HIDE DEF before, after
  <2>4. /\ before \o after \in Seq(Job) /\ Len(before \o after) = Len(q) - 1
        /\ \A i \in 1..Len(q) - 1 : (before \o after)[i] =
               IF i < n THEN before[i] ELSE after[i - (n - 1)]
    <3>1. \A u, v \in Seq(Job) :
              /\ u \o v \in Seq(Job) /\ Len(u \o v) = Len(u) + Len(v)
              /\ \A i \in 1..Len(u) + Len(v) :
                     (u \o v)[i] = IF i <= Len(u) THEN u[i] ELSE v[i - Len(u)]
      OBVIOUS
    <3>. DEFINE rest == before \o after
    <3>2. /\ rest \in Seq(Job) /\ Len(rest) = Len(before) + Len(after)
          /\ \A i \in 1..Len(before) + Len(after) :
                 rest[i] = IF i <= Len(before) THEN before[i] ELSE after[i - Len(before)]
      BY <3>1, <2>1, <2>2, Zenon
    <3>. HIDE DEF rest
    <3>3. /\ rest \in Seq(Job) /\ Len(rest) = Len(q) - 1
          /\ \A i \in 1..Len(q) - 1 : rest[i] = IF i < n THEN before[i] ELSE after[i - (n - 1)]
      <4>1. /\ n \in Nat /\ Len(q) \in Nat /\ Len(before) = n - 1 /\ Len(after) = Len(q) - n
            /\ Len(before) + Len(after) = Len(q) - 1
        BY <2>1, <2>2, <1>1
      <4>2. ASSUME NEW i \in 1..Len(q) - 1
            PROVE  rest[i] = IF i < n THEN before[i] ELSE after[i - (n - 1)]
        <5>1. i \in 1..Len(before) + Len(after) /\ (i <= Len(before) <=> i < n)
          BY <4>1
        <5>2. rest[i] = IF i <= Len(before) THEN before[i] ELSE after[i - Len(before)]
          BY <3>2, <5>1
        <5>. QED BY <5>1, <5>2, <4>1
      <4>. QED BY <3>2, <4>1, <4>2
    <3>. QED BY <3>3 DEF rest
  <2>5. \A i \in 1..Len(q) - 1 : i >= n => i - (n - 1) \in 1..Len(q) - n /\ i - (n - 1) + n = i + 1
    BY <1>1
  <2>. QED BY <2>1, <2>2, <2>3, <2>4, <2>5
<1>. QED BY <1>1, <1>2

\* A commit leaves the Hub with regions.
LEMMA CommittedFacts ==
    ASSUME hub \subseteq Regions, NEW job \in Job PROVE Committed(job) \subseteq Regions
  BY JobFacts DEF Committed

\* The jobs, the Hub and the number of failed jobs keep their shape.
LEMMA QueueTypeStep ==
    ASSUME IInv, Next PROVE QueueTypeOK'
<1>0. TypeOK /\ DiskTypeOK /\ QueueTypeOK /\ RunTypeOK /\ TablesInv
  BY TypeParts DEF IInv
<1>1. /\ queue \in Seq(Job) /\ hub \subseteq Regions /\ failed \in 0..Len(queue)
      /\ Len(queue) \in Nat
  BY <1>0 DEF QueueTypeOK
<1>2. ASSUME UNCHANGED <<queue, hub>>, failed' = failed \/ failed' = 0 PROVE QueueTypeOK'
  BY <1>1, <1>2 DEF QueueTypeOK
<1>3. ASSUME NEW p \in BOOLEAN, Begin(p) PROVE QueueTypeOK'
  BY <1>2, <1>3 DEF Begin
<1>4. CASE Prepare
  BY <1>2, <1>4 DEF Prepare, SkipRule, StageRule, StageRaises, CopyOnce, InstallFile, UpdateProcessedManifest,
                    UpdateAugmentationManifest, PersistPreparedRule, RemoveFile, Removed, mem
<1>5. CASE FetchInventory \/ PlanRaises
  BY <1>2, <1>5 DEF FetchInventory, PlanRaises
<1>6. CASE EnqueueRetirement
  <2>1. RetirementJob \in Job
    BY <1>0, JobFacts
  <2>2. UNCHANGED <<hub, failed>> /\ (queue' = queue \/ queue' = Append(queue, RetirementJob))
    BY <1>6 DEF EnqueueRetirement, mem
  <2>3. queue' \in Seq(Job) /\ Len(queue') \in Nat /\ Len(queue') >= Len(queue)
    <3>1. Append(queue, RetirementJob) \in Seq(Job)
          /\ Len(Append(queue, RetirementJob)) = Len(queue) + 1
      BY <1>1, <2>1, QueueFacts
    <3>. QED BY <1>1, <2>2, <3>1
  <2>. QED BY <1>1, <2>2, <2>3 DEF QueueTypeOK
<1>7. CASE Process
  <2>1. CASE PublishRegion
    <3>. DEFINE job == RegionJob(region)
    <3>1. job \in Job
      BY <1>0, JobFacts DEF RunTypeOK
    <3>2. UNCHANGED <<hub, failed>> /\ (queue' = queue \/ queue' = Append(queue, job))
      BY <2>1 DEF PublishRegion
    <3>. HIDE DEF job
    <3>3. queue' \in Seq(Job) /\ Len(queue') \in Nat /\ Len(queue') >= Len(queue)
      <4>1. Append(queue, job) \in Seq(Job) /\ Len(Append(queue, job)) = Len(queue) + 1
        BY <1>1, <3>1, QueueFacts
      <4>. QED BY <1>1, <3>2, <4>1
    <3>. QED BY <1>1, <3>2, <3>3 DEF QueueTypeOK
  <2>2. ASSUME NEW r, NEW ks, NEW s, PersistPolygons(r, ks, s) PROVE QueueTypeOK'
    BY <1>2, <2>2 DEF PersistPolygons
  <2>3. ASSUME NEW r, AugmentRegion(r) PROVE QueueTypeOK'
    BY <1>2, <2>3 DEF AugmentRegion
  <2>4. CASE PersistLinks \/ WriteManifestEntry \/ WriteSidecars \/ WriteAugmentationEntry
    BY <1>2, <2>4 DEF PersistLinks, WriteManifestEntry, WriteSidecars, WriteAugmentationEntry, mem
  <2>. QED BY <1>7, <2>1, <2>2, <2>3, <2>4 DEF Process
<1>8. CASE Deliver
  <2>1. failed + 1 \in 1..Len(queue)
    BY <1>1, <1>8 DEF Deliver, WorkerHas
  <2>2. NextJob \in Job
    BY <1>1, <2>1, QueueFacts DEF NextJob
  <2>3. hub' = Committed(NextJob) /\ queue' = RemoveAt(queue, failed + 1) /\ failed' = failed
    BY <1>8 DEF Deliver, mem
  <2>4. queue' \in Seq(Job) /\ Len(queue') = Len(queue) - 1
    BY <1>1, <2>1, <2>3, QueueFacts
  <2>. QED BY <1>1, <2>1, <2>2, <2>3, <2>4, CommittedFacts DEF QueueTypeOK
<1>9. ASSUME NEW committed \in BOOLEAN, DeliverFails(committed) PROVE QueueTypeOK'
  <2>1. failed + 1 \in 1..Len(queue)
    BY <1>1, <1>9 DEF DeliverFails, WorkerHas
  <2>2. NextJob \in Job
    BY <1>1, <2>1, QueueFacts DEF NextJob
  <2>3. (hub' = Committed(NextJob) \/ hub' = hub) /\ queue' = queue /\ failed' = failed + 1
    BY <1>9 DEF DeliverFails
  <2>. QED BY <1>1, <2>1, <2>2, <2>3, CommittedFacts DEF QueueTypeOK
<1>10. CASE Finish
  BY <1>2, <1>10 DEF Finish
<1>11. ASSUME NEW torn \in BOOLEAN, Kill(torn) PROVE QueueTypeOK'
  BY <1>2, <1>11 DEF Kill
<1>. QED BY <1>3, <1>4, <1>5, <1>6, <1>7, <1>8, <1>9, <1>10, <1>11 DEF Next

\* The step of the run, what it staged and where it is keep their shape.
LEMMA RunTypeStep ==
    ASSUME IInv, Next PROVE RunTypeOK'
<1>0. TypeOK /\ RunTypeOK /\ TablesInv /\ retired \subseteq ChildSet
  BY TypeParts DEF IInv, DiskTypeOK
<1>. DEFINE Place == (1..Len(Contracts)) \X (1..Len(Children) + 1)
<1>1. /\ at \in Place /\ staged \in Maybe(Tables) /\ present \subseteq ChildSet
      /\ region \in Regions
      /\ push \in BOOLEAN /\ clean \in BOOLEAN
      /\ clock \in 0..MaxEdits /\ runs \in 0..MaxRuns /\ kills \in 0..MaxKills
  BY <1>0 DEF RunTypeOK
<1>2. at[1] \in 1..3 /\ at[2] \in 1..Len(Children) + 1 /\ at = <<at[1], at[2]>>
  BY <1>1, ContractFacts
<1>3. \A i \in 1..3, n \in 1..Len(Children) + 1 : <<i, n>> \in Place
  BY ContractFacts
<1>4. 1 \in 1..3 /\ 1 \in 1..Len(Children) + 1
  BY Constants
<1>5. <<1, 1>> \in Place
  BY <1>3, <1>4
<1>. HIDE DEF Place
<1>6. ASSUME pc' \in Steps, region' \in Regions, at' \in Place, staged' \in Maybe(Tables), present' \subseteq ChildSet,
             push' \in BOOLEAN, clean' \in BOOLEAN, clock' \in 0..MaxEdits, runs' \in 0..MaxRuns,
             kills' \in 0..MaxKills
      PROVE  RunTypeOK'
  BY <1>6 DEF RunTypeOK, Place
<1>7. pc \in Steps
  BY <1>0 DEF RunTypeOK
<1>8. ASSUME NEW p \in BOOLEAN, Begin(p) PROVE RunTypeOK'
  <2>1. runs' \in 0..MaxRuns
    BY <1>1, <1>8, Constants DEF Begin
  <2>. QED BY <2>1, <1>1, <1>6, <1>8 DEF Begin, Steps
<1>9. CASE \/ SkipRule \/ UpdateProcessedManifest \/ UpdateAugmentationManifest \/ RemoveFile
           \/ EnqueueRetirement \/ PersistLinks \/ WriteManifestEntry \/ WriteSidecars
           \/ WriteAugmentationEntry
  <2>1. pc' \in Steps /\ UNCHANGED mem /\ UNCHANGED <<clock, runs, kills>>
    BY <1>7, <1>9 DEF SkipRule, UpdateProcessedManifest, UpdateAugmentationManifest, RemoveFile,
                      EnqueueRetirement, PersistLinks, WriteManifestEntry, WriteSidecars,
                      WriteAugmentationEntry, Steps
  <2>. QED BY <2>1, <1>1, <1>6 DEF mem
<1>10. CASE StageRule
  <2>1. StagedTables(Pending) \in Tables
    BY <1>0, <1>10, PendingMergeable, StagedFacts DEF StageRule
  <2>2. staged' \in Maybe(Tables)
    BY <2>1, <1>10, MaybeFacts DEF StageRule
  <2>. QED BY <2>2, <1>1, <1>5, <1>6, <1>10 DEF StageRule, Steps
<1>21. CASE StageRaises \/ PlanRaises
  BY <1>1, <1>6, <1>21 DEF StageRaises, PlanRaises, Steps
<1>11. CASE CopyOnce
  <2>1. Len(Inputs) = Len(Pending) + 1
    BY PendingFacts DEF Inputs
  <2>2. at' = at \/ (at[2] < Len(Inputs) /\ at' = <<at[1], at[2] + 1>>)
    BY <1>11 DEF CopyOnce
  <2>3. at[2] < Len(Inputs) => at[2] + 1 \in 1..Len(Children) + 1
    BY <2>1, <1>2, PendingFacts, Constants
  <2>4. at' \in Place
    BY <2>2, <2>3, <1>1, <1>2, <1>3
  <2>5. pc' \in Steps /\ UNCHANGED <<push, region, staged, present, clean, clock, runs, kills>>
    BY <1>7, <1>11 DEF CopyOnce, Steps
  <2>. QED BY <2>4, <2>5, <1>1, <1>6
<1>12. CASE InstallFile
  <2>1. at' = at \/ (at[1] < 3 /\ at' = <<at[1] + 1, 1>>)
    BY <1>12, ContractFacts DEF InstallFile
  <2>2. at[1] < 3 => at[1] + 1 \in 1..3
    BY <1>2
  <2>3. at' \in Place
    BY <2>1, <2>2, <1>1, <1>3, <1>4
  <2>4. pc' \in Steps /\ UNCHANGED <<push, region, staged, present, clean, clock, runs, kills>>
    BY <1>12 DEF InstallFile, Steps
  <2>. QED BY <2>3, <2>4, <1>1, <1>6
<1>13. CASE PersistPreparedRule
  <2>1. present' \subseteq ChildSet
    BY <1>13, PendingFacts DEF PersistPreparedRule
  <2>. QED BY <2>1, <1>1, <1>6, <1>13 DEF PersistPreparedRule, Steps
<1>14. CASE Removed
  BY <1>1, <1>6, <1>14, MaybeFacts DEF Removed, Steps
<1>15. CASE FetchInventory
  <2>1. present' \subseteq ChildSet /\ clean' \in BOOLEAN
    BY <1>0, <1>15 DEF FetchInventory, RemotePresent
  <2>. QED BY <2>1, <1>1, <1>6, <1>15 DEF FetchInventory, Steps
<1>16. CASE Process
  <2>1. ASSUME NEW r \in Regions, NEW ks \in (SUBSET Keys) \ {{}}, NEW s \in BOOLEAN,
               PersistPolygons(r, ks, s)
        PROVE  RunTypeOK'
    <3>1. clock' \in 0..MaxEdits
      BY <1>1, <2>1, Constants DEF PersistPolygons
    <3>2. PICK tables \in Tables : Persisted(r, ks, tables)
      BY <2>1, ProcessSteps
    <3>3. staged' \in Maybe(Tables)
      BY <3>2, MaybeFacts DEF Persisted
    <3>. QED BY <3>1, <3>3, <2>1, <1>1, <1>6 DEF PersistPolygons, Steps
  <2>2. ASSUME NEW r \in Regions, AugmentRegion(r) PROVE RunTypeOK'
    BY <2>2, <1>1, <1>6 DEF AugmentRegion, Steps
  <2>3. CASE PublishRegion
    BY <2>3, <1>1, <1>6, MaybeFacts, Constants DEF PublishRegion, Steps
  <2>. QED BY <1>9, <1>16, <2>1, <2>2, <2>3 DEF Process
<1>17. CASE Deliver
  <2>1. UNCHANGED mem /\ UNCHANGED <<pc, clock, runs, kills>>
    BY <1>17 DEF Deliver
  <2>. QED BY <2>1, <1>1, <1>6, <1>7 DEF mem
<1>18. ASSUME NEW committed \in BOOLEAN, DeliverFails(committed) PROVE RunTypeOK'
  <2>1. UNCHANGED <<pc, push, region, staged, at, present, clean, clock, runs, kills>>
    BY <1>18 DEF DeliverFails
  <2>. QED BY <2>1, <1>1, <1>6, <1>7
<1>19. CASE Finish
  <2>1. clean' \in BOOLEAN
    BY <1>19 DEF Finish
  <2>. QED BY <2>1, <1>1, <1>6, <1>19 DEF Finish, Steps
<1>20. ASSUME NEW torn \in BOOLEAN, Kill(torn) PROVE RunTypeOK'
  <2>1. kills' \in 0..MaxKills
    BY <1>1, <1>20, Constants DEF Kill
  <2>. QED BY <2>1, <1>1, <1>5, <1>6, <1>20, MaybeFacts, Constants DEF Kill, Steps
<1>. QED BY <1>8, <1>9, <1>10, <1>11, <1>12, <1>13, <1>14, <1>15, <1>16, <1>17, <1>18, <1>19, <1>20,
            <1>21 DEF Next, Prepare

------------------------------------------------------------------------------
(* The rule and the tables *)

\* A rule is retired as a whole.
LEMMA RuleStep ==
    ASSUME IInv, Next PROVE RuleInv'
<1>0. RuleInv /\ retired \subseteq ChildSet
  BY DEF IInv, TypeOK
<1>1. ASSUME UNCHANGED retired, ~Preparing', pc' # "remove" PROVE RuleInv'
  BY <1>0, <1>1 DEF RuleInv
<1>2. ASSUME UNCHANGED <<retired, staged>>, Preparing, Preparing', pc' # "remove" PROVE RuleInv'
  BY <1>0, <1>2 DEF RuleInv
<1>3. ASSUME NEW p \in BOOLEAN, Begin(p) PROVE RuleInv'
  BY <1>1, <1>3 DEF Begin, disk, Preparing
<1>4. CASE \/ SkipRule \/ StageRaises \/ Removed \/ FetchInventory \/ PlanRaises \/ EnqueueRetirement
           \/ Deliver \/ Finish
  BY <1>1, <1>4 DEF SkipRule, StageRaises, Removed, FetchInventory, PlanRaises, EnqueueRetirement,
                    Deliver, Finish, WorkerHas, Working, disk, Preparing
<1>5. CASE StageRule
  <2>1. Range(Pending) # {}
    <3>1. Len(Pending) # 0
      BY <1>5, PendingFacts DEF StageRule
    <3>. QED BY <3>1, PendingFacts
  <2>2. retired = {}
    BY <2>1, <1>0, PendingFacts DEF RuleInv
  <2>3. retired' = retired /\ pc' = "copy" /\ staged' # <<>>
    BY <1>5, MaybeFacts DEF StageRule, disk
  <2>. QED BY <2>2, <2>3 DEF RuleInv
<1>6. CASE CopyOnce \/ InstallFile \/ UpdateProcessedManifest \/ UpdateAugmentationManifest
  BY <1>2, <1>6 DEF CopyOnce, InstallFile, UpdateProcessedManifest, UpdateAugmentationManifest,
                    mem, Preparing
<1>7. CASE PersistPreparedRule
  <2>1. retired' = ChildSet
    BY <1>7, <1>0, PendingFacts DEF PersistPreparedRule
  <2>2. pc' = "remove" /\ staged' = staged /\ staged # <<>>
    BY <1>7, <1>0 DEF PersistPreparedRule, RuleInv, Preparing
  <2>. QED BY <2>1, <2>2 DEF RuleInv, Preparing
<1>8. CASE RemoveFile
  BY <1>0, <1>8 DEF RemoveFile, RuleInv, Preparing, mem
<1>9. CASE Process
  BY <1>1, <1>9 DEF Process, PersistPolygons, PersistLinks, WriteManifestEntry, AugmentRegion,
                    WriteSidecars, WriteAugmentationEntry, PublishRegion, disk, Preparing
<1>10. ASSUME NEW committed \in BOOLEAN, DeliverFails(committed) PROVE RuleInv'
  BY <1>1, <1>10 DEF DeliverFails, WorkerHas, Working, disk, Preparing
<1>11. ASSUME NEW torn \in BOOLEAN, Kill(torn) PROVE RuleInv'
  BY <1>1, <1>11 DEF Kill, Preparing
<1>. QED BY <1>3, <1>4, <1>5, <1>6, <1>7, <1>8, <1>9, <1>10, <1>11 DEF Next, Prepare

\* What the rule's own steps write: one table of the parent, or a removed table of a child.
LEMMA LiveSteps ==
    /\ InstallFile /\ IInv =>
           /\ \A c \in ChildSet : live'[c] = live[c]
           /\ \A d \in Subdirs : live'[Parent][d] =
                  IF d = Contracts[at[1]] THEN <<staged[1][d]>> ELSE live[Parent][d]
    /\ RemoveFile /\ IInv =>
           /\ live'[Parent] = live[Parent]
           /\ \A c \in ChildSet, d \in Subdirs : live'[c][d] = live[c][d] \/ live'[c][d] = <<>>
<1>1. ASSUME IInv PROVE /\ live \in [Regions -> [Subdirs -> Maybe(Rows)]] /\ at[1] \in 1..3
  BY <1>1, ContractFacts DEF IInv, TypeOK
<1>2. ASSUME InstallFile, IInv
      PROVE  /\ \A c \in ChildSet : live'[c] = live[c]
             /\ \A d \in Subdirs : live'[Parent][d] =
                    IF d = Contracts[at[1]] THEN <<staged[1][d]>> ELSE live[Parent][d]
  BY <1>1, <1>2, Constants DEF InstallFile
<1>3. ASSUME RemoveFile, IInv
      PROVE  /\ live'[Parent] = live[Parent]
             /\ \A c \in ChildSet, d \in Subdirs : live'[c][d] = live[c][d] \/ live'[c][d] = <<>>
  <2>1. PICK c \in ChildSet, d \in Subdirs : OneTable(c, d, <<>>)
    BY <1>3, RemoveStep
  <2>. QED BY <1>1, <1>3, <2>1, OneTableFacts, Constants
<1>. QED BY <1>2, <1>3

\* What a step that does not write the tables concerned leaves owed.
LEMMA OwedKept ==
    ASSUME IInv, NEW x \in Regions
    PROVE  /\ \/ StageRule \/ InstallFile \/ UpdateProcessedManifest \/ UpdateAugmentationManifest
              \/ PersistLinks \/ WriteManifestEntry \/ WriteAugmentationEntry \/ UNCHANGED owed
              => ("facts" \in owed[x] => "facts" \in owed'[x])
           /\ \/ StageRule \/ UpdateProcessedManifest \/ UpdateAugmentationManifest
              \/ PersistLinks \/ WriteManifestEntry \/ WriteAugmentationEntry \/ UNCHANGED owed
              => ("merge" \in owed[x] <=> "merge" \in owed'[x])
           /\ \/ StageRule \/ InstallFile \/ UpdateProcessedManifest \/ UpdateAugmentationManifest
              \/ WriteManifestEntry \/ WriteSidecars \/ WriteAugmentationEntry \/ UNCHANGED owed
              => ("links" \in owed[x] <=> "links" \in owed'[x])
           /\ \/ StageRule \/ PersistLinks \/ WriteSidecars \/ WriteAugmentationEntry \/ UNCHANGED owed
              => ("entry" \in owed[x] => "entry" \in owed'[x])
           /\ \/ StageRule \/ PersistLinks \/ WriteSidecars \/ WriteManifestEntry \/ UNCHANGED owed
              => ("hash" \in owed[x] => "hash" \in owed'[x])
           /\ \/ StageRule \/ InstallFile \/ UpdateProcessedManifest \/ UpdateAugmentationManifest
              => (x # Parent => owed'[x] = owed[x])
<1>0. /\ TypeOK /\ owed \in [Regions -> SUBSET Owable] /\ region \in Regions /\ Parent \in Regions
  BY Constants DEF IInv, TypeOK, Owable
<1>1. \A r \in Regions : \A what :
          owed' = [owed EXCEPT ![r] = what] => owed'[x] = IF x = r THEN what ELSE owed[x]
  BY <1>0
<1>2. StageRule => owed'[x] = owed[x] \/ (x = Parent /\ owed'[x] = owed[x] \cup {"facts"})
  BY <1>0, <1>1, OwedSteps
<1>3. InstallFile => \/ x # Parent /\ owed'[x] = owed[x]
                     \/ x = Parent /\ owed'[x] = owed[x] \cup {"merge"}
                     \/ x = Parent /\ owed'[x] = owed[x] \ {"merge"}
  <2>1. InstallFile => \/ owed' = [owed EXCEPT ![Parent] = owed[Parent] \ {"merge"}]
                       \/ owed' = [owed EXCEPT ![Parent] = owed[Parent] \cup {"merge"}]
    BY <1>0, OwedSteps
  <2>. QED BY <1>0, <1>1, <2>1
<1>4. /\ UpdateProcessedManifest =>
             (owed'[x] = owed[x] /\ x # Parent) \/ (x = Parent /\ owed'[x] = owed[x] \ {"entry"})
      /\ UpdateAugmentationManifest =>
             (owed'[x] = owed[x] /\ x # Parent) \/ (x = Parent /\ owed'[x] = owed[x] \ {"hash"})
  BY <1>0, <1>1, OwedSteps
<1>5. /\ PersistLinks => owed'[x] = owed[x] \/ owed'[x] = owed[x] \ {"links"}
      /\ WriteManifestEntry => owed'[x] = owed[x] \/ owed'[x] = owed[x] \ {"entry"}
      /\ WriteSidecars => owed'[x] = owed[x] \/ owed'[x] = owed[x] \ {"facts", "merge"}
      /\ WriteAugmentationEntry => owed'[x] = owed[x] \/ owed'[x] = owed[x] \ {"hash"}
  BY <1>0, <1>1, OwedSteps
<1>6. UNCHANGED owed => owed'[x] = owed[x]
  OBVIOUS
<1>. QED BY <1>2, <1>3, <1>4, <1>5, <1>6

\* The parent keeps its files and entries, and every region the rows of its own.
LEMMA TablesStep ==
    ASSUME IInv, Next PROVE TablesInv'
<1>0. /\ TypeOK /\ DiskTypeOK /\ RunTypeOK /\ RuleInv /\ TablesInv
      /\ live \in [Regions -> [Subdirs -> Maybe(Rows)]] /\ region \in Regions
      /\ "polygons" \in Subdirs /\ "polygon_articles" \in Subdirs /\ "facts" \in Subdirs
      /\ "polygon_articles" # "polygons" /\ "facts" \notin {"polygons", "polygon_articles"}
      /\ Parent \in Regions /\ Parent \notin ChildSet /\ ChildSet \subseteq Regions
  BY TypeParts, ContractFacts, Constants DEF IInv, DiskTypeOK, RunTypeOK
<1>2. /\ \A d \in Subdirs : live[Parent][d] # <<>>
      /\ processed[Parent] # <<>> /\ core[Parent] # <<>>
      /\ \A d \in {"polygons", "polygon_articles"} : \A k \in DOMAIN live[Parent][d][1] :
             live[Parent][d][1][k].of = Parent
      /\ \A c \in ChildSet :
             "links" \notin owed[c] /\ live[c]["polygons"] # <<>> /\ live[c]["polygon_articles"] # <<>> =>
                 DOMAIN live[c]["polygon_articles"][1] \subseteq DOMAIN live[c]["polygons"][1]
  BY <1>0, ContractFacts DEF TablesInv, HasFiles, TablesOf, OwnedByParent
<1>3. ASSUME \A d \in Subdirs : live'[Parent][d] # <<>>,
             processed'[Parent] # <<>>, core'[Parent] # <<>>,
             \A d \in {"polygons", "polygon_articles"} : \A k \in DOMAIN live'[Parent][d][1] :
                 live'[Parent][d][1][k].of = Parent,
             \A c \in ChildSet :
                 "links" \notin owed'[c] /\ live'[c]["polygons"] # <<>> /\ live'[c]["polygon_articles"] # <<>> =>
                     DOMAIN live'[c]["polygon_articles"][1] \subseteq DOMAIN live'[c]["polygons"][1]
      PROVE  TablesInv'
  BY <1>3, ContractFacts DEF TablesInv, HasFiles, TablesOf, OwnedByParent
<1>1. ASSUME UNCHANGED <<live, processed, core>>,
             \A c \in ChildSet : "links" \in owed[c] <=> "links" \in owed'[c]
      PROVE  TablesInv'
  BY <1>1, <1>2, <1>3
<1>4. ASSUME NEW p \in BOOLEAN, Begin(p) PROVE TablesInv'
  BY <1>1, <1>4 DEF Begin, disk
<1>5. CASE \/ SkipRule \/ StageRaises \/ CopyOnce \/ PersistPreparedRule \/ Removed
           \/ FetchInventory \/ PlanRaises \/ EnqueueRetirement \/ Deliver \/ Finish
           \/ PublishRegion \/ \E r \in Regions : AugmentRegion(r)
  BY <1>1, <1>5 DEF SkipRule, StageRaises, CopyOnce, PersistPreparedRule, Removed, FetchInventory,
                    PlanRaises, EnqueueRetirement, Deliver, Finish, PublishRegion, AugmentRegion, disk
<1>12. CASE StageRule
  <2>1. \A c \in ChildSet : "links" \in owed[c] <=> "links" \in owed'[c]
    BY <1>0, <1>12, OwedKept
  <2>. QED BY <1>1, <1>12, <2>1 DEF StageRule
<1>6. CASE InstallFile
  <2>1. /\ OwnedByParent(staged[1])
        /\ UNCHANGED <<processed, core>>
    BY <1>6 DEF IInv, StagedInv, Preparing, InstallFile
  <2>2. /\ \A c \in ChildSet : live'[c] = live[c]
        /\ \A d \in Subdirs : live'[Parent][d] = <<staged[1][d]>> \/ live'[Parent][d] = live[Parent][d]
    BY <1>6, LiveSteps
  <2>3. \A d \in Subdirs : live'[Parent][d] # <<>>
    BY <2>2, <1>2, MaybeFacts
  <2>4. \A d \in {"polygons", "polygon_articles"} : \A k \in DOMAIN live'[Parent][d][1] :
            live'[Parent][d][1][k].of = Parent
    <3>. SUFFICES ASSUME NEW d \in {"polygons", "polygon_articles"}, NEW k \in DOMAIN live'[Parent][d][1]
                  PROVE  live'[Parent][d][1][k].of = Parent
      OBVIOUS
    <3>1. CASE live'[Parent][d] = <<staged[1][d]>>
      <4>1. live'[Parent][d][1] = staged[1][d]
        BY <3>1
      <4>. QED BY <4>1, <2>1 DEF OwnedByParent
    <3>2. CASE live'[Parent][d] = live[Parent][d]
      BY <3>2, <1>2
    <3>. QED BY <3>1, <3>2, <2>2, ContractFacts
  <2>5. \A c \in ChildSet : "links" \in owed[c] <=> "links" \in owed'[c]
    BY <1>0, <1>6, OwedKept
  <2>. QED BY <1>2, <1>3, <2>1, <2>2, <2>3, <2>4, <2>5
<1>7. CASE UpdateProcessedManifest \/ UpdateAugmentationManifest
  <2>1. Parent \notin Range(Pending) /\ Parent \in Regions
    BY PendingFacts, Constants
  <2>2. processed'[Parent] # <<>> /\ core'[Parent] # <<>> /\ live' = live
    BY <1>2, <1>7, <2>1, MaybeFacts DEF UpdateProcessedManifest, UpdateAugmentationManifest
  <2>3. \A c \in ChildSet : "links" \in owed[c] <=> "links" \in owed'[c]
    BY <1>0, <1>7, OwedKept
  <2>. QED BY <1>2, <1>3, <2>2, <2>3
<1>8. CASE RemoveFile
  <2>1. /\ live'[Parent] = live[Parent]
        /\ \A c \in ChildSet, d \in Subdirs : live'[c][d] = live[c][d] \/ live'[c][d] = <<>>
    BY <1>8, LiveSteps
  <2>2. UNCHANGED <<processed, core, owed>>
    BY <1>8 DEF RemoveFile
  <2>4. \A c \in ChildSet :
            "links" \notin owed'[c] /\ live'[c]["polygons"] # <<>> /\ live'[c]["polygon_articles"] # <<>> =>
                DOMAIN live'[c]["polygon_articles"][1] \subseteq DOMAIN live'[c]["polygons"][1]
    BY <2>1, <2>2, <1>0, <1>2
  <2>. QED BY <1>2, <1>3, <2>1, <2>2, <2>4
<1>9. CASE Process
  <2>1. ASSUME NEW r \in Regions, NEW ks \in (SUBSET Keys) \ {{}}, NEW s \in BOOLEAN,
               PersistPolygons(r, ks, s)
        PROVE  TablesInv'
    <3>1. PICK tables \in Tables : Persisted(r, ks, tables)
      BY <2>1, ProcessSteps
    <3>2. OneTable(r, "polygons", <<tables["polygons"]>>)
      BY <3>1 DEF Persisted
    <3>3. /\ DOMAIN tables["polygons"] = ks
          /\ \A k \in DOMAIN tables["polygons"] : tables["polygons"][k].of = r
      BY <3>1, <1>0 DEF Persisted
    <3>4. PICK file : file = <<tables["polygons"]>> /\ file # <<>> /\ file[1] = tables["polygons"]
      BY MaybeFacts, Zenon
    <3>5. \A x \in Regions, e \in Subdirs :
              live'[x][e] = IF x = r /\ e = "polygons" THEN file ELSE live[x][e]
      BY <1>0, <3>2, <3>4, OneTableFacts
    <3>6. UNCHANGED <<processed, core>>
      BY <2>1 DEF PersistPolygons
    <3>7. owed' = [owed EXCEPT ![r] = {"links", "entry", "facts", "hash"}]
      BY <2>1, <1>0, OwedSteps
    <3>8. \A x \in Regions : IF x = r THEN "links" \in owed'[x] ELSE owed'[x] = owed[x]
      BY <3>7, <1>0 DEF DiskTypeOK
    <3>9. /\ \A d \in Subdirs : live'[Parent][d] # <<>>
          /\ \A d \in {"polygons", "polygon_articles"} : \A k \in DOMAIN live'[Parent][d][1] :
                 live'[Parent][d][1][k].of = Parent
      <4>1. \A d \in Subdirs : live'[Parent][d] # <<>>
        BY <3>4, <3>5, <1>0, <1>2
      <4>2. ASSUME NEW d \in {"polygons", "polygon_articles"}, NEW k \in DOMAIN live'[Parent][d][1]
            PROVE  live'[Parent][d][1][k].of = Parent
        <5>1. CASE r = Parent /\ d = "polygons"
          BY <5>1, <3>3, <3>4, <3>5, <1>0
        <5>2. CASE ~ (r = Parent /\ d = "polygons")
          BY <5>2, <3>5, <1>0, <1>2
        <5>. QED BY <5>1, <5>2
      <4>. QED BY <4>1, <4>2
    <3>10. ASSUME NEW c \in ChildSet, "links" \notin owed'[c], live'[c]["polygons"] # <<>>,
                 live'[c]["polygon_articles"] # <<>>
          PROVE  DOMAIN live'[c]["polygon_articles"][1] \subseteq DOMAIN live'[c]["polygons"][1]
      <4>1. c # r /\ c \in Regions
        BY <3>8, <3>10, <1>0
      <4>. QED BY <4>1, <3>5, <3>8, <3>10, <1>0, <1>2
    <3>. QED BY <1>2, <1>3, <3>6, <3>9, <3>10
  <2>2. CASE PersistLinks
    <3>1. PICK r \in Regions : r = region
      BY <1>0
    <3>2. PICK rows : rows = staged[1]["polygon_articles"]
      OBVIOUS
    <3>3. PICK file : file = <<rows>> /\ file # <<>> /\ file[1] = rows
      BY MaybeFacts, Zenon
    <3>4. \A x \in Regions, e \in Subdirs :
              live'[x][e] = IF x = r /\ e = "polygon_articles" THEN file ELSE live[x][e]
      <4>1. OneTable(r, "polygon_articles", file)
        BY <2>2, <3>1, <3>2, <3>3, ProcessSteps
      <4>. QED BY <4>1, <1>0, OneTableFacts
    <3>5. /\ DOMAIN rows = DOMAIN live[r]["polygons"][1]
          /\ \A k \in DOMAIN rows : rows[k].of = r
      <4>1. /\ live[region]["polygons"] = <<staged[1]["polygons"]>>
            /\ DOMAIN staged[1]["polygon_articles"] = DOMAIN staged[1]["polygons"]
            /\ \A k \in DOMAIN staged[1]["polygon_articles"] :
                   staged[1]["polygon_articles"][k].of = region
        BY <2>2 DEF PersistLinks, IInv, WorkInv
      <4>2. live[region]["polygons"][1] = staged[1]["polygons"]
        BY <4>1
      <4>. QED BY <4>1, <4>2, <3>1, <3>2
    <3>6. UNCHANGED <<processed, core>>
      BY <2>2 DEF PersistLinks
    <3>7. \A x \in Regions : x # r => owed'[x] = owed[x]
      <4>1. owed' = [owed EXCEPT ![region] = owed[region] \ {"links"}]
        BY <2>2, <1>0, OwedSteps
      <4>. QED BY <4>1, <3>1, <1>0 DEF DiskTypeOK
    <3>8. \A d \in Subdirs : live'[Parent][d] # <<>>
      BY <3>3, <3>4, <1>0, <1>2
    <3>9. ASSUME NEW d \in {"polygons", "polygon_articles"}, NEW k \in DOMAIN live'[Parent][d][1]
          PROVE  live'[Parent][d][1][k].of = Parent
      <4>1. CASE r = Parent /\ d = "polygon_articles"
        BY <4>1, <3>3, <3>4, <3>5, <1>0
      <4>2. CASE ~ (r = Parent /\ d = "polygon_articles")
        BY <4>2, <3>4, <1>0, <1>2
      <4>. QED BY <4>1, <4>2
    <3>10. ASSUME NEW c \in ChildSet, "links" \notin owed'[c], live'[c]["polygons"] # <<>>,
                 live'[c]["polygon_articles"] # <<>>
          PROVE  DOMAIN live'[c]["polygon_articles"][1] \subseteq DOMAIN live'[c]["polygons"][1]
      <4>1. CASE c = r
        BY <4>1, <3>3, <3>4, <3>5, <1>0
      <4>2. CASE c # r
        BY <4>2, <3>4, <3>7, <3>10, <1>0, <1>2
      <4>. QED BY <4>1, <4>2
    <3>. QED BY <1>2, <1>3, <3>6, <3>8, <3>9, <3>10
  <2>3. CASE WriteManifestEntry \/ WriteAugmentationEntry
    <3>1. \A c \in ChildSet : "links" \in owed[c] <=> "links" \in owed'[c]
      BY <2>3, <1>0, OwedKept
    <3>2. live' = live
      BY <2>3 DEF WriteManifestEntry, WriteAugmentationEntry
    <3>3. processed'[Parent] # <<>>
      <4>1. CASE WriteManifestEntry
        <5>1. PICK entry : entry = <<ManifestStats(staged[1])>> /\ entry # <<>>
          BY MaybeFacts, Zenon
        <5>2. processed' = [processed EXCEPT ![region] = entry]
          BY <4>1, <5>1 DEF WriteManifestEntry
        <5>. QED BY <5>1, <5>2, <1>0, <1>2 DEF DiskTypeOK
      <4>2. CASE WriteAugmentationEntry
        BY <4>2, <1>2 DEF WriteAugmentationEntry
      <4>. QED BY <2>3, <4>1, <4>2
    <3>4. core'[Parent] # <<>>
      <4>1. CASE WriteManifestEntry
        BY <4>1, <1>2 DEF WriteManifestEntry
      <4>2. CASE WriteAugmentationEntry
        <5>1. core' = [core EXCEPT ![region] = live[region]["polygons"]]
          BY <4>2 DEF WriteAugmentationEntry
        <5>. QED BY <5>1, <1>0, <1>2 DEF DiskTypeOK
      <4>. QED BY <2>3, <4>1, <4>2
    <3>. QED BY <1>2, <1>3, <3>1, <3>2, <3>3, <3>4
  <2>4. CASE WriteSidecars
    <3>1. \A c \in ChildSet : "links" \in owed[c] <=> "links" \in owed'[c]
      BY <2>4, <1>0, OwedKept
    <3>2. UNCHANGED <<processed, core>>
      BY <2>4 DEF WriteSidecars
    <3>3. PICK rows \in Rows : OneTable(region, "facts", <<rows>>)
      BY <2>4, ProcessSteps
    <3>4. PICK file : file = <<rows>> /\ file # <<>>
      BY MaybeFacts, Zenon
    <3>5. \A x \in Regions, e \in Subdirs :
              live'[x][e] = IF x = region /\ e = "facts" THEN file ELSE live[x][e]
      BY <1>0, <3>3, <3>4, OneTableFacts
    <3>6. \A d \in Subdirs : live'[Parent][d] # <<>>
      BY <3>4, <3>5, <1>0, <1>2
    <3>7. \A x \in Regions : /\ live'[x]["polygons"] = live[x]["polygons"]
                             /\ live'[x]["polygon_articles"] = live[x]["polygon_articles"]
      BY <3>5, <1>0
    <3>. QED BY <1>0, <1>2, <1>3, <3>1, <3>2, <3>6, <3>7
  <2>. QED BY <1>5, <1>9, <2>1, <2>2, <2>3, <2>4 DEF Process
<1>10. ASSUME NEW committed \in BOOLEAN, DeliverFails(committed) PROVE TablesInv'
  BY <1>1, <1>10 DEF DeliverFails, disk
<1>11. ASSUME NEW torn \in BOOLEAN, Kill(torn) PROVE TablesInv'
  BY <1>1, <1>11 DEF Kill
<1>. QED BY <1>4, <1>5, <1>6, <1>7, <1>8, <1>9, <1>10, <1>11, <1>12 DEF Next, Prepare

\* A step of those that leave tables and what is owed alone.
LEMMA QuietSteps ==
    ASSUME \/ \E p \in BOOLEAN : Begin(p)
           \/ SkipRule \/ StageRaises \/ CopyOnce \/ PersistPreparedRule \/ Removed
           \/ FetchInventory \/ PlanRaises \/ EnqueueRetirement \/ Deliver \/ Finish
           \/ PublishRegion \/ \E r \in Regions : AugmentRegion(r)
           \/ \E committed \in BOOLEAN : DeliverFails(committed)
           \/ \E torn \in BOOLEAN : Kill(torn)
    PROVE  UNCHANGED <<live, processed, core, owed>>
  BY DEF Begin, SkipRule, StageRaises, CopyOnce, PersistPreparedRule, Removed, FetchInventory,
         PlanRaises, EnqueueRetirement, Deliver, Finish, PublishRegion, AugmentRegion, DeliverFails,
         Kill, disk

\* Polygons without their facts are owed them.
LEMMA FactsStep ==
    ASSUME IInv, Next PROVE FactsInv'
<1>0. /\ TypeOK /\ FactsInv /\ StagedInv /\ InstalledInv
      /\ live \in [Regions -> [Subdirs -> Maybe(Rows)]] /\ region \in Regions
      /\ owed \in [Regions -> SUBSET Owable]
      /\ "polygons" \in Subdirs /\ "polygon_articles" \in Subdirs /\ "facts" \in Subdirs
      /\ "polygon_articles" # "polygons" /\ "facts" \notin {"polygons", "polygon_articles"}
      /\ Parent \in Regions /\ Parent \notin ChildSet /\ ChildSet \subseteq Regions
      /\ Regions = {Parent} \cup ChildSet
  BY TypeParts, ContractFacts, Constants DEF IInv, DiskTypeOK, RunTypeOK, Regions
<1>1. ASSUME NEW r \in Regions,
             live'[r]["polygons"] = live[r]["polygons"], live'[r]["facts"] = live[r]["facts"],
             "facts" \in owed[r] => "facts" \in owed'[r],
             "merge" \in owed[r] => "merge" \in owed'[r],
             live'[r]["polygons"] # <<>>, live'[r]["facts"] # <<>>, "facts" \notin owed'[r],
             r = Parent => "merge" \notin owed'[r]
      PROVE  DOMAIN live'[r]["polygons"][1] \subseteq DOMAIN live'[r]["facts"][1]
  BY <1>0, <1>1 DEF FactsInv
<1>2. ASSUME \A r \in Regions :
                 /\ live'[r]["polygons"] = live[r]["polygons"] /\ live'[r]["facts"] = live[r]["facts"]
                 /\ "facts" \in owed[r] => "facts" \in owed'[r]
                 /\ "merge" \in owed[r] => "merge" \in owed'[r]
      PROVE  FactsInv'
  BY <1>1, <1>2 DEF FactsInv
<1>3. CASE UNCHANGED <<live, processed, core, owed>>
  BY <1>2, <1>3
<1>4. CASE \/ StageRule \/ UpdateProcessedManifest \/ UpdateAugmentationManifest
           \/ WriteManifestEntry \/ WriteAugmentationEntry
  <2>1. live' = live
    BY <1>4 DEF StageRule, UpdateProcessedManifest, UpdateAugmentationManifest, WriteManifestEntry,
                WriteAugmentationEntry
  <2>2. \A r \in Regions : /\ "facts" \in owed[r] => "facts" \in owed'[r]
                           /\ "merge" \in owed[r] => "merge" \in owed'[r]
    BY <1>4, OwedKept
  <2>. QED BY <1>2, <2>1, <2>2
<1>5. CASE PersistLinks
  <2>1. PICK file : OneTable(region, "polygon_articles", file)
    BY <1>5, ProcessSteps
  <2>2. \A x \in Regions, e \in Subdirs :
            live'[x][e] = IF x = region /\ e = "polygon_articles" THEN file ELSE live[x][e]
    BY <1>0, <2>1, OneTableFacts
  <2>3. \A r \in Regions : /\ "facts" \in owed[r] => "facts" \in owed'[r]
                           /\ "merge" \in owed[r] => "merge" \in owed'[r]
    BY <1>5, OwedKept
  <2>. QED BY <1>0, <1>2, <2>2, <2>3
<1>6. CASE InstallFile
  <2>1. /\ \A c \in ChildSet : live'[c] = live[c]
        /\ \A d \in Subdirs : live'[Parent][d] =
               IF d = Contracts[at[1]] THEN <<staged[1][d]>> ELSE live[Parent][d]
    BY <1>6, LiveSteps
  <2>2. \A c \in ChildSet : owed'[c] = owed[c]
    BY <1>0, <1>6, OwedKept
  <2>3. owed' = [owed EXCEPT ![Parent] = IF at[1] = 3 THEN owed[Parent] \ {"merge"}
                                         ELSE owed[Parent] \cup {"merge"}]
    BY <1>0, <1>6, OwedSteps
  <2>4. ASSUME "merge" \notin owed'[Parent], "facts" \notin owed'[Parent]
        PROVE  DOMAIN live'[Parent]["polygons"][1] \subseteq DOMAIN live'[Parent]["facts"][1]
    <3>1. at[1] = 3 /\ owed'[Parent] = owed[Parent] \ {"merge"}
      BY <2>3, <2>4, <1>0
    <3>2. FactsOf(staged[1])
      BY <1>0, <1>6, <2>4, <3>1 DEF StagedInv, InstallFile, Preparing
    <3>3. live[Parent]["polygons"] = <<staged[1]["polygons"]>>
      BY <1>0, <1>6, <3>1, ContractFacts DEF InstalledInv, InstallFile
    <3>4. /\ live'[Parent]["polygons"] = <<staged[1]["polygons"]>>
          /\ live'[Parent]["facts"] = <<staged[1]["facts"]>>
      BY <1>0, <2>1, <3>1, <3>3, ContractFacts
    <3>5. /\ live'[Parent]["polygons"][1] = staged[1]["polygons"]
          /\ live'[Parent]["facts"][1] = staged[1]["facts"]
      BY <3>4, MaybeFacts
    <3>. QED BY <3>2, <3>5 DEF FactsOf
  <2>5. ASSUME NEW r \in Regions, live'[r]["polygons"] # <<>>, live'[r]["facts"] # <<>>,
               "facts" \notin owed'[r], r = Parent => "merge" \notin owed'[r]
        PROVE  DOMAIN live'[r]["polygons"][1] \subseteq DOMAIN live'[r]["facts"][1]
    <3>1. CASE r = Parent
      BY <2>4, <2>5, <3>1
    <3>2. CASE r \in ChildSet
      BY <1>1, <2>1, <2>2, <2>5, <3>2
    <3>. QED BY <1>0, <3>1, <3>2
  <2>. QED BY <2>5 DEF FactsInv
<1>7. CASE RemoveFile
  <2>1. /\ live'[Parent] = live[Parent] /\ UNCHANGED owed
        /\ \A c \in ChildSet, d \in Subdirs : live'[c][d] = live[c][d] \/ live'[c][d] = <<>>
    BY <1>7, LiveSteps DEF RemoveFile
  <2>2. ASSUME NEW r \in Regions, live'[r]["polygons"] # <<>>, live'[r]["facts"] # <<>>,
               "facts" \notin owed'[r], r = Parent => "merge" \notin owed'[r]
        PROVE  DOMAIN live'[r]["polygons"][1] \subseteq DOMAIN live'[r]["facts"][1]
    <3>1. live'[r]["polygons"] = live[r]["polygons"] /\ live'[r]["facts"] = live[r]["facts"]
      BY <1>0, <2>1, <2>2
    <3>. QED BY <1>1, <2>1, <2>2, <3>1
  <2>. QED BY <2>2 DEF FactsInv
<1>8. ASSUME NEW q \in Regions, NEW ks \in (SUBSET Keys) \ {{}}, NEW s \in BOOLEAN,
             PersistPolygons(q, ks, s)
      PROVE  FactsInv'
  <2>1. PICK tables \in Tables : Persisted(q, ks, tables)
    BY <1>8, ProcessSteps
  <2>2. PICK file : OneTable(q, "polygons", file)
    BY <2>1 DEF Persisted
  <2>3. \A x \in Regions : x # q => live'[x] = live[x]
    BY <1>0, <2>2, OneTableFacts
  <2>4. owed' = [owed EXCEPT ![q] = {"links", "entry", "facts", "hash"}]
    BY <1>0, <1>8, OwedSteps
  <2>5. \A x \in Regions : IF x = q THEN "facts" \in owed'[x] ELSE owed'[x] = owed[x]
    BY <1>0, <2>4
  <2>. QED BY <1>1, <2>3, <2>5 DEF FactsInv
<1>9. CASE WriteSidecars
  <2>1. PICK rows \in Rows : /\ OneTable(region, "facts", <<rows>>)
                             /\ DOMAIN rows = DOMAIN live[region]["polygons"][1]
    BY <1>9, ProcessSteps
  <2>2. PICK q \in Regions : q = region
    BY <1>0
  <2>3. PICK file : file = <<rows>> /\ file[1] = rows
    BY MaybeFacts, Zenon
  <2>4. \A x \in Regions, e \in Subdirs :
            live'[x][e] = IF x = q /\ e = "facts" THEN file ELSE live[x][e]
    BY <1>0, <2>1, <2>2, <2>3, OneTableFacts
  <2>5. owed' = [owed EXCEPT ![q] = owed[q] \ {"facts", "merge"}]
    BY <1>0, <1>9, <2>2, OwedSteps
  <2>6. \A x \in Regions : x # q => owed'[x] = owed[x]
    BY <1>0, <2>5
  <2>7. ASSUME NEW r \in Regions, live'[r]["polygons"] # <<>>, live'[r]["facts"] # <<>>,
               "facts" \notin owed'[r], r = Parent => "merge" \notin owed'[r]
        PROVE  DOMAIN live'[r]["polygons"][1] \subseteq DOMAIN live'[r]["facts"][1]
    <3>1. CASE r = q
      <4>1. live'[r]["polygons"] = live[r]["polygons"] /\ live'[r]["facts"] = file
        BY <1>0, <2>4, <3>1
      <4>. QED BY <4>1, <3>1, <2>1, <2>2, <2>3
    <3>2. CASE r # q
      BY <1>0, <1>1, <2>4, <2>6, <2>7, <3>2
    <3>. QED BY <3>1, <3>2
  <2>. QED BY <2>7 DEF FactsInv
<1>. QED BY QuietSteps, <1>3, <1>4, <1>5, <1>6, <1>7, <1>8, <1>9 DEF Next, Prepare, Process

\* A merge is not recorded before its last table is installed.
LEMMA MergeStep ==
    ASSUME IInv, Next PROVE MergeInv'
<1>. DEFINE Recorded == pc \in {"processed", "augmented", "record", "remove"} \/ retired # {}
<1>0. /\ TypeOK /\ MergeInv /\ RuleInv /\ Parent \in Regions /\ region \in Regions
      /\ owed \in [Regions -> SUBSET Owable]
  BY TypeParts, Constants DEF IInv, DiskTypeOK, RunTypeOK
<1>1. ASSUME Recorded' => Recorded, "merge" \in owed'[Parent] => "merge" \in owed[Parent]
      PROVE  MergeInv'
  BY <1>0, <1>1 DEF MergeInv
<1>2. CASE \/ \E p \in BOOLEAN : Begin(p)
           \/ SkipRule \/ StageRaises \/ CopyOnce \/ PersistPreparedRule \/ Removed
           \/ FetchInventory \/ PlanRaises \/ EnqueueRetirement \/ Deliver \/ Finish
           \/ PublishRegion \/ \E r \in Regions : AugmentRegion(r)
           \/ \E committed \in BOOLEAN : DeliverFails(committed)
           \/ \E torn \in BOOLEAN : Kill(torn)
  <2>1. owed' = owed
    BY <1>2, QuietSteps
  <2>2. Recorded' => Recorded
    BY <1>2 DEF Begin, SkipRule, StageRaises, CopyOnce, PersistPreparedRule, Removed, FetchInventory,
                PlanRaises, EnqueueRetirement, Deliver, Finish, PublishRegion, AugmentRegion,
                DeliverFails, Kill, disk
  <2>. QED BY <1>1, <2>1, <2>2
<1>3. CASE \/ StageRule \/ UpdateProcessedManifest \/ UpdateAugmentationManifest
           \/ PersistLinks \/ WriteManifestEntry \/ WriteAugmentationEntry
  <2>1. Recorded' => Recorded
    BY <1>3 DEF StageRule, UpdateProcessedManifest, UpdateAugmentationManifest, PersistLinks,
                WriteManifestEntry, WriteAugmentationEntry
  <2>2. "merge" \in owed'[Parent] => "merge" \in owed[Parent]
    BY <1>0, <1>3, OwedKept
  <2>. QED BY <1>1, <2>1, <2>2
<1>4. CASE RemoveFile
  BY <1>0, <1>1, <1>4 DEF RemoveFile
<1>5. CASE InstallFile
  <2>1. owed' = [owed EXCEPT ![Parent] = IF at[1] = 3 THEN owed[Parent] \ {"merge"}
                                         ELSE owed[Parent] \cup {"merge"}]
    BY <1>0, <1>5, OwedSteps
  <2>2. CASE at[1] = 3
    BY <1>0, <2>1, <2>2 DEF MergeInv
  <2>3. CASE at[1] # 3
    <3>1. at[1] < 3
      <4>1. at[1] \in 1..3
        BY <1>0, ContractFacts DEF TypeOK
      <4>. QED BY <4>1, <2>3
    <3>2. pc' = "copy" /\ retired' = {}
      BY <1>0, <1>5, <3>1, ContractFacts DEF InstallFile, RuleInv, Preparing
    <3>. QED BY <3>2 DEF MergeInv
  <2>. QED BY <2>2, <2>3
<1>6. ASSUME NEW r \in Regions, NEW ks \in (SUBSET Keys) \ {{}}, NEW s \in BOOLEAN,
             PersistPolygons(r, ks, s)
      PROVE  MergeInv'
  <2>1. owed' = [owed EXCEPT ![r] = {"links", "entry", "facts", "hash"}]
    BY <1>0, <1>6, OwedSteps
  <2>2. Recorded' => Recorded
    BY <1>6 DEF PersistPolygons
  <2>. QED BY <1>0, <1>1, <2>1, <2>2
<1>7. CASE WriteSidecars
  <2>1. owed' = [owed EXCEPT ![region] = owed[region] \ {"facts", "merge"}]
    BY <1>0, <1>7, OwedSteps
  <2>2. Recorded' => Recorded
    BY <1>7 DEF WriteSidecars
  <2>. QED BY <1>0, <1>1, <2>1, <2>2
<1>. QED BY <1>2, <1>3, <1>4, <1>5, <1>6, <1>7 DEF Next, Prepare, Process

\* The region at hand stays active, and its polygons are the ones that were extracted.
LEMMA WorkStep ==
    ASSUME IInv, Next PROVE WorkInv'
<1>0. /\ TypeOK /\ WorkInv /\ region \in Regions
      /\ live \in [Regions -> [Subdirs -> Maybe(Rows)]]
      /\ "polygons" \in Subdirs /\ "polygon_articles" \in Subdirs /\ "facts" \in Subdirs
      /\ "polygon_articles" # "polygons" /\ "facts" # "polygons"
  BY TypeParts, ContractFacts DEF IInv, DiskTypeOK, RunTypeOK
<1>1. ASSUME ~Working' PROVE WorkInv'
  BY <1>1 DEF WorkInv, Working
<1>2. ASSUME Working, UNCHANGED <<retired, region, staged>>,
             live'[region]["polygons"] = live[region]["polygons"],
             pc' \in {"links", "entry"} => pc \in {"links", "entry"}
      PROVE  WorkInv'
  BY <1>0, <1>2 DEF WorkInv
<1>3. CASE \/ \E p \in BOOLEAN : Begin(p)
           \/ Prepare \/ FetchInventory \/ PlanRaises \/ EnqueueRetirement \/ Finish
           \/ PublishRegion \/ \E torn \in BOOLEAN : Kill(torn)
  BY <1>1, <1>3 DEF Begin, Prepare, SkipRule, StageRule, StageRaises, CopyOnce, InstallFile,
                    UpdateProcessedManifest, UpdateAugmentationManifest, PersistPreparedRule,
                    RemoveFile, Removed, FetchInventory, PlanRaises, EnqueueRetirement, Finish,
                    PublishRegion, Kill, Working
<1>4. CASE Deliver \/ \E committed \in BOOLEAN : DeliverFails(committed)
  <2>1. UNCHANGED <<live, retired, region, staged, pc>>
    BY <1>4 DEF Deliver, DeliverFails, disk, mem
  <2>2. CASE Working
    BY <1>2, <2>1, <2>2
  <2>3. CASE ~Working
    BY <1>1, <2>1, <2>3 DEF Working
  <2>. QED BY <2>2, <2>3
<1>5. ASSUME NEW r \in Regions, NEW ks \in (SUBSET Keys) \ {{}}, NEW s \in BOOLEAN,
             PersistPolygons(r, ks, s)
      PROVE  WorkInv'
  <2>1. PICK tables \in Tables : Persisted(r, ks, tables)
    BY <1>5, ProcessSteps
  <2>2. /\ OneTable(r, "polygons", <<tables["polygons"]>>)
        /\ staged' = <<tables>> /\ region' = r /\ r \notin retired
        /\ DOMAIN tables["polygons"] = ks /\ DOMAIN tables["polygon_articles"] = ks
        /\ \A k \in ks : tables["polygon_articles"][k].of = r
    BY <1>0, <2>1 DEF Persisted
  <2>3. live'[r]["polygons"] = <<tables["polygons"]>>
    BY <1>0, <2>2, OneTableFacts
  <2>4. staged' # <<>> /\ staged'[1] = tables /\ live'[r]["polygons"] # <<>>
    BY <2>2, <2>3, MaybeFacts
  <2>5. retired' = retired
    BY <1>5 DEF PersistPolygons
  <2>. QED BY <2>2, <2>3, <2>4, <2>5 DEF WorkInv
<1>6. CASE PersistLinks
  <2>1. PICK file : OneTable(region, "polygon_articles", file)
    BY <1>6, ProcessSteps
  <2>2. live'[region]["polygons"] = live[region]["polygons"]
    BY <1>0, <2>1, OneTableFacts
  <2>. QED BY <1>2, <1>6, <2>2 DEF PersistLinks, Working, mem
<1>7. CASE WriteManifestEntry \/ WriteAugmentationEntry
  BY <1>2, <1>7 DEF WriteManifestEntry, WriteAugmentationEntry, Working, mem
<1>8. CASE WriteSidecars
  <2>1. PICK rows \in Rows : OneTable(region, "facts", <<rows>>)
    BY <1>8, ProcessSteps
  <2>2. live'[region]["polygons"] = live[region]["polygons"]
    BY <1>0, <2>1, OneTableFacts
  <2>. QED BY <1>2, <1>8, <2>2 DEF WriteSidecars, Working, mem
<1>9. ASSUME NEW r \in Regions, AugmentRegion(r) PROVE WorkInv'
  <2>1. /\ region' = r /\ pc' = "facts" /\ r \notin retired' /\ live'[r]["polygons"] # <<>>
    BY <1>9 DEF AugmentRegion, Active, disk
  <2>. QED BY <2>1 DEF WorkInv
<1>. QED BY <1>3, <1>4, <1>5, <1>6, <1>7, <1>8, <1>9 DEF Next, Process

------------------------------------------------------------------------------
(* What is staged, installed and recorded *)

\* What is staged covers the children, whose tables only shrink until the run goes on.
LEMMA StagedStep ==
    ASSUME IInv, Next PROVE StagedInv'
<1>0. TypeOK /\ DiskTypeOK /\ RuleInv /\ TablesInv /\ FactsInv /\ StagedInv
  BY TypeParts DEF IInv
<1>1. ASSUME ~Preparing', pc' # "remove" PROVE StagedInv'
  BY <1>1 DEF StagedInv
<1>2. ASSUME Preparing \/ pc = "remove", staged' = staged,
             \A c \in ChildSet, d \in Subdirs : live'[c][d] = live[c][d] \/ live'[c][d] = <<>>,
             \A c \in ChildSet : owed'[c] = owed[c],
             "facts" \in owed[Parent] => "facts" \in owed'[Parent]
      PROVE  StagedInv'
  <2>1. /\ OwnedByParent(staged[1])
        /\ "facts" \notin owed[Parent] => FactsOf(staged[1])
        /\ \A c \in ChildSet, d \in Subdirs :
               live[c][d] # <<>> => CoveredBy(live[c][d][1], d, staged[1], owed[c])
    BY <1>0, <1>2 DEF StagedInv
  <2>2. PICK tables : tables = staged[1]
    OBVIOUS
  <2>3. staged'[1] = tables
    BY <2>2, <1>2
  <2>4. \A c \in ChildSet, d \in Subdirs :
            live'[c][d] # <<>> => CoveredBy(live'[c][d][1], d, tables, owed'[c])
    BY <2>1, <2>2, <1>2
  <2>5. "facts" \notin owed'[Parent] => FactsOf(tables)
    BY <2>1, <2>2, <1>2
  <2>. QED BY <2>1, <2>2, <2>3, <2>4, <2>5 DEF StagedInv
<1>3. ASSUME NEW p \in BOOLEAN, Begin(p) PROVE StagedInv'
  BY <1>1, <1>3 DEF Begin, Preparing
<1>4. CASE \/ SkipRule \/ StageRaises \/ Removed \/ FetchInventory \/ PlanRaises \/ EnqueueRetirement
           \/ Deliver \/ Finish
  BY <1>1, <1>4 DEF SkipRule, StageRaises, Removed, FetchInventory, PlanRaises, EnqueueRetirement,
                    Deliver, Finish, WorkerHas, Working, Preparing
<1>5. CASE StageRule
  <2>1. Mergeable(Pending) /\ LinksNamed(Pending) /\ HasRequiredFiles
    BY <1>0, <1>5, PendingMergeable DEF StageRule
  <2>2. PICK tables : tables = StagedTables(Pending)
    OBVIOUS
  <2>3. /\ OwnedByParent(tables)
        /\ \A owes : \A i \in 1..Len(Pending), d \in Subdirs :
               (d = "polygon_articles" /\ "links" \notin owes =>
                   DOMAIN TablesOf(Pending[i])["polygon_articles"]
                       \subseteq DOMAIN TablesOf(Pending[i])["polygons"])
               => CoveredBy(TablesOf(Pending[i])[d], d, tables, owes)
        /\ FactsOf(TablesOf(Parent)) /\ (\A i \in 1..Len(Pending) : FactsOf(TablesOf(Pending[i])))
               => FactsOf(tables)
    BY <2>1, <2>2, StagedFacts
  <2>4. staged'[1] = tables /\ live' = live /\ retired' = retired
    BY <2>2, <1>5 DEF StageRule
  <2>5. retired = {}
    <3>1. RuleInv'
      BY RuleStep
    <3>2. Preparing'
      BY <1>5 DEF StageRule, Preparing
    <3>. QED BY <3>1, <3>2, <2>4 DEF RuleInv
  <2>6. "polygons" \in Subdirs /\ "polygon_articles" \in Subdirs /\ "facts" \in Subdirs
    BY ContractFacts
  <2>7. \A r \in Regions : /\ HasFiles(r)
                           /\ \A d \in Subdirs : TablesOf(r)[d] = live[r][d][1] /\ live[r][d] # <<>>
    <3>1. \A r \in Regions : HasFiles(r)
      BY <2>1, <2>5, PendingFacts, Constants DEF HasRequiredFiles, Regions
    <3>. QED BY <3>1, <1>0, LiveFacts DEF HasFiles
  <2>8. \A c \in ChildSet : owed'[c] = owed[c]
    BY <1>5, OwedKept, Constants
  <2>9. ASSUME NEW c \in ChildSet, NEW d \in Subdirs PROVE CoveredBy(live[c][d][1], d, tables, owed[c])
    <3>1. PICK i \in 1..Len(Pending) : Pending[i] = c
      BY <2>5, PendingFacts
    <3>2. /\ TablesOf(c)[d] = live[c][d][1] /\ TablesOf(c)["polygons"] = live[c]["polygons"][1]
          /\ TablesOf(c)["polygon_articles"] = live[c]["polygon_articles"][1]
          /\ live[c]["polygons"] # <<>> /\ live[c]["polygon_articles"] # <<>>
      BY <2>6, <2>7, Constants
    <3>3. "links" \notin owed[c] => DOMAIN TablesOf(c)["polygon_articles"] \subseteq DOMAIN TablesOf(c)["polygons"]
      BY <1>0, <3>2 DEF TablesInv
    <3>4. CoveredBy(TablesOf(Pending[i])[d], d, tables, owed[c])
      BY <2>3, <3>1, <3>3
    <3>. QED BY <3>1, <3>2, <3>4
  <2>10. ASSUME "facts" \notin owed'[Parent] PROVE FactsOf(tables)
    <3>1. "facts" \notin owed[Parent] /\ ~Lags
      <4>1. "facts" \notin owed[Parent]
        BY <1>5, <2>10, OwedKept, Constants
      <4>2. owed \in [Regions -> SUBSET Owable] /\ Parent \in Regions
        BY <1>0, Constants DEF DiskTypeOK
      <4>3. ASSUME Lags PROVE "facts" \in owed'[Parent]
        <5>1. owed' = [owed EXCEPT ![Parent] = owed[Parent] \cup {"facts"}]
          BY <1>0, <1>5, <4>3, OwedSteps
        <5>. QED BY <5>1, <4>2
      <4>. QED BY <4>1, <4>3, <2>10
    <3>2. \A r \in Regions : "facts" \notin owed[r]
      BY <3>1, <2>5, PendingFacts DEF Lags, Regions
    <3>3. "merge" \notin owed[Parent]
      BY <3>1 DEF Lags
    <3>4. \A r \in Regions : DOMAIN live[r]["polygons"][1] \subseteq DOMAIN live[r]["facts"][1]
      BY <3>2, <3>3, <2>6, <2>7, <1>0 DEF FactsInv
    <3>5. \A r \in Regions : FactsOf(TablesOf(r))
      BY <3>4, <2>6, <2>7 DEF FactsOf
    <3>6. Parent \in Regions /\ \A i \in 1..Len(Pending) : Pending[i] \in Regions
      BY PendingFacts, Constants
    <3>. QED BY <3>5, <3>6, <2>3
  <2>. QED BY <2>3, <2>4, <2>8, <2>9, <2>10 DEF StagedInv
<1>6. CASE \/ CopyOnce \/ UpdateProcessedManifest \/ UpdateAugmentationManifest
           \/ PersistPreparedRule
  <2>1. Preparing /\ staged' = staged /\ live' = live
    BY <1>6 DEF CopyOnce, UpdateProcessedManifest, UpdateAugmentationManifest, PersistPreparedRule,
                mem, Preparing
  <2>2. /\ \A c \in ChildSet : owed'[c] = owed[c]
        /\ "facts" \in owed[Parent] => "facts" \in owed'[Parent]
    <3>1. CASE CopyOnce \/ PersistPreparedRule
      BY <3>1, QuietSteps
    <3>2. CASE UpdateProcessedManifest \/ UpdateAugmentationManifest
      BY <3>2, OwedKept, Constants
    <3>. QED BY <1>6, <3>1, <3>2
  <2>. QED BY <1>2, <2>1, <2>2
<1>7. CASE InstallFile
  <2>1. Preparing /\ staged' = staged /\ \A c \in ChildSet : live'[c] = live[c]
    BY <1>7, LiveSteps DEF InstallFile, Preparing
  <2>2. /\ \A c \in ChildSet : owed'[c] = owed[c]
        /\ "facts" \in owed[Parent] => "facts" \in owed'[Parent]
    BY <1>7, OwedKept, Constants
  <2>. QED BY <1>2, <2>1, <2>2
<1>8. CASE RemoveFile
  <2>1. /\ pc = "remove" /\ staged' = staged /\ owed' = owed
        /\ \A c \in ChildSet, d \in Subdirs : live'[c][d] = live[c][d] \/ live'[c][d] = <<>>
    BY <1>8, LiveSteps DEF RemoveFile, mem
  <2>. QED BY <1>2, <2>1
<1>9. CASE Process
  BY <1>1, <1>9 DEF Process, PersistPolygons, PersistLinks, WriteManifestEntry, AugmentRegion,
                    WriteSidecars, WriteAugmentationEntry, PublishRegion, Preparing
<1>10. ASSUME NEW committed \in BOOLEAN, DeliverFails(committed) PROVE StagedInv'
  BY <1>1, <1>10 DEF DeliverFails, WorkerHas, Working, Preparing
<1>11. ASSUME NEW torn \in BOOLEAN, Kill(torn) PROVE StagedInv'
  BY <1>1, <1>11 DEF Kill, Preparing
<1>. QED BY <1>3, <1>4, <1>5, <1>6, <1>7, <1>8, <1>9, <1>10, <1>11 DEF Next, Prepare

\* The tables of the parent are installed one by one, then both manifests are written.
LEMMA InstalledStep ==
    ASSUME IInv, Next PROVE InstalledInv'
<1>0. DiskTypeOK /\ RunTypeOK /\ RuleInv /\ TablesInv /\ InstalledInv
  BY TypeParts DEF IInv
<1>1. ASSUME ~Preparing', pc' # "remove" PROVE InstalledInv'
  BY <1>1 DEF InstalledInv, Preparing
<1>2. ASSUME NEW p \in BOOLEAN, Begin(p) PROVE InstalledInv'
  BY <1>1, <1>2 DEF Begin, Preparing
<1>3. CASE \/ SkipRule \/ StageRaises \/ Removed \/ FetchInventory \/ PlanRaises \/ EnqueueRetirement
           \/ Deliver \/ Finish
  BY <1>1, <1>3 DEF SkipRule, StageRaises, Removed, FetchInventory, PlanRaises, EnqueueRetirement,
                    Deliver, Finish, WorkerHas, Working, Preparing
<1>4. CASE StageRule
  <2>1. pc' = "copy" /\ at'[1] = 1
    BY <1>4 DEF StageRule
  <2>2. \A i \in 1..Len(Contracts) : ~ (i < at'[1])
    BY <2>1, ContractFacts
  <2>. QED BY <2>1, <2>2 DEF InstalledInv
<1>5. CASE CopyOnce
  <2>1. /\ pc = "copy" /\ pc' \in {"copy", "install"} /\ at'[1] = at[1]
        /\ UNCHANGED <<live, staged, processed, core>>
    BY <1>5 DEF CopyOnce
  <2>. QED BY <1>0, <2>1 DEF InstalledInv
<1>6. CASE InstallFile
  <2>. DEFINE n == at[1]
  <2>0. n \in 1..3
    BY <1>0, ContractFacts DEF RunTypeOK
  <2>1. /\ pc = "install" /\ UNCHANGED <<staged, processed, core>>
        /\ IF n < 3 THEN pc' = "copy" /\ at'[1] = n + 1 ELSE pc' = "processed"
    BY <1>6, ContractFacts DEF InstallFile
  <2>2. \A i \in 1..3 : i < n => live[Parent][Contracts[i]] = <<staged[1][Contracts[i]]>>
    BY <1>0, <2>1, ContractFacts DEF InstalledInv
  <2>3. \A d \in Subdirs : live'[Parent][d] =
            IF d = Contracts[n] THEN <<staged[1][d]>> ELSE live[Parent][d]
    BY <1>6, LiveSteps
  <2>4. \A i \in 1..3 : Contracts[i] \in Subdirs
    BY ContractFacts
  <2>. HIDE DEF n
  <2>5. \A i \in 1..3 : i < n + 1 => live'[Parent][Contracts[i]] = <<staged[1][Contracts[i]]>>
    <3>. SUFFICES ASSUME NEW i \in 1..3, i < n + 1
                  PROVE  live'[Parent][Contracts[i]] = <<staged[1][Contracts[i]]>>
      OBVIOUS
    <3>1. i = n \/ i < n
      BY <2>0
    <3>. QED BY <3>1, <2>2, <2>3, <2>4
  <2>6. CASE n < 3
    <3>1. \A i \in 1..Len(Contracts) : i < at'[1] =>
              live'[Parent][Contracts[i]] = <<staged'[1][Contracts[i]]>>
      BY <2>1, <2>5, <2>6, ContractFacts
    <3>. QED BY <2>1, <2>6, <3>1 DEF InstalledInv
  <2>7. CASE ~ (n < 3)
    <3>1. \A i \in 1..3 : live'[Parent][Contracts[i]] = <<staged[1][Contracts[i]]>>
      BY <2>0, <2>5, <2>7
    <3>2. \A d \in Subdirs : live'[Parent][d] = <<staged'[1][d]>>
      BY <3>1, <2>1, ContractFacts
    <3>. QED BY <2>1, <2>7, <3>2 DEF InstalledInv
  <2>. QED BY <2>6, <2>7
<1>7. CASE UpdateProcessedManifest
  <2>1. Parent \notin Range(Pending) /\ Parent \in Regions
    BY PendingFacts, Constants
  <2>2. processed'[Parent] = <<ManifestStats(staged[1])>>
    BY <1>0, <1>7, <2>1 DEF UpdateProcessedManifest, TablesInv
  <2>3. pc = "processed" /\ pc' = "augmented" /\ UNCHANGED <<live, staged>>
    BY <1>7 DEF UpdateProcessedManifest, mem
  <2>. QED BY <1>0, <2>2, <2>3 DEF InstalledInv
<1>8. CASE UpdateAugmentationManifest
  <2>1. Parent \notin Range(Pending) /\ Parent \in Regions
    BY PendingFacts, Constants
  <2>2. core'[Parent] = <<CoreHashes(staged[1])>>
    BY <1>0, <1>8, <2>1 DEF UpdateAugmentationManifest, TablesInv
  <2>3. pc = "augmented" /\ pc' = "record" /\ UNCHANGED <<live, staged, processed>>
    BY <1>8 DEF UpdateAugmentationManifest, mem
  <2>. QED BY <1>0, <2>2, <2>3 DEF InstalledInv
<1>9. CASE PersistPreparedRule
  BY <1>0, <1>9 DEF PersistPreparedRule, InstalledInv
<1>10. CASE RemoveFile
  <2>1. pc = "remove" /\ pc' = "remove" /\ staged' = staged /\ live'[Parent] = live[Parent]
    BY <1>10, LiveSteps DEF RemoveFile, mem
  <2>. QED BY <1>0, <2>1 DEF InstalledInv
<1>11. CASE Process
  BY <1>1, <1>11 DEF Process, PersistPolygons, PersistLinks, WriteManifestEntry, AugmentRegion,
                     WriteSidecars, WriteAugmentationEntry, PublishRegion, Preparing
<1>12. ASSUME NEW committed \in BOOLEAN, DeliverFails(committed) PROVE InstalledInv'
  BY <1>1, <1>12 DEF DeliverFails, WorkerHas, Working, Preparing
<1>13. ASSUME NEW torn \in BOOLEAN, Kill(torn) PROVE InstalledInv'
  BY <1>1, <1>13 DEF Kill, Preparing
<1>. QED BY <1>2, <1>3, <1>4, <1>5, <1>6, <1>7, <1>8, <1>9, <1>10, <1>11, <1>12, <1>13
         DEF Next, Prepare

\* The parent's entries are those of its polygons unless they are owed.
EntriesCurrent ==
    retired # {} =>
        /\ "entry" \notin owed[Parent] =>
               processed[Parent] = <<Cardinality(DOMAIN live[Parent]["polygons"][1])>>
        /\ "hash" \notin owed[Parent] => core[Parent] = <<live[Parent]["polygons"][1]>>

\* With the parent's files and the merge at its end, the rest is FactsInv.
LEMMA EntriesFacts ==
    ASSUME TablesInv, FactsInv, MergeInv PROVE OnlyCutShortStale <=> EntriesCurrent
<1>1. "polygons" \in Subdirs /\ "facts" \in Subdirs /\ Parent \in Regions
  BY ContractFacts, Constants
<1>2. TablesOf(Parent)["polygons"] = live[Parent]["polygons"][1]
  BY <1>1 DEF TablesOf
<1>3. retired # {} /\ "facts" \notin owed[Parent] =>
          DOMAIN live[Parent]["polygons"][1] \subseteq DOMAIN live[Parent]["facts"][1]
  BY <1>1 DEF TablesInv, HasFiles, FactsInv, MergeInv
<1>. QED BY <1>2, <1>3 DEF OnlyCutShortStale, EntriesCurrent, ManifestStats, CoreHashes

\* The same of the next state.
LEMMA EntriesFactsNext ==
    ASSUME TablesInv', FactsInv', MergeInv', EntriesCurrent' PROVE OnlyCutShortStale'
<1>1. "polygons" \in Subdirs /\ "facts" \in Subdirs /\ Parent \in Regions
  BY ContractFacts, Constants
<1>2. TablesOf(Parent)'["polygons"] = live'[Parent]["polygons"][1]
  BY <1>1 DEF TablesOf
<1>3. retired' # {} /\ "facts" \notin owed'[Parent] =>
          DOMAIN live'[Parent]["polygons"][1] \subseteq DOMAIN live'[Parent]["facts"][1]
  BY <1>1 DEF TablesInv, HasFiles, FactsInv, MergeInv
<1>. QED BY <1>2, <1>3 DEF OnlyCutShortStale, EntriesCurrent, ManifestStats, CoreHashes

\* A retirement is recorded beside the manifest entries of the merged parent, and only
\* processing the parent again writes its tables afterwards.
LEMMA ManifestsStep ==
    ASSUME IInv, Next PROVE OnlyCutShortStale'
<1>0. /\ TypeOK /\ DiskTypeOK /\ RunTypeOK /\ RuleInv /\ TablesInv /\ InstalledInv /\ WorkInv
      /\ live \in [Regions -> [Subdirs -> Maybe(Rows)]] /\ region \in Regions
      /\ "polygons" \in Subdirs /\ "polygon_articles" \in Subdirs /\ "facts" \in Subdirs
      /\ "polygon_articles" # "polygons" /\ "facts" # "polygons" /\ Parent \in Regions
  BY TypeParts, ContractFacts, Constants DEF IInv, DiskTypeOK, RunTypeOK
<1>1. EntriesCurrent
  BY EntriesFacts DEF IInv
<1>2. SUFFICES EntriesCurrent'
  BY TablesStep, FactsStep, MergeStep, EntriesFactsNext
<1>3. ASSUME UNCHANGED retired, processed'[Parent] = processed[Parent], core'[Parent] = core[Parent],
             live'[Parent]["polygons"] = live[Parent]["polygons"],
             "entry" \in owed[Parent] => "entry" \in owed'[Parent],
             "hash" \in owed[Parent] => "hash" \in owed'[Parent]
      PROVE  EntriesCurrent'
  BY <1>1, <1>3 DEF EntriesCurrent
<1>4. ASSUME retired' = {} PROVE EntriesCurrent'
  BY <1>4 DEF EntriesCurrent
<1>5. CASE \/ \E p \in BOOLEAN : Begin(p)
           \/ SkipRule \/ StageRaises \/ CopyOnce \/ Removed
           \/ FetchInventory \/ PlanRaises \/ EnqueueRetirement \/ Deliver \/ Finish
           \/ PublishRegion \/ \E r \in Regions : AugmentRegion(r)
           \/ \E committed \in BOOLEAN : DeliverFails(committed)
           \/ \E torn \in BOOLEAN : Kill(torn)
  <2>1. UNCHANGED <<live, processed, core, owed>>
    BY <1>5, QuietSteps
  <2>2. UNCHANGED retired
    BY <1>5 DEF Begin, SkipRule, StageRaises, CopyOnce, Removed, FetchInventory,
                PlanRaises, EnqueueRetirement, Deliver, Finish, PublishRegion, AugmentRegion,
                DeliverFails, Kill, disk
  <2>. QED BY <1>3, <2>1, <2>2
<1>6. CASE StageRule
  <2>1. /\ "entry" \in owed[Parent] => "entry" \in owed'[Parent]
        /\ "hash" \in owed[Parent] => "hash" \in owed'[Parent]
    BY <1>0, <1>6, OwedKept
  <2>. QED BY <1>3, <1>6, <2>1 DEF StageRule
<1>7. CASE InstallFile \/ UpdateProcessedManifest \/ UpdateAugmentationManifest
  BY <1>0, <1>4, <1>7 DEF InstallFile, UpdateProcessedManifest, UpdateAugmentationManifest, RuleInv,
                          Preparing
<1>8. CASE PersistPreparedRule
  <2>1. /\ UNCHANGED <<live, processed, core>>
        /\ live[Parent]["polygons"] = <<staged[1]["polygons"]>>
        /\ processed[Parent] = <<Cardinality(DOMAIN staged[1]["polygons"])>>
        /\ core[Parent] = <<staged[1]["polygons"]>>
    BY <1>0, <1>8 DEF PersistPreparedRule, InstalledInv, ManifestStats, CoreHashes
  <2>2. live[Parent]["polygons"][1] = staged[1]["polygons"]
    BY <2>1
  <2>. QED BY <2>1, <2>2 DEF EntriesCurrent
<1>9. CASE RemoveFile
  BY <1>3, <1>9, LiveSteps DEF RemoveFile
<1>10. ASSUME NEW r \in Regions, NEW ks \in (SUBSET Keys) \ {{}}, NEW s \in BOOLEAN,
              PersistPolygons(r, ks, s)
       PROVE  EntriesCurrent'
  <2>1. PICK tables \in Tables : Persisted(r, ks, tables)
    BY <1>10, ProcessSteps
  <2>2. OneTable(r, "polygons", <<tables["polygons"]>>)
    BY <2>1 DEF Persisted
  <2>3. owed' = [owed EXCEPT ![r] = {"links", "entry", "facts", "hash"}]
    BY <1>0, <1>10, OwedSteps
  <2>4. UNCHANGED <<retired, processed, core>>
    BY <1>10 DEF PersistPolygons
  <2>5. CASE r = Parent
    <3>1. "entry" \in owed'[Parent] /\ "hash" \in owed'[Parent]
      BY <2>3, <2>5, <1>0 DEF DiskTypeOK
    <3>. QED BY <3>1 DEF EntriesCurrent
  <2>6. CASE r # Parent
    <3>1. owed'[Parent] = owed[Parent] /\ live'[Parent]["polygons"] = live[Parent]["polygons"]
      BY <2>2, <2>3, <2>6, <1>0, OneTableFacts DEF DiskTypeOK
    <3>. QED BY <3>1, <2>4, <1>3
  <2>. QED BY <2>5, <2>6
<1>11. CASE PersistLinks \/ WriteSidecars
  <2>1. /\ "entry" \in owed[Parent] => "entry" \in owed'[Parent]
        /\ "hash" \in owed[Parent] => "hash" \in owed'[Parent]
    BY <1>0, <1>11, OwedKept
  <2>2. UNCHANGED <<retired, processed, core>>
    BY <1>11 DEF PersistLinks, WriteSidecars
  <2>3. \E file : OneTable(region, "polygon_articles", file) \/ OneTable(region, "facts", file)
    BY <1>11, ProcessSteps
  <2>4. live'[Parent]["polygons"] = live[Parent]["polygons"]
    BY <2>3, <1>0, OneTableFacts
  <2>. QED BY <1>3, <2>1, <2>2, <2>4
<1>12. CASE WriteManifestEntry
  <2>1. /\ "hash" \in owed[Parent] => "hash" \in owed'[Parent]
        /\ UNCHANGED <<live, retired, core>>
    BY <1>0, <1>12, OwedKept DEF WriteManifestEntry
  <2>2. processed' = [processed EXCEPT ![region] = <<ManifestStats(staged[1])>>]
    BY <1>12 DEF WriteManifestEntry
  <2>3. owed' = [owed EXCEPT ![region] = owed[region] \ {"entry"}]
    BY <1>0, <1>12, OwedSteps
  <2>4. CASE region # Parent
    <3>1. owed'[Parent] = owed[Parent] /\ processed'[Parent] = processed[Parent]
      BY <2>2, <2>3, <2>4, <1>0 DEF DiskTypeOK
    <3>. QED BY <3>1, <2>1, <1>3
  <2>5. CASE region = Parent
    <3>1. live[Parent]["polygons"] = <<staged[1]["polygons"]>>
      BY <1>0, <1>12, <2>5 DEF WriteManifestEntry, WorkInv
    <3>2. live[Parent]["polygons"][1] = staged[1]["polygons"]
      BY <3>1
    <3>3. processed'[Parent] = <<ManifestStats(staged[1])>>
      BY <2>2, <2>5, <1>0 DEF DiskTypeOK
    <3>4. processed'[Parent] = <<Cardinality(DOMAIN live'[Parent]["polygons"][1])>>
      BY <2>1, <3>2, <3>3 DEF ManifestStats
    <3>. QED BY <1>1, <2>1, <3>4 DEF EntriesCurrent
  <2>. QED BY <2>4, <2>5
<1>13. CASE WriteAugmentationEntry
  <2>1. /\ "entry" \in owed[Parent] => "entry" \in owed'[Parent]
        /\ UNCHANGED <<live, retired, processed>>
    BY <1>0, <1>13, OwedKept DEF WriteAugmentationEntry
  <2>2. core' = [core EXCEPT ![region] = live[region]["polygons"]]
    BY <1>13 DEF WriteAugmentationEntry
  <2>3. owed' = [owed EXCEPT ![region] = owed[region] \ {"hash"}]
    BY <1>0, <1>13, OwedSteps
  <2>4. CASE region # Parent
    <3>1. owed'[Parent] = owed[Parent] /\ core'[Parent] = core[Parent]
      BY <2>2, <2>3, <2>4, <1>0 DEF DiskTypeOK
    <3>. QED BY <3>1, <2>1, <1>3
  <2>5. CASE region = Parent
    <3>1. core'[Parent] = live[Parent]["polygons"]
      BY <2>2, <2>5, <1>0 DEF DiskTypeOK
    <3>2. live[Parent]["polygons"] = <<live[Parent]["polygons"][1]>>
      BY <1>0, LiveFacts DEF TablesInv, HasFiles
    <3>. QED BY <1>1, <2>1, <3>1, <3>2 DEF EntriesCurrent
  <2>. QED BY <2>4, <2>5
<1>. QED BY <1>5, <1>6, <1>7, <1>8, <1>9, <1>10, <1>11, <1>12, <1>13 DEF Next, Prepare, Process

------------------------------------------------------------------------------
(* The Hub *)

\* A commit that adds no retired region leaves no more of them on the Hub, and none that
\* it deletes.
LEMMA CommittedRetired ==
    ASSUME NEW job \in Job, job.adds \notin retired, NEW c \in retired
    PROVE  c \in Committed(job) <=> c \in hub /\ c \notin job.deletes
  BY DEF Committed

\* A clean run has every retired child that is on the Hub in a job, and delivers it.
LEMMA PublishedStep ==
    ASSUME IInv, Next PROVE PublishedInv'
<1>0. /\ RunTypeOK /\ QueueTypeOK /\ TypeOK /\ TablesInv /\ PublishedInv
      /\ retired \subseteq ChildSet
  BY TypeParts DEF IInv, DiskTypeOK
<1>1. queue \in Seq(Job) /\ Len(queue) \in Nat /\ DOMAIN queue = 1..Len(queue)
  BY <1>0 DEF QueueTypeOK
<1>2. ASSUME (pc' \notin {"open", "run"} /\ ~Working') \/ ~clean' \/ failed' # 0 PROVE PublishedInv'
  BY <1>2 DEF PublishedInv
<1>3. ASSUME NEW p \in BOOLEAN, Begin(p) PROVE PublishedInv'
  BY <1>2, <1>3 DEF Begin
<1>4. CASE Prepare \/ PlanRaises \/ Finish
  BY <1>2, <1>4 DEF Prepare, SkipRule, StageRule, StageRaises, CopyOnce, InstallFile,
                    UpdateProcessedManifest, UpdateAugmentationManifest, PersistPreparedRule,
                    RemoveFile, Removed, PlanRaises, Finish, Working
<1>5. CASE FetchInventory
  <2>. SUFFICES ASSUME clean' PROVE PublishedInv'
    BY <1>2
  <2>1. /\ queue' = queue /\ queue = <<>> /\ retired' = retired /\ hub' = hub /\ pc' = "open"
        /\ present' = RemotePresent
    BY <1>5 DEF FetchInventory, disk
  <2>2. DOMAIN queue' = {}
    BY <2>1
  <2>3. \A c \in retired : c \notin hub \/ c \in RemotePresent
    BY DEF RemotePresent
  <2>. QED BY <2>1, <2>2, <2>3 DEF PublishedInv
<1>6. CASE EnqueueRetirement
  <2>. SUFFICES ASSUME clean', failed' = 0 PROVE PublishedInv'
    BY <1>2
  <2>1. /\ pc = "open" /\ pc' = "run" /\ clean /\ failed = 0 /\ UNCHANGED <<retired, hub, present>>
        /\ queue' = IF present = {} THEN queue ELSE Append(queue, RetirementJob)
    BY <1>6 DEF EnqueueRetirement, disk, mem
  <2>2. /\ \A i \in 1..Len(queue) : queue[i].adds \notin retired
        /\ \A c \in retired : \/ c \notin hub \/ c \in present
                              \/ \E i \in 1..Len(queue) : c \in queue[i].deletes
    BY <1>0, <1>1, <2>1 DEF PublishedInv
  <2>3. CASE present = {}
    BY <1>1, <2>1, <2>2, <2>3 DEF PublishedInv
  <2>4. CASE present # {}
    <3>1. PICK job \in Job : job = RetirementJob
      BY <1>0, JobFacts
    <3>2. job.adds \notin retired /\ job.deletes = present
      BY <3>1, <1>0, JobFacts, Constants
    <3>3. PICK q : q = Append(queue, job)
      OBVIOUS
    <3>4. /\ DOMAIN q = 1..(Len(queue) + 1) /\ q[Len(queue) + 1] = job
          /\ \A i \in 1..Len(queue) : q[i] = queue[i]
      BY <3>3, <1>1
    <3>5. queue' = q
      BY <2>1, <2>4, <3>1, <3>3
    <3>6. \A i \in DOMAIN q : i \in 1..Len(queue) \/ i = Len(queue) + 1
      BY <3>4, <1>1
    <3>7. 1..Len(queue) \subseteq DOMAIN q /\ Len(queue) + 1 \in DOMAIN q
      BY <3>4, <1>1
    <3>8. \A i \in DOMAIN q : q[i].adds \notin retired
      BY <3>2, <3>4, <3>6, <2>2
    <3>9. \A c \in retired : c \notin hub \/ \E i \in DOMAIN q : c \in q[i].deletes
      BY <3>2, <3>4, <3>7, <2>2
    <3>. QED BY <2>1, <3>5, <3>8, <3>9 DEF PublishedInv
  <2>. QED BY <2>3, <2>4
<1>7. CASE PublishRegion
  <2>. SUFFICES ASSUME clean', failed' = 0 PROVE PublishedInv'
    BY <1>2
  <2>1. PICK job : job = RegionJob(region)
    OBVIOUS
  <2>2. /\ pc = "publish" /\ pc' = "run" /\ clean /\ failed = 0 /\ Working
        /\ UNCHANGED <<retired, hub, present>>
        /\ queue' = queue \/ queue' = Append(queue, job)
    BY <2>1, <1>7 DEF PublishRegion, disk, Working
  <2>4. job \in Job /\ job.adds \notin retired
    <3>1. region \notin retired /\ region \in Regions
      BY <1>0, <2>2 DEF IInv, WorkInv, RunTypeOK
    <3>. QED BY <2>1, <3>1, JobFacts
  <2>5. /\ \A i \in 1..Len(queue) : queue[i].adds \notin retired
        /\ \A c \in retired : c \notin hub \/ \E i \in 1..Len(queue) : c \in queue[i].deletes
    BY <1>0, <1>1, <2>2 DEF PublishedInv
  <2>6. CASE queue' = queue
    BY <1>1, <2>2, <2>5, <2>6 DEF PublishedInv
  <2>7. CASE queue' = Append(queue, job)
    <3>1. PICK q : q = Append(queue, job)
      OBVIOUS
    <3>2. /\ DOMAIN q = 1..(Len(queue) + 1) /\ q[Len(queue) + 1] = job
          /\ \A i \in 1..Len(queue) : q[i] = queue[i]
      BY <3>1, <1>1, <2>4
    <3>3. \A i \in DOMAIN q : i \in 1..Len(queue) \/ i = Len(queue) + 1
      BY <3>2, <1>1
    <3>4. 1..Len(queue) \subseteq DOMAIN q
      BY <3>2, <1>1
    <3>5. \A i \in DOMAIN q : q[i].adds \notin retired
      BY <2>4, <2>5, <3>2, <3>3
    <3>6. \A c \in retired : c \notin hub \/ \E i \in DOMAIN q : c \in q[i].deletes
      BY <2>5, <3>2, <3>4
    <3>. QED BY <2>2, <2>7, <3>1, <3>5, <3>6 DEF PublishedInv
  <2>. QED BY <2>2, <2>6, <2>7
<1>11. CASE \/ \E r \in Regions, ks \in (SUBSET Keys) \ {{}}, s \in BOOLEAN : PersistPolygons(r, ks, s)
            \/ PersistLinks \/ WriteManifestEntry \/ \E r \in Regions : AugmentRegion(r)
            \/ WriteSidecars \/ WriteAugmentationEntry
  <2>1. /\ UNCHANGED <<queue, retired, hub, clean, failed>>
        /\ pc = "run" \/ Working
        /\ pc' # "open" /\ pc # "open"
    BY <1>11 DEF PersistPolygons, PersistLinks, WriteManifestEntry, AugmentRegion, WriteSidecars,
                 WriteAugmentationEntry, disk, mem, Working
  <2>. QED BY <1>0, <2>1 DEF PublishedInv
<1>8. CASE Deliver
  <2>. SUFFICES ASSUME clean', failed' = 0 PROVE PublishedInv'
    BY <1>2
  <2>1. /\ pc \in {"open", "run"} \/ Working
        /\ clean /\ failed = 0 /\ 0 < Len(queue)
        /\ hub' = Committed(NextJob) /\ queue' = RemoveAt(queue, failed + 1)
        /\ UNCHANGED <<retired, pc, present>>
    BY <1>8 DEF Deliver, WorkerHas, disk, mem
  <2>2. /\ \A i \in 1..Len(queue) : queue[i].adds \notin retired
        /\ \A c \in retired : \/ c \notin hub
                              \/ pc = "open" /\ c \in present
                              \/ \E i \in 1..Len(queue) : c \in queue[i].deletes
    BY <1>0, <1>1, <2>1 DEF PublishedInv
  <2>3. PICK q : q = RemoveAt(queue, 1)
    BY Zenon
  <2>4. /\ q \in Seq(Job) /\ Len(q) = Len(queue) - 1
        /\ \A i \in 1..Len(queue) - 1 : q[i] = queue[i + 1]
    <3>1. 1 \in 1..Len(queue) /\ \A i \in 1..Len(queue) - 1 : ~ (i < 1)
      BY <1>1, <2>1
    <3>. QED BY <3>1, <2>3, <1>1, QueueFacts
  <2>5. DOMAIN q = 1..Len(queue) - 1
    BY <2>4
  <2>6. queue' = q /\ NextJob = queue[1] /\ queue[1] \in Job
    <3>1. failed + 1 = 1
      BY <2>1
    <3>. QED BY <3>1, <2>1, <2>3, <1>1 DEF NextJob
  <2>7. \A i \in DOMAIN q : q[i].adds \notin retired
    <3>. SUFFICES ASSUME NEW i \in DOMAIN q PROVE q[i].adds \notin retired
      OBVIOUS
    <3>1. i + 1 \in 1..Len(queue) /\ q[i] = queue[i + 1]
      BY <2>4, <2>5, <1>1
    <3>. QED BY <3>1, <2>2
  <2>8. \A c \in retired : c \in hub' <=> c \in hub /\ c \notin queue[1].deletes
    <3>1. 1 \in 1..Len(queue)
      BY <1>1, <2>1
    <3>2. queue[1].adds \notin retired
      BY <3>1, <2>2
    <3>3. hub' = Committed(queue[1])
      BY <2>1, <2>6
    <3>. QED BY <3>2, <3>3, <2>6, CommittedRetired
  <2>9. ASSUME NEW c \in retired
        PROVE  c \notin hub' \/ (pc = "open" /\ c \in present) \/ \E i \in DOMAIN q : c \in q[i].deletes
    <3>1. CASE c \notin hub \/ (pc = "open" /\ c \in present)
      BY <3>1, <2>8
    <3>2. CASE \E i \in 1..Len(queue) : c \in queue[i].deletes
      <4>1. PICK i \in 1..Len(queue) : c \in queue[i].deletes
        BY <3>2
      <4>2. CASE i = 1
        BY <4>1, <4>2, <2>8
      <4>3. CASE i # 1
        <5>1. i - 1 \in DOMAIN q /\ q[i - 1] = queue[(i - 1) + 1] /\ (i - 1) + 1 = i
          BY <4>3, <2>4, <2>5, <1>1
        <5>. QED BY <5>1, <4>1
      <4>. QED BY <4>2, <4>3
    <3>. QED BY <3>1, <3>2, <2>2
  <2>. QED BY <2>1, <2>6, <2>7, <2>9 DEF PublishedInv
<1>9. ASSUME NEW committed \in BOOLEAN, DeliverFails(committed) PROVE PublishedInv'
  <2>1. failed \in Nat /\ failed' = failed + 1
    BY <1>0, <1>1, <1>9 DEF DeliverFails, QueueTypeOK
  <2>. QED BY <1>2, <2>1
<1>10. ASSUME NEW torn \in BOOLEAN, Kill(torn) PROVE PublishedInv'
  BY <1>2, <1>10 DEF Kill
<1>. QED BY <1>3, <1>4, <1>5, <1>6, <1>7, <1>8, <1>9, <1>10, <1>11 DEF Next, Process

\* A run is clean only from its inventory on.
LEMMA CleanFromInventory ==
    ASSUME IInv, Next PROVE CleanInv'
<1>0. CleanInv
  BY DEF IInv
<1>1. ASSUME ~clean' PROVE CleanInv'
  BY <1>1 DEF CleanInv
<1>2. ASSUME pc' \in {"down", "open", "run"} \/ Working' PROVE CleanInv'
  BY <1>2 DEF CleanInv
<1>3. CASE (\E p \in BOOLEAN : Begin(p)) \/ \E torn \in BOOLEAN : Kill(torn)
  BY <1>1, <1>3 DEF Begin, Kill
<1>4. CASE Prepare \/ PlanRaises
  <2>1. ~clean
    BY <1>0, <1>4 DEF CleanInv, Working, Prepare, SkipRule, StageRule, StageRaises, CopyOnce,
                      InstallFile, UpdateProcessedManifest, UpdateAugmentationManifest,
                      PersistPreparedRule, RemoveFile, Removed, PlanRaises
  <2>2. clean' = clean
    BY <1>4 DEF Prepare, SkipRule, StageRule, StageRaises, CopyOnce, InstallFile,
                UpdateProcessedManifest, UpdateAugmentationManifest, PersistPreparedRule,
                RemoveFile, Removed, PlanRaises, mem
  <2>. QED BY <1>1, <2>1, <2>2
<1>5. CASE FetchInventory \/ EnqueueRetirement \/ Process \/ Finish
  BY <1>2, <1>5 DEF FetchInventory, EnqueueRetirement, Process, PersistPolygons, PersistLinks,
                    WriteManifestEntry, AugmentRegion, WriteSidecars, WriteAugmentationEntry,
                    PublishRegion, Finish, Working
<1>6. CASE Deliver \/ \E committed \in BOOLEAN : DeliverFails(committed)
  <2>1. UNCHANGED <<pc, clean>>
    BY <1>6 DEF Deliver, DeliverFails, mem
  <2>. QED BY <1>0, <2>1 DEF CleanInv, Working
<1>. QED BY <1>3, <1>4, <1>5, <1>6 DEF Next

\* A run that ends clean has delivered every job.
LEMMA CleanStep ==
    ASSUME IInv, Next PROVE CleanRunRetires'
<1>0. PublishedInv /\ CleanInv /\ queue \in Seq(Job) /\ failed \in 0..Len(queue)
  BY DEF IInv, TypeOK
<1>1. ASSUME pc' # "down" \/ ~clean' PROVE CleanRunRetires'
  BY <1>1 DEF CleanRunRetires
<1>2. CASE \/ \E p \in BOOLEAN : Begin(p)
           \/ FetchInventory \/ EnqueueRetirement \/ Process
           \/ Deliver \/ \E committed \in BOOLEAN : DeliverFails(committed)
           \/ \E torn \in BOOLEAN : Kill(torn)
  BY <1>1, <1>2 DEF Begin, FetchInventory, EnqueueRetirement, Process, PersistPolygons, PersistLinks,
                    WriteManifestEntry, AugmentRegion, WriteSidecars, WriteAugmentationEntry,
                    PublishRegion, Deliver, DeliverFails, Kill, WorkerHas, Working
<1>3. CASE Prepare \/ PlanRaises
  <2>1. ~clean
    BY <1>0, <1>3 DEF CleanInv, Working, Prepare, SkipRule, StageRule, StageRaises, CopyOnce,
                      InstallFile, UpdateProcessedManifest, UpdateAugmentationManifest,
                      PersistPreparedRule, RemoveFile, Removed, PlanRaises
  <2>2. clean' = clean
    BY <1>3 DEF Prepare, SkipRule, StageRule, StageRaises, CopyOnce, InstallFile,
                UpdateProcessedManifest, UpdateAugmentationManifest, PersistPreparedRule,
                RemoveFile, Removed, PlanRaises, mem
  <2>. QED BY <1>1, <2>1, <2>2
<1>4. CASE Finish
  <2>. SUFFICES ASSUME clean' PROVE CleanRunRetires'
    BY <1>1
  <2>1. /\ pc = "run" /\ clean /\ failed = 0 /\ failed = Len(queue) /\ UNCHANGED <<retired, hub>>
    BY <1>4 DEF Finish, disk
  <2>2. DOMAIN queue = {}
    BY <1>0, <2>1
  <2>3. \A c \in retired : c \notin hub
    BY <1>0, <2>1, <2>2 DEF PublishedInv
  <2>. QED BY <2>1, <2>3 DEF CleanRunRetires
<1>. QED BY <1>2, <1>3, <1>4 DEF Next

------------------------------------------------------------------------------
(* The theorems *)

\* What was extracted before the first run.
LEMMA InitIInv == Init => IInv
<1>. SUFFICES ASSUME Init PROVE IInv
  OBVIOUS
<1>1. PICK present0 \in SUBSET ChildSet, keys \in [Regions -> (SUBSET Keys) \ {{}}] :
          /\ live = [r \in Regions |-> [d \in Subdirs |->
                        IF r \in ChildSet \ present0 THEN <<>>
                        ELSE <<Extracted(r, keys[r], 0)[d]>>]]
          /\ processed = [r \in Regions |-> IF r \in ChildSet \ present0 THEN <<>>
                                ELSE <<ManifestStats(Extracted(r, keys[r], 0))>>]
          /\ core = [r \in Regions |-> IF r \in ChildSet \ present0 THEN <<>>
                                ELSE <<CoreHashes(Extracted(r, keys[r], 0))>>]
          /\ hub = {Parent} \cup present0
  BY DEF Init
<1>2. PICK tables : tables = [r \in Regions |-> Extracted(r, keys[r], 0)]
  OBVIOUS
<1>3. \A r \in Regions : /\ tables[r] = Extracted(r, keys[r], 0) /\ tables[r] \in Tables
                         /\ \A d \in Subdirs : /\ DOMAIN tables[r][d] = keys[r]
                                               /\ \A k \in keys[r] : tables[r][d][k].of = r
  <2>1. 0 \in 0..MaxEdits /\ \A r \in Regions : keys[r] \in SUBSET Keys
    BY Constants
  <2>. SUFFICES ASSUME NEW r \in Regions
                PROVE  /\ tables[r] = Extracted(r, keys[r], 0) /\ tables[r] \in Tables
                       /\ \A d \in Subdirs : /\ DOMAIN tables[r][d] = keys[r]
                                             /\ \A k \in keys[r] : tables[r][d][k].of = r
    OBVIOUS
  <2>2. tables[r] = Extracted(r, keys[r], 0)
    BY <1>2
  <2>3. /\ Extracted(r, keys[r], 0) \in Tables
        /\ \A d \in Subdirs : /\ DOMAIN Extracted(r, keys[r], 0)[d] = keys[r]
                              /\ \A k \in keys[r] : Extracted(r, keys[r], 0)[d][k].of = r
    BY <2>1, ExtractedFacts
  <2>. QED BY <2>2, <2>3
<1>4. /\ \A r \in Regions, d \in Subdirs :
             live[r][d] = IF r \in ChildSet \ present0 THEN <<>> ELSE <<tables[r][d]>>
      /\ \A r \in Regions :
             processed[r] = IF r \in ChildSet \ present0 THEN <<>> ELSE <<ManifestStats(tables[r])>>
      /\ \A r \in Regions :
             core[r] = IF r \in ChildSet \ present0 THEN <<>> ELSE <<CoreHashes(tables[r])>>
  BY <1>1, <1>3
<1>. DEFINE absent(r) == r \in ChildSet \ present0
<1>. HIDE DEF absent
<1>5. \A r \in Regions :
           /\ absent(r) => \A d \in Subdirs : live[r][d] = <<>>
           /\ ~absent(r) => \A d \in Subdirs : live[r][d] = <<tables[r][d]>>
           /\ absent(r) => processed[r] = <<>> /\ core[r] = <<>>
           /\ ~absent(r) => /\ processed[r] = <<ManifestStats(tables[r])>>
                            /\ core[r] = <<CoreHashes(tables[r])>>
  BY <1>4 DEF absent
<1>6. Parent \in Regions /\ ~absent(Parent)
  BY Constants DEF absent
<1>7. /\ sound \in [Regions -> BOOLEAN] /\ quarantine = [r \in Regions |-> [d \in Subdirs |-> <<>>]]
      /\ retired = {} /\ owed = [r \in Regions |-> {}] /\ queue = <<>>
      /\ pc = "down" /\ push = FALSE /\ region = Parent /\ staged = <<>>
      /\ at = <<1, 1>> /\ present = {} /\ failed = 0 /\ clean = FALSE
      /\ clock = 0 /\ runs = 0 /\ kills = 0
  BY DEF Init
<1>8. TypeOK
  <2>1. DiskTypeOK
    <3>1. ASSUME NEW r \in Regions, NEW d \in Subdirs PROVE live[r][d] \in Maybe(Rows)
      <4>1. tables[r][d] \in Rows
        BY <1>3, TablesFacts
      <4>2. <<>> \in Maybe(Rows) /\ <<tables[r][d]>> \in Maybe(Rows)
        BY <4>1, MaybeFacts
      <4>. QED BY <4>2, <1>5
    <3>2. live = [r \in Regions |-> [d \in Subdirs |-> live[r][d]]]
      <4>1. \A r \in Regions : live[r] = [d \in Subdirs |-> live[r][d]]
        BY <1>1
      <4>2. live = [r \in Regions |-> live[r]]
        BY <1>1
      <4>. QED BY <4>1, <4>2
    <3>3. live \in [Regions -> [Subdirs -> Maybe(Rows)]]
      <4>1. [r \in Regions |-> [d \in Subdirs |-> live[r][d]]] \in [Regions -> [Subdirs -> Maybe(Rows)]]
        BY <3>1
      <4>. QED BY <4>1, <3>2
    <3>4. processed \in [Regions -> Maybe(Stats)]
      <4>1. ASSUME NEW r \in Regions PROVE processed[r] \in Maybe(Stats)
        <5>1. ManifestStats(tables[r]) \in Stats
          BY <1>3, TablesFacts
        <5>2. <<>> \in Maybe(Stats) /\ <<ManifestStats(tables[r])>> \in Maybe(Stats)
          BY <5>1, MaybeFacts
        <5>. QED BY <5>2, <1>5
      <4>2. processed = [r \in Regions |-> processed[r]]
        BY <1>1
      <4>. QED BY <4>1, <4>2
    <3>5. core \in [Regions -> Maybe(Rows)]
      <4>1. ASSUME NEW r \in Regions PROVE core[r] \in Maybe(Rows)
        <5>1. CoreHashes(tables[r]) \in Rows
          BY <1>3, TablesFacts
        <5>2. <<>> \in Maybe(Rows) /\ <<CoreHashes(tables[r])>> \in Maybe(Rows)
          BY <5>1, MaybeFacts
        <5>. QED BY <5>2, <1>5
      <4>2. core = [r \in Regions |-> core[r]]
        BY <1>1
      <4>. QED BY <4>1, <4>2
    <3>6. quarantine \in [Regions -> [Subdirs -> Maybe(Rows) \cup {Torn}]]
      BY <1>7, MaybeFacts
    <3>7. owed \in [Regions -> SUBSET Owable]
      BY <1>7
    <3>. QED BY <3>3, <3>4, <3>5, <3>6, <3>7, <1>7 DEF DiskTypeOK
  <2>2. QueueTypeOK
    <3>1. hub \subseteq Regions
      BY <1>1, Constants
    <3>. QED BY <3>1, <1>7 DEF QueueTypeOK
  <2>3. RunTypeOK
    <3>1. at \in (1..Len(Contracts)) \X (1..Len(Children) + 1)
      BY <1>7, ContractFacts, Constants
    <3>2. 0 \in 0..MaxEdits /\ 0 \in 0..MaxRuns /\ 0 \in 0..MaxKills
      BY Constants
    <3>. QED BY <3>1, <3>2, <1>7, MaybeFacts, Constants DEF RunTypeOK, Steps
  <2>. QED BY <2>1, <2>2, <2>3, TypeParts
<1>9. TablesInv
  <2>1. Parent \in Regions /\ Parent \notin ChildSet /\ ChildSet \subseteq Regions
    BY Constants
  <2>2. /\ HasFiles(Parent) /\ processed[Parent] # <<>> /\ core[Parent] # <<>>
    BY <1>5, <1>6 DEF HasFiles
  <2>3. \A d \in Subdirs : TablesOf(Parent)[d] = tables[Parent][d]
    BY <1>5, <1>6 DEF TablesOf
  <2>4. OwnedByParent(TablesOf(Parent))
    BY <2>1, <2>3, <1>3, ContractFacts DEF OwnedByParent
  <2>5. ASSUME NEW r \in Regions, NEW d \in Subdirs, live[r][d] # <<>>
        PROVE  DOMAIN live[r][d][1] = keys[r]
    <3>1. live[r][d] = <<tables[r][d]>>
      BY <2>5, <1>5
    <3>2. live[r][d][1] = tables[r][d]
      BY <3>1
    <3>. QED BY <3>2, <1>3
  <2>6. "polygons" \in Subdirs /\ "polygon_articles" \in Subdirs
    BY ContractFacts
  <2>. QED BY <2>1, <2>2, <2>4, <2>5, <2>6 DEF TablesInv
<1>11. FactsInv
  <2>1. "polygons" \in Subdirs /\ "facts" \in Subdirs
    BY ContractFacts
  <2>2. ASSUME NEW r \in Regions, NEW d \in Subdirs, live[r][d] # <<>>
        PROVE  DOMAIN live[r][d][1] = keys[r]
    <3>1. live[r][d] = <<tables[r][d]>>
      BY <2>2, <1>5
    <3>2. live[r][d][1] = tables[r][d]
      BY <3>1
    <3>. QED BY <3>2, <1>3
  <2>. QED BY <2>1, <2>2 DEF FactsInv
<1>10. /\ RuleInv /\ MergeInv /\ WorkInv /\ StagedInv /\ InstalledInv /\ OnlyCutShortStale
       /\ PublishedInv /\ CleanInv /\ CleanRunRetires
  BY <1>7 DEF RuleInv, MergeInv, WorkInv, Working, StagedInv, InstalledInv, Preparing,
              OnlyCutShortStale, PublishedInv, CleanInv, CleanRunRetires
<1>. QED BY <1>8, <1>9, <1>10, <1>11 DEF IInv

\* A step that changes nothing.
LEMMA StutterIInv == ASSUME IInv, UNCHANGED vars PROVE IInv'
<1>0. /\ live' = live /\ sound' = sound /\ quarantine' = quarantine /\ retired' = retired
      /\ processed' = processed /\ core' = core /\ owed' = owed /\ queue' = queue /\ hub' = hub
      /\ pc' = pc /\ push' = push /\ region' = region /\ staged' = staged /\ at' = at
      /\ present' = present /\ failed' = failed /\ clean' = clean
      /\ clock' = clock /\ runs' = runs /\ kills' = kills
  BY DEF vars, disk, mem
<1>1. TypeOK'
  BY <1>0 DEF IInv, TypeOK
<1>2. RuleInv' /\ StagedInv' /\ InstalledInv'
  BY <1>0 DEF IInv, RuleInv, StagedInv, InstalledInv, Preparing, OwnedByParent, CoveredBy, FactsOf,
              ManifestStats, CoreHashes
<1>3. TablesInv' /\ FactsInv' /\ MergeInv' /\ WorkInv'
  BY <1>0 DEF IInv, TablesInv, HasFiles, TablesOf, OwnedByParent, FactsInv, MergeInv, WorkInv, Working
<1>4. OnlyCutShortStale' /\ PublishedInv' /\ CleanInv' /\ CleanRunRetires'
  BY <1>0 DEF IInv, OnlyCutShortStale, TablesOf, ManifestStats, CoreHashes, PublishedInv,
              CleanInv, Working, CleanRunRetires
<1>. QED BY <1>1, <1>2, <1>3, <1>4 DEF IInv

\* The invariant of the retirement: whatever is killed, processed again or fails to be
\* uploaded, a rule is retired as a whole (_persist_prepared_rule), what is staged covers
\* the children until their last file is removed (stage_rule, _remove_active_children),
\* installation proceeds table by table and manifest by manifest
\* (_quarantine_and_install, _update_pipeline_manifests), and in a clean run every
\* retired child that the Hub has is about to be deleted there.  Processing a region
\* again replaces its tables and entries one after the other (_replace_persistence_files,
\* _write_manifest_entry, write_sidecars), and what it has not come to is owed.
THEOREM Invariance == Spec => []IInv
<1>1. ASSUME IInv, Next PROVE IInv'
  <2>1. TypeOK'
    <3>1. DiskTypeOK' /\ QueueTypeOK' /\ RunTypeOK'
      BY <1>1, DiskTypeStep, QueueTypeStep, RunTypeStep
    <3>. QED BY <3>1 DEF TypeOK, DiskTypeOK, QueueTypeOK, RunTypeOK, Stats, Owable, Steps
  <2>. QED BY <1>1, <2>1, RuleStep, TablesStep, FactsStep, MergeStep, WorkStep, StagedStep,
              InstalledStep, ManifestsStep, PublishedStep, CleanFromInventory, CleanStep DEF IInv
<1>2. IInv /\ [Next]_vars => IInv'
  BY <1>1, StutterIInv
<1>. QED BY InitIInv, <1>2, PTL DEF Spec

\* Files, manifests, jobs and the state of a run keep their shape.
THEOREM TypeCorrect == Spec => []TypeOK
<1>1. IInv => TypeOK
  BY DEF IInv
<1>. QED BY Invariance, <1>1, PTL

\* A retirement is recorded beside statistics and hashes of the merged parent, and every
\* polygon it got has its facts; what is behind afterwards is what a later processing of
\* the parent has not come to or was killed before, or facts that were missing when the
\* tables were merged (_update_pipeline_manifests before _persist_prepared_rule).
THEOREM RetirementsHaveManifests == Spec => []OnlyCutShortStale
<1>1. IInv => OnlyCutShortStale
  BY DEF IInv
<1>. QED BY Invariance, <1>1, PTL

\* A push run that started with nothing queued and whose uploads all succeeded leaves no
\* retired child on the Hub (_containment_publications_for_remote,
\* enqueue_containment_retirement, _active_pbfs).
THEOREM CleanRunsRetire == Spec => []CleanRunRetires
<1>1. IInv => CleanRunRetires
  BY DEF IInv
<1>. QED BY Invariance, <1>1, PTL

\* No file of a child is removed unless the child is recorded as retired and every row of
\* the file is in the parent's table, at least as new, its links naming the parent's
\* polygons (stage_rule, _quarantine_and_install, _remove_active_children).
THEOREM RemovalIsLossless == Spec => RemovalLossless
<1>1. ASSUME IInv, Next, NEW c \in ChildSet, NEW d \in Subdirs, live[c][d] # <<>>, live'[c][d] = <<>>
      PROVE  c \in retired /\ Covered(c, d)
  <2>1. live' # live
    BY <1>1
  <2>0. /\ live \in [Regions -> [Subdirs -> Maybe(Rows)]] /\ c \in Regions /\ region \in Regions
        /\ "polygons" \in Subdirs /\ "polygon_articles" \in Subdirs /\ "facts" \in Subdirs
    BY <1>1, ContractFacts, Constants DEF IInv, TypeOK
  <2>2. CASE RemoveFile
    <3>1. /\ pc = "remove" /\ retired = ChildSet
          /\ \A x \in Subdirs : live[Parent][x] = <<staged[1][x]>>
          /\ CoveredBy(live[c][d][1], d, staged[1], owed[c])
      BY <1>1, <2>2 DEF RemoveFile, IInv, RuleInv, StagedInv, InstalledInv
    <3>2. \A x \in Subdirs : live[Parent][x][1] = staged[1][x]
      BY <3>1
    <3>3. Covered(c, d)
      BY <3>1, <3>2, ContractFacts DEF Covered, CoveredBy
    <3>. QED BY <3>1, <3>3
  <2>3. CASE InstallFile
    BY <1>1, <2>3, LiveSteps
  <2>4. ASSUME NEW r \in Regions, NEW x \in Subdirs, NEW rows, OneTable(r, x, <<rows>>) PROVE FALSE
    <3>1. \A y \in Regions, e \in Subdirs :
              live'[y][e] = IF y = r /\ e = x THEN <<rows>> ELSE live[y][e]
      BY <2>0, <2>4, OneTableFacts
    <3>2. live'[c][d] = <<rows>> \/ live'[c][d] = live[c][d]
      BY <2>0, <1>1, <3>1
    <3>. QED BY <3>2, <1>1, MaybeFacts
  <2>5. ASSUME NEW r \in Regions, NEW ks \in (SUBSET Keys) \ {{}}, NEW s \in BOOLEAN,
               PersistPolygons(r, ks, s)
        PROVE  FALSE
    <3>1. PICK tables \in Tables : Persisted(r, ks, tables)
      BY <1>1, <2>5, ProcessSteps
    <3>2. OneTable(r, "polygons", <<tables["polygons"]>>)
      BY <3>1 DEF Persisted
    <3>. QED BY <2>0, <2>4, <3>2
  <2>6. CASE PersistLinks \/ WriteSidecars
    <3>1. \/ OneTable(region, "polygon_articles", <<staged[1]["polygon_articles"]>>)
          \/ \E rows \in Rows : OneTable(region, "facts", <<rows>>)
      BY <1>1, <2>6, ProcessSteps
    <3>. QED BY <2>0, <2>4, <3>1
  <2>7. CASE StageRule \/ UpdateProcessedManifest \/ UpdateAugmentationManifest
             \/ WriteManifestEntry \/ WriteAugmentationEntry
    BY <2>1, <2>7 DEF StageRule, UpdateProcessedManifest, UpdateAugmentationManifest,
                      WriteManifestEntry, WriteAugmentationEntry
  <2>8. CASE UNCHANGED <<live, processed, core, owed>>
    BY <2>1, <2>8
  <2>. QED BY <1>1, <2>2, <2>3, <2>5, <2>6, <2>7, <2>8, QuietSteps DEF Next, Prepare, Process
<1>2. IInv /\ [Next]_vars =>
          [\A c \in ChildSet, d \in Subdirs :
               (live[c][d] # <<>> /\ live'[c][d] = <<>>) => c \in retired /\ Covered(c, d)]_vars
  BY <1>1
<1>. QED BY Invariance, <1>2, PTL DEF Spec, RemovalLossless

==============================================================================
