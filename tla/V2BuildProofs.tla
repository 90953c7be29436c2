---------------------------- MODULE V2BuildProofs ----------------------------
(***************************************************************************)
(* Proofs about V2Build and the index it searches, for every V1 dataset,   *)
(* every set of regions and polygons and any number of runs, failures and  *)
(* kills: a complete index is exact, an extraction yields its PBF, what is *)
(* reconciled is linked exactly, what is published is reconciled, and a    *)
(* run that ends normally covers every region.                             *)
(***************************************************************************)
EXTENDS V2Build, FiniteSetTheorems, WellFoundedInduction, TLAPS

------------------------------------------------------------------------------
(* The inductive invariant: the index *)

Row == [shard : Shards, version : 1..MaxVersion, group : 1..Groups]

\* What a row group of a shard is in the table for: the version indexed completely,
\* or as far as the scan of a version came.
Indexed(row) ==
    IF fileState[row.shard] # 0 THEN row.version = fileState[row.shard]
    ELSE row.version = progress[row.shard].version /\ row.group <= progress[row.shard].next

\* The table holds what file_state and scan_progress say, and a cached count is its own.
RowsInv ==
    /\ IsFiniteSet(rows) /\ rows = {row \in Row : Indexed(row)}
    /\ \A s \in Shards : progress[s].next > 0 => fileState[s] = 0
    /\ rowCount # NoCount => rowCount = CountDistinctDocuments(rows)

Current(s) == s \in EffectivePaths => fileState[s] = v1[s]

\* How far a synchronisation is: the shards before its place are indexed as they are.
ScanInv ==
    /\ index \in {"init", "stale"} => position = 1
    /\ index \in {"files", "scan"} => \A i \in 1..(position - 1) : Current(ShardSeq[i])
    /\ index = "scan" =>
          /\ position <= Len(ShardSeq) /\ ShardSeq[position] \in EffectivePaths
          /\ progress[ShardSeq[position]].version = v1[ShardSeq[position]]
          /\ fileState[ShardSeq[position]] = 0 /\ rowCount = NoCount
    /\ index = "ready" => rowCount # NoCount /\ \A s \in Shards : Current(s)

IndexInv == IndexTypeOK /\ RowsInv /\ ScanInv

------------------------------------------------------------------------------
(* The inductive invariant: the extraction *)

\* Some rows of a source, in its order, a row repeated only next to itself; as far as they
\* are numbered without a gap, every row of the source up to the last one is among them.
Traces(f, source) ==
    /\ \A i \in DOMAIN f : \E k \in 1..Len(source) : f[i] = source[k]
    /\ \A i, j \in DOMAIN f : \A k, l \in 1..Len(source) :
          i <= j /\ f[i] = source[k] /\ f[j] = source[l] => k <= l
    /\ \A i \in DOMAIN f : 1..i \subseteq DOMAIN f =>
          \A k, l \in 1..Len(source) :
              f[i] = source[k] /\ l <= k => \E h \in 1..i : f[h] = source[l]

Covers(f, n, source) == \A k \in 1..Len(source) : \E h \in 1..n : f[h] = source[k]

\* The chunks of a checkpoint trace the source it names; a complete mark accounts for all
\* of its rows, as long as no counted chunk was deleted.
Faithful(r, ck) ==
    LET source == PbfRows[r][ck.source]
    IN  /\ ck = [source |-> ck.source, complete |-> ck.complete, count |-> ck.count,
                 chunks |-> ck.chunks]
        /\ ck.source \in 0..Len(PbfRows[r])
        /\ DOMAIN ck.chunks \subseteq Nat /\ IsFiniteSet(DOMAIN ck.chunks)
        /\ ck.chunks = [i \in DOMAIN ck.chunks |-> ck.chunks[i]]
        /\ ck.source # 0 =>
              /\ Traces(ck.chunks, source)
              /\ ck.complete /\ 1..ck.count \subseteq DOMAIN ck.chunks
                    => Covers(ck.chunks, ck.count, source)

\* The checkpoint of a scan holds the rows in memory.
Follows(ck, version, seen) ==
    /\ ck.source = version /\ ~ck.complete
    /\ DOMAIN ck.chunks = 1..Len(seen) /\ \A i \in 1..Len(seen) : ck.chunks[i] = seen[i]

Phases == {"idle", "open", "scan", "append", "done", "failed"}

\* The rows in memory trace the current PBF, and the checkpoint follows them.
ExtractionInv ==
    LET r == extraction.region
        seen == extraction.rows
        ck == checkpoint[r]
    IN  /\ extraction = [region |-> r, phase |-> extraction.phase, rows |-> seen]
        /\ extraction.phase \in Phases
        /\ extraction.phase # "idle" => r \in Regions
        /\ extraction.phase \in {"scan", "append", "done"} =>
              seen \in Seq(Polygon) /\ Traces(seen, SourceRows(r))
        /\ extraction.phase = "append" => Len(seen) > 0
        /\ extraction.phase = "done" => Covers(seen, Len(seen), SourceRows(r))
        /\ extraction.phase \in {"scan", "append"} /\ ck.source # 0 => Follows(ck, pbf[r], seen)
        /\ extraction.phase = "scan" /\ ck.source # 0 => ck.count = Len(seen)

ScanningInv ==
    /\ pbf = [r \in Regions |-> pbf[r]] /\ \A r \in Regions : pbf[r] \in 1..Len(PbfRows[r])
    /\ checkpoint = [r \in Regions |-> checkpoint[r]]
    /\ \A r \in Regions : Faithful(r, checkpoint[r])
    /\ ExtractionInv

------------------------------------------------------------------------------
(* The inductive invariant: the region at hand and the files *)

IsContent(c) ==
    /\ c = [polygons |-> c.polygons, docs |-> c.docs, links |-> c.links, seen |-> c.seen,
            early |-> c.early]
    /\ UniqueIds(c.polygons)

\* What a reconciled region promises of its links.
ExactFor(c, p) ==
    IF p.ref \in c.seen THEN LinksOf(c, p) = {<<p.id, V1Doc(p.ref)>>}
    ELSE /\ Cardinality(LinksOf(c, p)) <= 1
         /\ \A l \in LinksOf(c, p) : l[2].title = p.ref
         /\ p.ref \in Pages => LinksOf(c, p) # {}
Exact(c) ==
    c.seen # {"unknown"} =>
        /\ \A p \in WithRef(c.polygons) : ExactFor(c, p) \/ p.ref \in c.early
        /\ \A l \in c.links : l[2] \in c.docs

Storing == {"sections", "fetch-sections", "write", "manifest", "clear"}
Merging == {"load", "match", "enrich", "rematch"}
Busy == Merging \cup Storing
Ended == {"cleanup", "closing", "idle"}

\* The region at hand: what was found, merged, and is to be written.
WorkInv ==
    /\ work = [region |-> work.region, mode |-> work.mode, found |-> work.found,
               polygons |-> work.polygons, queries |-> work.queries, matches |-> work.matches,
               results |-> work.results, content |-> work.content,
               reconciled |-> work.reconciled]
    /\ work.mode \in {"merge", "reconcile"} /\ work.reconciled \in BOOLEAN
    /\ pc \in Busy => work.region \in Regions
    /\ pc \in {"process"} \cup Merging => work.mode = "merge"
    /\ pc \in Merging => UniqueIds(work.found)
    /\ pc \in Merging \ {"load"} =>
          /\ work.polygons = MergedPolygons(work.region, work.found)
          /\ work.reconciled = (WithRef(work.polygons) = {})
    /\ pc \in Storing =>
          /\ IsContent(work.content) /\ (work.reconciled => Exact(work.content))
          /\ work.mode = "merge" =>
                work.content.polygons = MergedPolygons(work.region, work.found)
          /\ work.mode = "reconcile" => work.reconciled

\* The tables, the manifest entries and the Hub.
FilesInv ==
    /\ tables = [r \in Regions |-> tables[r]] /\ manifest = [r \in Regions |-> manifest[r]]
    /\ hub = [r \in Regions |-> hub[r]]
    /\ \A r \in Regions :
          /\ tables[r] = [i \in 1..4 |-> tables[r][i]]
          /\ \A i \in 1..4 : IsContent(tables[r][i].content)
          /\ manifest[r].reconciled \in BOOLEAN /\ hub[r].reconciled \in BOOLEAN
          /\ manifest[r] = NoEntry \/ manifest[r].content.file = "v2"
          /\ manifest[r].reconciled => Exact(manifest[r].content.content)

------------------------------------------------------------------------------
(* The inductive invariant: the caches of the index *)

\* The answer a complete index without rows of old shards owes to a title.
Right(t, title) == StaleRowsRemoved => title = (IF t \in V1Titles THEN t ELSE NoMatch)

\* An answer that is not early was read from the complete index, and is the right one.
Trusted(t, answer) == ~answer.early => IsReady /\ Right(t, answer.title)

\* So was the reference of a query under way.
Sound(t, query) ==
    /\ query.early => ~query.cached
    /\ query.cached => t \in DOMAIN queryCache
    /\ ~query.early => /\ IsReady
                       /\ ~query.cached => \/ query.row = NoRow /\ RowsFor(t) = {}
                                           \/ query.row # NoRow /\ query.row \in RowsFor(t)

CacheInv ==
    /\ \A t \in DOMAIN queryCache : Trusted(t, queryCache[t])
    /\ \A t \in DOMAIN rowCache : Trusted(t, rowCache[t])
    /\ pc \in {"match", "rematch"} => \A t \in DOMAIN work.queries : Sound(t, work.queries[t])
    /\ pc = "idle" => queryCache = NoCache /\ rowCache = NoCache

------------------------------------------------------------------------------
(* The inductive invariant: the plan *)

Processing  == pc \in {"process"} \cup Busy /\ work.mode = "merge"
Reconciling == pc = "reconcile" \/ (pc \in Storing /\ work.mode = "reconcile")
Publishing  == pc = "publish"

OnlyV1Refs(r) == WithRef(tables[r][1].content.polygons) \subseteq V1Polygons[r]
OnHub(r) == hub[r] # NoEntry

\* Every run: the lists name regions, the plan gives each an action.
ListsInv ==
    /\ pc \in {"process", "reconcile", "publish"} \cup Busy \cup Ended /\ at \in Nat \ {0}
    /\ extracted \in Seq(Regions) /\ provisional \in Seq(Regions) /\ pending \in Seq(Regions)
    /\ pc \in {"closing", "idle"} => extraction.phase = "idle"
    /\ pc = "idle" => index = "off"
    /\ Reconciling => index = "ready"
    /\ runs \in 0..MaxRuns
    /\ outcome = "complete" => pc \in Ended

\* A region is behind the place of the plan once its tables are installed, and it is on
\* the Hub or on its way there.
Behind(i) == i < at \/ (i = at /\ pc = "clear")
Handled(r) == ArtifactsCurrent(r) /\ (OnHub(r) \/ r \in Range(pending) \cup Range(extracted))

\* The others are in no list, and what the plan found of them is still so.
Untouched(r) == r \notin Range(extracted) \cup Range(pending) \cup Range(provisional)
Ahead(i) == i > at \/ (i = at /\ pc \notin Busy)
AsPlanned(i) ==
    LET r == RegionSeq[i]
    IN  /\ plan[i] \in {"extract", "reconcile", "publish", "skip"}
        /\ plan[i] # "extract" => ArtifactsCurrent(r)
        /\ plan[i] = "publish" => manifest[r].reconciled
        /\ plan[i] = "skip" => OnHub(r)

Covered(r) == r \in Range(provisional) \/ OnlyV1Refs(r)

ProcessInv ==
    Processing =>
        /\ DOMAIN plan = DOMAIN RegionSeq /\ at <= Len(RegionSeq) + 1
        /\ pc \in Busy => at <= Len(RegionSeq) /\ work.region = RegionSeq[at]
        /\ \A i \in 1..Len(RegionSeq) :
              /\ Behind(i) => Handled(RegionSeq[i])
              /\ i >= at /\ ~Behind(i) => Untouched(RegionSeq[i])
              /\ Ahead(i) => AsPlanned(i)
        /\ \A r \in Range(pending) : manifest[r].reconciled
        /\ \A r \in Range(extracted) : Covered(r)

\* From then on every region is installed; the provisional ones are reconciled in turn,
\* then the extracted ones committed in turn.
FinalInv ==
    Reconciling \/ Publishing =>
        /\ \A r \in Regions : ArtifactsCurrent(r) \/ (pc = "manifest" /\ r = work.region)
        /\ \A r \in Regions : OnHub(r) \/ r \in Range(extracted)
        /\ \A r \in Range(extracted) : Covered(r)
        /\ Reconciling => \A j \in 1..Len(provisional) : Behind(j) =>
                              manifest[provisional[j]].reconciled
        /\ Reconciling /\ pc \in Storing =>
              at <= Len(provisional) /\ work.region = provisional[at]
        /\ Publishing => /\ \A r \in Range(provisional) : manifest[r].reconciled
                         /\ \A j \in 1..Len(extracted) : j < at => OnHub(extracted[j])

\* Before the manifest entry is written, the tables are what it will describe.
InstalledInv == pc = "manifest" => \A i \in 1..4 : tables[work.region][i] = Written(work.content)

PlanInv ==
    /\ ListsInv /\ InstalledInv /\ ProcessInv /\ FinalInv
    /\ PublishedReconciled /\ CompleteRunCovers

IInv == IndexInv /\ ScanningInv /\ WorkInv /\ FilesInv /\ CacheInv /\ PlanInv

------------------------------------------------------------------------------
(* The index *)

\* The constants of the index, in the form the steps need.
LEMMA IndexConstants ==
    /\ ShardSeq \in Seq(Shards) /\ Len(ShardSeq) \in Nat
    /\ \A i \in 1..Len(ShardSeq) : ShardSeq[i] \in Shards
    /\ \A s \in Shards : \E i \in 1..Len(ShardSeq) : ShardSeq[i] = s
    /\ Groups \in Nat \ {0} /\ MaxVersion \in Nat \ {0}
    /\ InitialV1 \subseteq [Shards -> 0..MaxVersion]
    /\ TitleAt \in [Shards -> [1..MaxVersion -> [1..Groups -> Titles]]]
    /\ NoMatch \notin Titles
<1>1. /\ ShardSeq \in Seq(Shards) /\ Groups \in Nat \ {0} /\ MaxVersion \in Nat \ {0}
      /\ InitialV1 \subseteq [Shards -> 0..MaxVersion]
      /\ TitleAt \in [Shards -> [1..MaxVersion -> [1..Groups -> Titles]]]
      /\ NoMatch \notin Titles
  BY IndexAssumption
<1>2. DOMAIN ShardSeq = 1..Len(ShardSeq) /\ Len(ShardSeq) \in Nat
  BY <1>1
<1>3. \A s \in Shards : \E i \in 1..Len(ShardSeq) : ShardSeq[i] = s
  BY <1>2 DEF Shards, Range
<1>4. \A i \in 1..Len(ShardSeq) : ShardSeq[i] \in Shards
  BY <1>1
<1>. QED BY <1>1, <1>2, <1>3, <1>4

\* The types of the index, and what a step of it starts from.
LEMMA IndexTypes ==
    ASSUME IndexInv
    PROVE  /\ v1 \in [Shards -> Gone..MaxVersion] /\ rows \subseteq Row /\ IsFiniteSet(rows)
           /\ fileState \in [Shards -> 0..MaxVersion]
           /\ progress \in [Shards -> [version : 0..MaxVersion, next : 0..Groups]]
           /\ position \in 1..(Len(ShardSeq) + 1) /\ rowCount \in Nat \cup {NoCount}
           /\ EffectivePaths \subseteq Shards /\ \A s \in EffectivePaths : v1[s] \in 1..MaxVersion
           /\ index = "scan" => ShardSeq[position] \in EffectivePaths
<1>1. /\ v1 \in [Shards -> Gone..MaxVersion] /\ rows \subseteq Row
      /\ fileState \in [Shards -> 0..MaxVersion]
      /\ progress \in [Shards -> [version : 0..MaxVersion, next : 0..Groups]]
      /\ position \in 1..(Len(ShardSeq) + 1) /\ rowCount \in Nat \cup {NoCount}
  BY DEF IndexInv, IndexTypeOK, Row
<1>2. EffectivePaths \subseteq Shards /\ \A s \in EffectivePaths : v1[s] \in 1..MaxVersion
  BY <1>1, IndexConstants DEF EffectivePaths, Gone
<1>. QED BY <1>1, <1>2 DEF IndexInv, RowsInv, ScanInv

\* A finite table has a natural number of documents.
LEMMA CountIsNat ==
    ASSUME NEW table, IsFiniteSet(table) PROVE CountDistinctDocuments(table) \in Nat
<1>. DEFINE titles == {TitleOf(row) : row \in table}
           title == [row \in table |-> TitleOf(row)]
<1>1. title \in Surjection(table, titles)
  BY DEF Surjection
<1>2. IsFiniteSet(titles)
  BY <1>1, FS_Surjection
<1>. QED BY <1>2, FS_CardinalityType DEF CountDistinctDocuments

\* What a step of V2Build does to the index.
Kept == UNCHANGED <<v1, rows, fileState, progress, rowCount>>
IndexMove ==
    \/ UNCHANGED indexVars
    \/ IndexStep \/ IndexFails
    \/ Kept /\ UNCHANGED <<index, position>> /\ stop' = TRUE
    \/ Kept /\ index' \in {"init", "off"} /\ position' = 1 /\ stop' = FALSE
    \/ index = "off" /\ \E s \in Shards : V1Changes(s)

\* Every step keeps the types of the index.
LEMMA IndexTypeStep ==
    ASSUME IndexInv, IndexMove PROVE IndexTypeOK'
<1>1. /\ IsFiniteSet(rows)
      /\ EffectivePaths \subseteq Shards /\ \A s \in EffectivePaths : v1[s] \in 1..MaxVersion
      /\ index = "scan" => ShardSeq[position] \in EffectivePaths
  BY IndexTypes
<1>2. Len(ShardSeq) \in Nat /\ Groups \in Nat \ {0} /\ MaxVersion \in Nat \ {0}
  BY IndexConstants
<1>3. /\ v1 \in [Shards -> Gone..MaxVersion]
      /\ progress \in [Shards -> [version : 0..MaxVersion, next : 0..Groups]]
      /\ IndexTypeOK
  BY DEF IndexInv, IndexTypeOK
<1>. USE DEF NoCount, NoProgress, Gone
<1>4. CASE UNCHANGED indexVars
  BY <1>3, <1>4 DEF indexVars, IndexTypeOK
<1>5. CASE IndexStep
  <2>1. CASE InitializeSchema \/ StopScan
    BY <1>3, <2>1 DEF InitializeSchema, StopScan, IndexTypeOK
  <2>2. CASE RemoveStalePaths
    BY <1>2, <1>3, <2>2 DEF RemoveStalePaths, IndexTypeOK
  <2>3. CASE FinishSync
    BY <1>1, <1>3, <2>3, CountIsNat DEF FinishSync, IndexTypeOK
  <2>4. ASSUME NEW s \in Shards, UnchangedShard(s) PROVE IndexTypeOK'
    BY <1>2, <1>3, <2>4 DEF UnchangedShard, AtShard, IndexTypeOK
  <2>5. ASSUME NEW s \in Shards, PrepareShard(s) PROVE IndexTypeOK'
    <3>. DEFINE start == ResumableRowGroup(s)
    <3>1. v1[s] \in 1..MaxVersion /\ start \in 0..Groups
      BY <1>1, <1>2, <1>3, <2>5 DEF PrepareShard, ResumableRowGroup
    <3>2. /\ rows' \subseteq rows /\ rowCount' = NoCount /\ index' = "scan"
          /\ fileState' = fileState \/ fileState' = [fileState EXCEPT ![s] = 0]
          /\ progress' = [progress EXCEPT ![s] = [version |-> v1[s], next |-> start]]
          /\ UNCHANGED <<v1, position, stop>>
      BY <2>5 DEF PrepareShard
    <3>. HIDE DEF start
    <3>3. [version |-> v1[s], next |-> start] \in [version : 0..MaxVersion, next : 0..Groups]
      BY <1>2, <3>1
    <3>4. progress' \in [Shards -> [version : 0..MaxVersion, next : 0..Groups]]
      BY <1>3, <3>2, <3>3
    <3>5. fileState' \in [Shards -> 0..MaxVersion]
      <4>1. fileState \in [Shards -> 0..MaxVersion] /\ 0 \in 0..MaxVersion
        BY <1>2, <1>3 DEF IndexTypeOK
      <4>2. [fileState EXCEPT ![s] = 0] \in [Shards -> 0..MaxVersion]
        BY <4>1
      <4>. QED BY <3>2, <4>1, <4>2
    <3>6. v1' = v1 /\ position' = position /\ stop' = stop
      BY <3>2
    <3>. QED BY <1>3, <3>2, <3>4, <3>5, <3>6 DEF IndexTypeOK
  <2>6. ASSUME NEW s \in Shards, CommitIndexedRowGroup(s) PROVE IndexTypeOK'
    <3>1. v1[s] \in 1..MaxVersion /\ progress[s].next + 1 \in 1..Groups
      BY <1>1, <1>2, <1>3, <2>6 DEF CommitIndexedRowGroup, AtShard
    <3>2. [shard |-> s, version |-> v1[s], group |-> progress[s].next + 1]
             \in [shard : Shards, version : 1..MaxVersion, group : 1..Groups]
      BY <3>1
    <3>3. rows' \subseteq [shard : Shards, version : 1..MaxVersion, group : 1..Groups]
      BY <1>3, <2>6, <3>2 DEF CommitIndexedRowGroup, IndexTypeOK
    <3>4. progress' \in [Shards -> [version : 0..MaxVersion, next : 0..Groups]]
      <4>1. progress' = [progress EXCEPT ![s].next = progress[s].next + 1]
        BY <2>6 DEF CommitIndexedRowGroup
      <4>2. progress[s].next + 1 \in 0..Groups
        BY <1>2, <1>3, <3>1
      <4>. QED BY <1>3, <4>1, <4>2
    <3>. QED BY <1>3, <2>6, <3>3, <3>4 DEF CommitIndexedRowGroup, IndexTypeOK
  <2>7. ASSUME NEW s \in Shards, FinalizeShard(s) PROVE IndexTypeOK'
    BY <1>1, <1>2, <1>3, <2>7 DEF FinalizeShard, AtShard, IndexTypeOK
  <2>. QED BY <1>5, <2>1, <2>2, <2>3, <2>4, <2>5, <2>6, <2>7 DEF IndexStep
<1>6. CASE IndexFails
  BY <1>3, <1>6 DEF IndexFails, IndexTypeOK
<1>7. CASE Kept /\ UNCHANGED <<index, position>> /\ stop' = TRUE
  BY <1>3, <1>7 DEF Kept, IndexTypeOK
<1>8. CASE Kept /\ index' \in {"init", "off"} /\ position' = 1 /\ stop' = FALSE
  <2>1. position' \in 1..(Len(ShardSeq) + 1)
    BY <1>2, <1>8
  <2>2. stop' \in BOOLEAN
    BY <1>8
  <2>. QED BY <1>3, <1>8, <2>1, <2>2 DEF Kept, IndexTypeOK
<1>9. ASSUME NEW s \in Shards, index = "off", V1Changes(s) PROVE IndexTypeOK'
  <2>1. v1' \in [Shards -> Gone..MaxVersion]
    <3>1. PICK n \in Gone..MaxVersion : v1' = [v1 EXCEPT ![s] = n]
      BY <1>2, <1>9 DEF V1Changes
    <3>. QED BY <1>3, <3>1
  <2>. QED BY <1>3, <1>9, <2>1 DEF V1Changes, IndexTypeOK
<1>. QED BY <1>4, <1>5, <1>6, <1>7, <1>8, <1>9 DEF IndexMove

\* Every step keeps the table in agreement with file_state and scan_progress.
LEMMA RowsStep ==
    ASSUME IndexInv, IndexMove PROVE RowsInv'
<1>1. /\ v1 \in [Shards -> Gone..MaxVersion] /\ rows \subseteq Row /\ IsFiniteSet(rows)
      /\ fileState \in [Shards -> 0..MaxVersion]
      /\ progress \in [Shards -> [version : 0..MaxVersion, next : 0..Groups]]
      /\ EffectivePaths \subseteq Shards /\ \A s \in EffectivePaths : v1[s] \in 1..MaxVersion
  BY IndexTypes
<1>2. Groups \in Nat \ {0} /\ MaxVersion \in Nat \ {0}
  BY IndexConstants
<1>3. /\ \A row \in Row : row \in rows <=> Indexed(row)
      /\ \A s \in Shards : progress[s].next > 0 => fileState[s] = 0
      /\ rowCount # NoCount => rowCount = CountDistinctDocuments(rows)
      /\ RowsInv /\ ScanInv
  BY DEF IndexInv, RowsInv
<1>4. \A row \in Row : /\ row.shard \in Shards /\ row.version \in 1..MaxVersion
                       /\ row.group \in 1..Groups
  BY DEF Row
<1>5. ASSUME UNCHANGED <<rows, fileState, progress, rowCount>> PROVE RowsInv'
  BY <1>3, <1>5 DEF RowsInv, Indexed, CountDistinctDocuments, TitleOf
<1>6. ASSUME IsFiniteSet(rows'), rows' \subseteq Row,
             \A row \in Row : row \in rows' <=> Indexed(row)',
             \A s \in Shards : progress'[s].next > 0 => fileState'[s] = 0,
             rowCount' = NoCount \/ (rowCount' = rowCount /\ UNCHANGED rows)
      PROVE  RowsInv'
  <2>1. rows' = {row \in Row : Indexed(row)'}
    BY <1>6
  <2>2. rowCount' # NoCount => rowCount' = CountDistinctDocuments(rows)'
    BY <1>3, <1>6 DEF CountDistinctDocuments, TitleOf
  <2>. QED BY <1>6, <2>1, <2>2 DEF RowsInv
<1>7. CASE IndexStep
  <2>1. CASE InitializeSchema \/ StopScan
    BY <1>5, <2>1 DEF InitializeSchema, StopScan
  <2>2. CASE RemoveStalePaths
    <3>1. IsFiniteSet(rows') /\ rows' \subseteq Row
      BY <1>1, <2>2, FS_Subset DEF RemoveStalePaths
    <3>2. \A row \in Row : row \in rows' <=> Indexed(row)'
      BY <1>1, <1>2, <1>3, <1>4, <2>2 DEF RemoveStalePaths, Indexed, NoProgress
    <3>3. \A s \in Shards : progress'[s].next > 0 => fileState'[s] = 0
      BY <1>1, <1>3, <2>2 DEF RemoveStalePaths, NoProgress
    <3>4. rowCount' = NoCount \/ (rowCount' = rowCount /\ UNCHANGED rows)
      BY <1>1, <2>2 DEF RemoveStalePaths
    <3>. QED BY <1>6, <3>1, <3>2, <3>3, <3>4
  <2>3. CASE FinishSync
    BY <1>3, <2>3 DEF FinishSync, RowsInv, Indexed, CountDistinctDocuments, TitleOf
  <2>4. ASSUME NEW s \in Shards, UnchangedShard(s) PROVE RowsInv'
    <3>1. UNCHANGED <<rows, fileState, rowCount>>
      BY <2>4 DEF UnchangedShard
    <3>2. \A row \in Row : row \in rows' <=> Indexed(row)'
      BY <1>1, <1>3, <1>4, <2>4, <3>1 DEF UnchangedShard, Indexed, NoProgress
    <3>3. \A q \in Shards : progress'[q].next > 0 => fileState'[q] = 0
      BY <1>1, <1>3, <2>4 DEF UnchangedShard, NoProgress
    <3>. QED BY <1>1, <1>6, <3>1, <3>2, <3>3
  <2>5. ASSUME NEW s \in Shards, PrepareShard(s) PROVE RowsInv'
    <3>1. IsFiniteSet(rows') /\ rows' \subseteq Row
      BY <1>1, <2>5, FS_Subset DEF PrepareShard
    <3>2. CASE ResumableRowGroup(s) = 0
      <4>1. \A row \in Row : row \in rows' <=> Indexed(row)'
        BY <1>1, <1>2, <1>3, <1>4, <2>5, <3>2 DEF PrepareShard, Indexed
      <4>2. \A q \in Shards : progress'[q].next > 0 => fileState'[q] = 0
        BY <1>1, <1>3, <2>5, <3>2 DEF PrepareShard
      <4>. QED BY <1>6, <2>5, <3>1, <4>1, <4>2 DEF PrepareShard
    <3>3. CASE ResumableRowGroup(s) # 0
      <4>1. ResumableRowGroup(s) = progress[s].next /\ progress[s].version = v1[s]
        BY <3>3 DEF ResumableRowGroup
      <4>2. UNCHANGED <<rows, fileState>>
        BY <2>5, <3>3 DEF PrepareShard
      <4>3. progress' = [progress EXCEPT ![s] = [version |-> v1[s], next |-> progress[s].next]]
        BY <2>5, <4>1 DEF PrepareShard
      <4>4. \A q \in Shards : /\ progress'[q].version = progress[q].version
                              /\ progress'[q].next = progress[q].next
        BY <1>1, <4>1, <4>3
      <4>5. \A row \in Row : row \in rows' <=> Indexed(row)'
        BY <1>3, <1>4, <4>2, <4>4 DEF Indexed
      <4>6. \A q \in Shards : progress'[q].next > 0 => fileState'[q] = 0
        BY <1>3, <4>2, <4>4
      <4>. QED BY <1>6, <2>5, <3>1, <4>5, <4>6 DEF PrepareShard
    <3>. QED BY <3>2, <3>3
  <2>6. ASSUME NEW s \in Shards, CommitIndexedRowGroup(s) PROVE RowsInv'
    <3>. DEFINE new == [shard |-> s, version |-> v1[s], group |-> progress[s].next + 1]
    <3>1. /\ progress[s].version = v1[s] /\ fileState[s] = 0 /\ rowCount = NoCount
          /\ progress[s].next < Groups /\ s \in EffectivePaths
          /\ rows' = rows \cup {new} /\ UNCHANGED <<fileState, rowCount>>
          /\ progress' = [progress EXCEPT ![s].next = progress[s].next + 1]
      BY <1>3, <2>6 DEF CommitIndexedRowGroup, AtShard, ScanInv
    <3>2. new \in Row
      BY <1>1, <1>2, <3>1 DEF Row
    <3>3. IsFiniteSet(rows')
      BY <1>1, <3>1, FS_AddElement
    <3>4. /\ progress'[s].version = v1[s] /\ progress'[s].next = progress[s].next + 1
          /\ \A q \in Shards \ {s} : progress'[q] = progress[q]
      BY <1>1, <3>1
    <3>5. ASSUME NEW row \in Row PROVE row \in rows' <=> Indexed(row)'
      <4>1. CASE row.shard # s
        <5>1. row # new
          BY <4>1
        <5>. QED BY <1>3, <1>4, <3>1, <3>4, <4>1, <5>1 DEF Indexed
      <4>2. CASE row.shard = s
        <5>1. row = new <=> row.version = v1[s] /\ row.group = progress[s].next + 1
          BY <4>2 DEF Row
        <5>2. row \in rows <=> row.version = v1[s] /\ row.group <= progress[s].next
          BY <1>3, <3>1, <4>2 DEF Indexed
        <5>3. Indexed(row)' <=> row.version = v1[s] /\ row.group <= progress[s].next + 1
          BY <3>1, <3>4, <4>2 DEF Indexed
        <5>4. row \in rows' <=> row \in rows \/ row = new
          BY <3>1
        <5>5. row.group \in Nat /\ progress[s].next \in Nat
          BY <1>1, <1>4
        <5>. HIDE DEF new
        <5>. QED BY <5>1, <5>2, <5>3, <5>4, <5>5
      <4>. QED BY <4>1, <4>2
    <3>6. \A q \in Shards : progress'[q].next > 0 => fileState'[q] = 0
      BY <1>3, <3>1, <3>4
    <3>. QED BY <1>1, <1>6, <3>1, <3>2, <3>3, <3>5, <3>6
  <2>7. ASSUME NEW s \in Shards, FinalizeShard(s) PROVE RowsInv'
    <3>1. /\ progress[s].version = v1[s] /\ fileState[s] = 0 /\ progress[s].next = Groups
          /\ s \in EffectivePaths /\ UNCHANGED <<rows, rowCount>>
          /\ fileState' = [fileState EXCEPT ![s] = v1[s]]
          /\ progress' = [progress EXCEPT ![s] = NoProgress]
      BY <1>3, <2>7 DEF FinalizeShard, AtShard, ScanInv
    <3>2. \A row \in Row : row \in rows' <=> Indexed(row)'
      BY <1>1, <1>2, <1>3, <1>4, <3>1 DEF Indexed
    <3>3. \A q \in Shards : progress'[q].next > 0 => fileState'[q] = 0
      BY <1>1, <1>3, <3>1 DEF NoProgress
    <3>. QED BY <1>1, <1>6, <3>1, <3>2, <3>3
  <2>. QED BY <1>7, <2>1, <2>2, <2>3, <2>4, <2>5, <2>6, <2>7 DEF IndexStep
<1>. QED BY <1>5, <1>7 DEF IndexMove, IndexFails, Kept, V1Changes, indexVars

\* Every step keeps the synchronisation's account of the shards behind it.
LEMMA ScanStep ==
    ASSUME IndexInv, IndexMove PROVE ScanInv'
<1>1. /\ v1 \in [Shards -> Gone..MaxVersion]
      /\ fileState \in [Shards -> 0..MaxVersion]
      /\ progress \in [Shards -> [version : 0..MaxVersion, next : 0..Groups]]
      /\ EffectivePaths \subseteq Shards /\ \A s \in EffectivePaths : v1[s] \in 1..MaxVersion
      /\ position \in 1..(Len(ShardSeq) + 1) /\ IsFiniteSet(rows)
  BY IndexTypes
<1>2. /\ \A i \in 1..Len(ShardSeq) : ShardSeq[i] \in Shards
      /\ \A s \in Shards : \E i \in 1..Len(ShardSeq) : ShardSeq[i] = s
      /\ Len(ShardSeq) \in Nat
  BY IndexConstants
<1>3. /\ \A s \in Shards : progress[s].next > 0 => fileState[s] = 0
      /\ ScanInv
  BY DEF IndexInv, RowsInv
<1>4. ASSUME v1' = v1 PROVE EffectivePaths' = EffectivePaths
  BY <1>4 DEF EffectivePaths
<1>5. CASE UNCHANGED indexVars
  BY <1>3, <1>4, <1>5 DEF indexVars, ScanInv, Current
<1>6. CASE IndexStep
  <2>1. CASE InitializeSchema \/ StopScan
    BY <1>3, <2>1 DEF InitializeSchema, StopScan, ScanInv
  <2>2. CASE RemoveStalePaths
    BY <1>3, <2>2 DEF RemoveStalePaths, ScanInv
  <2>3. CASE FinishSync
    <3>1. /\ \A i \in 1..Len(ShardSeq) : Current(ShardSeq[i])
          /\ rowCount' # NoCount /\ index' = "ready" /\ UNCHANGED <<v1, fileState>>
      <4>1. CountDistinctDocuments(rows) # NoCount
        BY <1>1, CountIsNat DEF NoCount
      <4>2. 1..Len(ShardSeq) \subseteq 1..(position - 1)
        BY <1>1, <1>2, <2>3 DEF FinishSync
      <4>. QED BY <1>3, <2>3, <4>1, <4>2 DEF FinishSync, ScanInv
    <3>2. \A s \in Shards : Current(s)'
      BY <1>2, <1>4, <3>1 DEF Current
    <3>. QED BY <3>1, <3>2 DEF ScanInv
  <2>4. ASSUME NEW s \in Shards, UnchangedShard(s) PROVE ScanInv'
    <3>1. /\ index' = "files" /\ UNCHANGED <<v1, fileState>> /\ position' = position + 1
          /\ Current(s) /\ ShardSeq[position] = s
          /\ \A i \in 1..(position - 1) : Current(ShardSeq[i])
      BY <1>3, <2>4 DEF UnchangedShard, AtShard, Current, ScanInv
    <3>2. \A i \in 1..(position' - 1) : Current(ShardSeq[i])
      BY <1>1, <3>1
    <3>3. \A i \in 1..(position' - 1) : Current(ShardSeq[i])'
      BY <1>4, <3>1, <3>2 DEF Current
    <3>. QED BY <3>1, <3>3 DEF ScanInv
  <2>5. ASSUME NEW s \in Shards, PrepareShard(s) PROVE ScanInv'
    <3>1. /\ index' = "scan" /\ UNCHANGED <<v1, position>> /\ rowCount' = NoCount
          /\ position <= Len(ShardSeq) /\ ShardSeq[position] = s /\ s \in EffectivePaths
          /\ fileState[s] # v1[s]
          /\ progress' = [progress EXCEPT
                            ![s] = [version |-> v1[s], next |-> ResumableRowGroup(s)]]
          /\ \A i \in 1..(position - 1) : Current(ShardSeq[i])
      BY <1>3, <2>5 DEF PrepareShard, AtShard, ScanInv
    <3>2. /\ fileState'[s] = 0 /\ progress'[s].version = v1[s]
          /\ \A q \in Shards \ {s} : fileState'[q] = fileState[q]
      BY <1>1, <1>3, <2>5, <3>1 DEF PrepareShard, ResumableRowGroup
    <3>3. ASSUME NEW i \in 1..(position - 1) PROVE Current(ShardSeq[i])'
      <4>1. ShardSeq[i] # s /\ ShardSeq[i] \in Shards
        BY <1>1, <1>2, <3>1 DEF Current
      <4>. QED BY <1>4, <3>1, <3>2, <4>1 DEF Current
    <3>. QED BY <1>4, <3>1, <3>2, <3>3 DEF ScanInv
  <2>6. ASSUME NEW s \in Shards, CommitIndexedRowGroup(s) PROVE ScanInv'
    <3>1. /\ index' = "scan" /\ index = "scan" /\ ShardSeq[position] = s
          /\ UNCHANGED <<v1, position, fileState, rowCount>>
          /\ progress'[s].version = progress[s].version
      BY <1>1, <2>6 DEF CommitIndexedRowGroup, AtShard
    <3>. QED BY <1>3, <1>4, <3>1 DEF ScanInv, Current
  <2>7. ASSUME NEW s \in Shards, FinalizeShard(s) PROVE ScanInv'
    <3>1. /\ index' = "files" /\ UNCHANGED v1 /\ position' = position + 1
          /\ fileState' = [fileState EXCEPT ![s] = v1[s]] /\ ShardSeq[position] = s
          /\ \A i \in 1..(position - 1) : Current(ShardSeq[i])
      BY <1>3, <2>7 DEF FinalizeShard, AtShard, ScanInv
    <3>2. ASSUME NEW i \in 1..(position' - 1) PROVE Current(ShardSeq[i])'
      <4>1. CASE i = position
        BY <1>1, <3>1, <4>1 DEF Current
      <4>2. CASE i # position
        <5>1. i \in 1..(position - 1) /\ i \in 1..Len(ShardSeq)
          BY <1>1, <1>2, <3>1, <4>2
        <5>. QED BY <1>1, <1>2, <1>4, <3>1, <5>1 DEF Current
      <4>. QED BY <4>1, <4>2
    <3>. QED BY <3>1, <3>2 DEF ScanInv
  <2>. QED BY <1>6, <2>1, <2>2, <2>3, <2>4, <2>5, <2>6, <2>7 DEF IndexStep
<1>7. CASE IndexFails
  BY <1>7 DEF IndexFails, ScanInv
<1>8. CASE Kept /\ UNCHANGED <<index, position>> /\ stop' = TRUE
  BY <1>3, <1>4, <1>8 DEF Kept, ScanInv, Current
<1>9. CASE Kept /\ index' \in {"init", "off"} /\ position' = 1 /\ stop' = FALSE
  BY <1>9 DEF ScanInv
<1>10. ASSUME NEW s \in Shards, index = "off", V1Changes(s) PROVE ScanInv'
  BY <1>10 DEF V1Changes, ScanInv
<1>. QED BY <1>5, <1>6, <1>7, <1>8, <1>9, <1>10 DEF IndexMove

\* What the invariant of the index says of a complete one.
LEMMA IndexExact ==
    ASSUME IndexInv PROVE CompleteIndexExact
<1>. SUFFICES ASSUME IsReady PROVE
        /\ {row \in rows : row.shard \in EffectivePaths}
             = UNION {{[shard |-> s, version |-> v1[s], group |-> g] : g \in 1..Groups}
                      : s \in EffectivePaths}
        /\ rowCount = CountDistinctDocuments(rows)
  BY DEF CompleteIndexExact
<1>1. /\ rows \subseteq Row /\ EffectivePaths \subseteq Shards
      /\ \A s \in EffectivePaths : v1[s] \in 1..MaxVersion
  BY IndexTypes
<1>2. \A s \in EffectivePaths : fileState[s] = v1[s]
  BY <1>1 DEF IndexInv, ScanInv, Current, IsReady
<1>3. ASSUME NEW row \in rows, row.shard \in EffectivePaths
      PROVE  \E s \in EffectivePaths : \E g \in 1..Groups :
                 row = [shard |-> s, version |-> v1[s], group |-> g]
  <2>1. row \in Row /\ Indexed(row)
    BY <1>3 DEF IndexInv, RowsInv
  <2>2. row.version = v1[row.shard]
    BY <1>1, <1>2, <1>3, <2>1 DEF Indexed
  <2>. QED BY <1>3, <2>1, <2>2 DEF Row
<1>4. ASSUME NEW s \in EffectivePaths, NEW g \in 1..Groups
      PROVE  [shard |-> s, version |-> v1[s], group |-> g] \in rows
  <2>. DEFINE row == [shard |-> s, version |-> v1[s], group |-> g]
  <2>1. row \in Row
    BY <1>1 DEF Row
  <2>2. Indexed(row)
    BY <1>1, <1>2, IndexConstants DEF Indexed
  <2>. QED BY <2>1, <2>2 DEF IndexInv, RowsInv
<1>5. \A x : x \in {row \in rows : row.shard \in EffectivePaths}
             <=> x \in UNION {{[shard |-> s, version |-> v1[s], group |-> g] : g \in 1..Groups}
                              : s \in EffectivePaths}
  BY <1>3, <1>4
<1>6. rowCount = CountDistinctDocuments(rows)
  BY DEF IndexInv, RowsInv, ScanInv, IsReady
<1>. QED BY <1>5, <1>6

\* A set of natural numbers has a smallest one.
LEMMA Smallest ==
    ASSUME NEW S \in SUBSET Nat, S # {} PROVE \E m \in S : \A n \in S : m <= n
<1>1. PICK m \in S : \A n \in S : ~ (<<n, m>> \in OpToRel(<, Nat))
  BY WFMin, NatLessThanWellFounded
<1>2. \A n \in S : ~ (n < m)
  BY <1>1 DEF OpToRel
<1>. QED BY <1>2

------------------------------------------------------------------------------
(* The extraction *)

\* The regions and their PBFs, in the form the steps need.
LEMMA BuildConstants ==
    /\ RegionSeq \in Seq(Regions) /\ Len(RegionSeq) \in Nat
    /\ DOMAIN RegionSeq = 1..Len(RegionSeq)
    /\ \A i \in 1..Len(RegionSeq) : RegionSeq[i] \in Regions
    /\ \A r \in Regions : \E i \in 1..Len(RegionSeq) : RegionSeq[i] = r
    /\ \A i, j \in 1..Len(RegionSeq) : RegionSeq[i] = RegionSeq[j] => i = j
    /\ NoRegion \notin Regions /\ NoRef \notin Titles /\ Pages \subseteq Titles
    /\ BatchSize \in Nat \ {0} /\ MaxRuns \in Nat
    /\ \A r \in Regions : V1Polygons[r] \subseteq Polygon /\ UniqueIds(V1Polygons[r])
<1>1. /\ RegionSeq \in Seq(Regions) /\ NoRegion \notin Regions /\ NoRef \notin Titles
      /\ Pages \subseteq Titles /\ BatchSize \in Nat \ {0} /\ MaxRuns \in Nat
      /\ \A i, j \in DOMAIN RegionSeq : RegionSeq[i] = RegionSeq[j] => i = j
      /\ \A r \in Regions : V1Polygons[r] \subseteq Polygon /\ UniqueIds(V1Polygons[r])
  BY BuildAssumption
<1>2. DOMAIN RegionSeq = 1..Len(RegionSeq) /\ Len(RegionSeq) \in Nat
  BY <1>1
<1>3. \A r \in Regions : \E i \in 1..Len(RegionSeq) : RegionSeq[i] = r
  BY <1>2 DEF Regions, Range
<1>4. \A i \in 1..Len(RegionSeq) : RegionSeq[i] \in Regions
  BY <1>1
<1>. QED BY <1>1, <1>2, <1>3, <1>4

\* A version of a PBF is a sequence of polygons of different ids.
LEMMA SourceFacts ==
    ASSUME NEW r \in Regions, NEW v \in 1..Len(PbfRows[r])
    PROVE  /\ PbfRows[r][v] \in Seq(Polygon) /\ Len(PbfRows[r][v]) \in Nat
           /\ DOMAIN PbfRows[r][v] = 1..Len(PbfRows[r][v])
           /\ \A i \in 1..Len(PbfRows[r][v]) : PbfRows[r][v][i] \in Polygon
           /\ \A i, j \in 1..Len(PbfRows[r][v]) :
                  PbfRows[r][v][i].id = PbfRows[r][v][j].id => i = j
<1>1. PbfRows[r] \in Seq(Seq(Polygon))
  BY BuildAssumption
<1>2. v \in DOMAIN PbfRows[r] /\ PbfRows[r][v] \in Seq(Polygon)
  BY <1>1
<1>3. /\ Len(PbfRows[r][v]) \in Nat /\ DOMAIN PbfRows[r][v] = 1..Len(PbfRows[r][v])
      /\ \A i \in 1..Len(PbfRows[r][v]) : PbfRows[r][v][i] \in Polygon
  BY <1>2
<1>4. \A i, j \in DOMAIN PbfRows[r][v] : PbfRows[r][v][i].id = PbfRows[r][v][j].id => i = j
  BY <1>2, BuildAssumption
<1>. QED BY <1>2, <1>3, <1>4

\* Every region has a PBF.
LEMMA PbfCounts == \A r \in Regions : Len(PbfRows[r]) \in Nat \ {0}
<1>1. \A r \in Regions : PbfRows[r] \in Seq(Seq(Polygon)) /\ Len(PbfRows[r]) > 0
  BY BuildAssumption
<1>. QED BY <1>1

\* Nothing, or a region that is to be opened.
Scheduled(e) ==
    e = IdleExtraction \/ \E r \in Regions : e = [region |-> r, phase |-> "open", rows |-> <<>>]

\* What _schedule_next yields.
LEMMA NextIsScheduled ==
    ASSUME NEW actions, DOMAIN actions = DOMAIN RegionSeq, NEW i \in Nat
    PROVE  Scheduled(NextExtraction(actions, i))
<1>. DEFINE later == {j \in DOMAIN actions : j > i /\ actions[j] = "extract"}
            first == CHOOSE k \in later : \A l \in later : k <= l
<1>1. CASE later = {}
  BY <1>1 DEF NextExtraction, Scheduled
<1>2. CASE later # {}
  <2>1. later \in SUBSET Nat /\ later \subseteq 1..Len(RegionSeq)
    BY BuildConstants
  <2>2. first \in later
    BY <1>2, <2>1, Smallest
  <2>3. RegionSeq[first] \in Regions
    BY <2>1, <2>2, BuildConstants
  <2>4. NextExtraction(actions, i)
          = [IdleExtraction EXCEPT !.region = RegionSeq[first], !.phase = "open"]
    BY <1>2 DEF NextExtraction
  <2>. QED BY <2>3, <2>4 DEF Scheduled, IdleExtraction
<1>. QED BY <1>1, <1>2

\* What a step of V2Build does to the checkpoints and the prefetch thread.
ScanMove ==
    \/ UNCHANGED <<pbf, checkpoint, extraction>>
    \/ ExtractionStep \/ ExtractionFails
    \/ UNCHANGED <<pbf, checkpoint>> /\ Scheduled(extraction')
    \/ /\ UNCHANGED <<pbf, extraction>>
       /\ \E r \in Regions : checkpoint' = [checkpoint EXCEPT ![r] = NoCheckpoint]
    \/ /\ UNCHANGED pbf /\ extraction' = IdleExtraction
       /\ \E r \in Regions : \E kept \in SUBSET DOMAIN checkpoint[r].chunks :
             checkpoint' = [checkpoint EXCEPT ![r].chunks = [i \in kept |-> @[i]]]
    \/ /\ UNCHANGED <<checkpoint, extraction>> /\ extraction.phase = "idle"
       /\ \E r \in Regions : pbf[r] < Len(PbfRows[r]) /\ pbf' = [pbf EXCEPT ![r] = @ + 1]

\* A checkpoint that an extraction of the current PBF can start from.
Usable(r, ck) ==
    LET n == Cardinality(DOMAIN ck.chunks)
    IN  /\ ck = [source |-> pbf[r], complete |-> ck.complete, count |-> ck.count,
                 chunks |-> ck.chunks]
        /\ n \in Nat /\ DOMAIN ck.chunks = 1..n /\ IsFiniteSet(DOMAIN ck.chunks)
        /\ ck.chunks = [i \in DOMAIN ck.chunks |-> ck.chunks[i]]
        /\ Traces(ck.chunks, SourceRows(r))
        /\ ck.complete => Covers(ck.chunks, n, SourceRows(r))

\* A new checkpoint is one, and so is a readable one of the same PBF.
LEMMA UsableCheckpoints ==
    ASSUME ScanningInv, NEW r \in Regions
    PROVE  /\ Usable(r, NewCheckpoint(r)) /\ ~NewCheckpoint(r).complete
           /\ Readable(checkpoint[r]) /\ checkpoint[r].source = pbf[r] => Usable(r, checkpoint[r])
<1>. DEFINE ck == checkpoint[r]
            source == SourceRows(r)
            n == Cardinality(DOMAIN ck.chunks)
<1>1. pbf[r] \in 1..Len(PbfRows[r]) /\ Faithful(r, ck)
  BY DEF ScanningInv
<1>2. Len(source) \in Nat /\ source = PbfRows[r][pbf[r]] /\ pbf[r] # 0
  BY <1>1, SourceFacts DEF SourceRows
<1>3. Usable(r, NewCheckpoint(r)) /\ ~NewCheckpoint(r).complete
  <2>1. NewCheckpoint(r) = [source |-> pbf[r], complete |-> FALSE, count |-> 0, chunks |-> <<>>]
    <3>1. \A x, b, c, d : [[source |-> 0, complete |-> b, count |-> c, chunks |-> d]
                             EXCEPT !.source = x]
                          = [source |-> x, complete |-> b, count |-> c, chunks |-> d]
      OBVIOUS
    <3>. QED BY <3>1, Zenon DEF NewCheckpoint, NoCheckpoint
  <2>2. DOMAIN NewCheckpoint(r).chunks = {} /\ Cardinality({}) = 0 /\ IsFiniteSet({})
    BY <2>1, FS_EmptySet
  <2>3. 1..0 = {}
    OBVIOUS
  <2>4. Traces(NewCheckpoint(r).chunks, SourceRows(r))
    BY <2>2 DEF Traces
  <2>. QED BY <2>1, <2>2, <2>3, <2>4 DEF Usable
<1>4. ASSUME Readable(ck), ck.source = pbf[r] PROVE Usable(r, ck)
  <2>1. /\ IsFiniteSet(DOMAIN ck.chunks) /\ Traces(ck.chunks, source)
        /\ ck.complete /\ 1..ck.count \subseteq DOMAIN ck.chunks
              => Covers(ck.chunks, ck.count, source)
        /\ ck = [source |-> pbf[r], complete |-> ck.complete, count |-> ck.count,
                 chunks |-> ck.chunks]
        /\ ck.chunks = [i \in DOMAIN ck.chunks |-> ck.chunks[i]]
    BY <1>1, <1>2, <1>4 DEF Faithful
  <2>2. n \in Nat
    BY <2>1, FS_CardinalityType
  <2>3. DOMAIN ck.chunks = 1..n /\ (ck.complete => ck.count = n)
    BY <1>4 DEF Readable
  <2>4. ck.complete => Covers(ck.chunks, n, source)
    BY <2>1, <2>3
  <2>. QED BY <2>1, <2>2, <2>3, <2>4 DEF Usable
<1>. QED BY <1>3, <1>4

\* What can follow the rows that were seen: a row of the source all of whose predecessors
\* were seen, and none of its successors.
Fits(f, n, row, source) ==
    \E k \in 1..Len(source) :
        /\ row = source[k]
        /\ \A l \in 1..Len(source) : l < k => \E h \in 1..n : f[h] = source[l]
        /\ \A i \in 1..n : \A l \in 1..Len(source) : f[i] = source[l] => l <= k

\* A row that fits may be appended.
LEMMA TracesGrow ==
    ASSUME NEW n \in Nat, NEW f, NEW g, NEW row, NEW source, Len(source) \in Nat,
           DOMAIN f = 1..n, Traces(f, source), Fits(f, n, row, source),
           \A i, j \in 1..Len(source) : source[i] = source[j] => i = j,
           DOMAIN g = 1..(n + 1), g[n + 1] = row, \A i \in 1..n : g[i] = f[i]
    PROVE  Traces(g, source)
<1>1. PICK k \in 1..Len(source) :
         /\ row = source[k]
         /\ \A l \in 1..Len(source) : l < k => \E h \in 1..n : f[h] = source[l]
         /\ \A i \in 1..n : \A l \in 1..Len(source) : f[i] = source[l] => l <= k
  BY DEF Fits
<1>2. \A i \in 1..(n + 1) : i \in 1..n \/ i = n + 1
  OBVIOUS
<1>3. \A i \in DOMAIN g : \E l \in 1..Len(source) : g[i] = source[l]
  <2>1. \A i \in 1..n : \E l \in 1..Len(source) : f[i] = source[l]
    BY DEF Traces
  <2>2. ASSUME NEW i \in 1..(n + 1) PROVE \E l \in 1..Len(source) : g[i] = source[l]
    <3>1. CASE i \in 1..n
      <4>1. g[i] = f[i]
        BY <3>1
      <4>. QED BY <2>1, <3>1, <4>1
    <3>2. CASE i = n + 1
      BY <1>1, <3>2
    <3>. QED BY <1>2, <3>1, <3>2
  <2>. QED BY <2>2
<1>4. ASSUME NEW i \in DOMAIN g, NEW j \in DOMAIN g, i <= j,
             NEW x \in 1..Len(source), NEW y \in 1..Len(source), g[i] = source[x], g[j] = source[y]
      PROVE  x <= y
  <2>1. CASE j \in 1..n
    <3>1. i \in 1..n /\ f[i] = source[x] /\ f[j] = source[y]
      BY <1>4, <2>1
    <3>. QED BY <1>4, <2>1, <3>1 DEF Traces
  <2>2. CASE j = n + 1
    <3>1. y = k
      BY <1>1, <1>4, <2>2
    <3>2. CASE i \in 1..n
      BY <1>1, <1>4, <3>1, <3>2
    <3>3. CASE i = n + 1
      BY <1>1, <1>4, <3>1, <3>3
    <3>. QED BY <1>2, <3>2, <3>3
  <2>. QED BY <1>2, <2>1, <2>2
<1>5. ASSUME NEW i \in DOMAIN g, NEW x \in 1..Len(source), NEW y \in 1..Len(source),
             g[i] = source[x], y <= x
      PROVE  \E h \in 1..i : g[h] = source[y]
  <2>1. CASE i \in 1..n
    <3>1. f[i] = source[x] /\ i \in DOMAIN f /\ 1..i \subseteq DOMAIN f
      BY <1>5, <2>1
    <3>2. PICK h \in 1..i : f[h] = source[y]
      BY <1>5, <3>1 DEF Traces
    <3>. QED BY <2>1, <3>2
  <2>2. CASE i = n + 1
    <3>1. x = k
      BY <1>1, <1>5, <2>2
    <3>2. CASE y < k
      <4>1. PICK h \in 1..n : f[h] = source[y]
        BY <1>1, <3>2
      <4>. QED BY <2>2, <4>1
    <3>3. CASE y = k
      BY <1>1, <2>2, <3>3
    <3>. QED BY <1>5, <3>1, <3>2, <3>3
  <2>. QED BY <1>2, <2>1, <2>2
<1>6. \A i, j \in DOMAIN g : \A x, y \in 1..Len(source) :
         i <= j /\ g[i] = source[x] /\ g[j] = source[y] => x <= y
  BY <1>4
<1>7. \A i \in DOMAIN g : \A x, y \in 1..Len(source) :
         g[i] = source[x] /\ y <= x => \E h \in 1..i : g[h] = source[y]
  BY <1>5
<1>. QED BY <1>3, <1>6, <1>7 DEF Traces

\* The rows that are left when others are taken away.
LEMMA TracesShrink ==
    ASSUME NEW f, NEW g, NEW source, Traces(f, source), DOMAIN g \subseteq DOMAIN f,
           \A i \in DOMAIN g : g[i] = f[i], DOMAIN f \subseteq Nat
    PROVE  Traces(g, source)
<1>1. /\ \A i \in DOMAIN g : \E k \in 1..Len(source) : g[i] = source[k]
      /\ \A i, j \in DOMAIN g : \A k, l \in 1..Len(source) :
            i <= j /\ g[i] = source[k] /\ g[j] = source[l] => k <= l
  BY DEF Traces
<1>2. ASSUME NEW i \in DOMAIN g, 1..i \subseteq DOMAIN g, NEW k \in 1..Len(source),
             NEW l \in 1..Len(source), g[i] = source[k], l <= k
      PROVE  \E h \in 1..i : g[h] = source[l]
  <2>1. PICK h \in 1..i : f[h] = source[l]
    BY <1>2 DEF Traces
  <2>. QED BY <1>2, <2>1
<1>. QED BY <1>1, <1>2 DEF Traces

\* The source of an extraction and the rows it has in memory.
LEMMA ScanFacts ==
    ASSUME ScanningInv, extraction.phase \in {"scan", "append", "done"}
    PROVE  LET r == extraction.region
               seen == extraction.rows
               source == SourceRows(r)
           IN  /\ r \in Regions /\ pbf[r] \in 1..Len(PbfRows[r]) /\ source = PbfRows[r][pbf[r]]
               /\ Len(source) \in Nat /\ DOMAIN source = 1..Len(source)
               /\ \A i \in 1..Len(source) : source[i] \in Polygon
               /\ \A i, j \in 1..Len(source) : source[i].id = source[j].id => i = j
               /\ \A i, j \in 1..Len(source) : source[i] = source[j] => i = j
               /\ seen \in Seq(Polygon) /\ Len(seen) \in Nat /\ DOMAIN seen = 1..Len(seen)
               /\ Traces(seen, source)
<1>. DEFINE r == extraction.region
            seen == extraction.rows
            source == SourceRows(r)
<1>1. r \in Regions /\ seen \in Seq(Polygon) /\ Traces(seen, source)
  BY DEF ScanningInv, ExtractionInv
<1>2. pbf[r] \in 1..Len(PbfRows[r]) /\ source = PbfRows[r][pbf[r]]
  BY <1>1 DEF ScanningInv, SourceRows
<1>3. /\ Len(source) \in Nat /\ DOMAIN source = 1..Len(source)
      /\ \A i \in 1..Len(source) : source[i] \in Polygon
      /\ \A i, j \in 1..Len(source) : source[i].id = source[j].id => i = j
  <2>1. \A v \in 1..Len(PbfRows[r]) :
           LET rs == PbfRows[r][v]
           IN  /\ Len(rs) \in Nat /\ DOMAIN rs = 1..Len(rs)
               /\ \A i \in 1..Len(rs) : rs[i] \in Polygon
               /\ \A i, j \in 1..Len(rs) : rs[i].id = rs[j].id => i = j
    BY <1>1, SourceFacts
  <2>. QED BY <1>2, <2>1
<1>4. \A i, j \in 1..Len(source) : source[i] = source[j] => i = j
  <2>. HIDE DEF source
  <2>. QED BY <1>3
<1>5. Len(seen) \in Nat /\ DOMAIN seen = 1..Len(seen)
  BY <1>1
<1>. QED BY <1>1, <1>2, <1>3, <1>4, <1>5

\* The first polygon that was not seen fits; when there is none, all were seen.
LEMMA NextRowFits ==
    ASSUME ScanningInv, extraction.phase = "scan"
    PROVE  LET seen == extraction.rows
               source == SourceRows(extraction.region)
           IN  /\ Unseen # {} => Fits(seen, Len(seen), NextRow, source) /\ NextRow \in Polygon
               /\ Unseen = {} => Covers(seen, Len(seen), source)
<1>. DEFINE seen == extraction.rows
            source == SourceRows(extraction.region)
            n == Len(seen)
<1>1. /\ Len(source) \in Nat /\ DOMAIN source = 1..Len(source)
      /\ \A i \in 1..Len(source) : source[i] \in Polygon
      /\ \A i, j \in 1..Len(source) : source[i].id = source[j].id => i = j
      /\ n \in Nat /\ DOMAIN seen = 1..n /\ Traces(seen, source)
  BY ScanFacts
<1>2. Unseen = {i \in DOMAIN source : \A j \in DOMAIN seen : seen[j].id # source[i].id}
  BY DEF Unseen
<1>3. NextRow = source[CHOOSE i \in Unseen : \A j \in Unseen : i <= j]
  BY DEF NextRow
<1>. HIDE DEF seen, source, n
<1>4. ASSUME NEW l \in 1..Len(source), l \notin Unseen PROVE \E h \in 1..n : seen[h] = source[l]
  <2>1. PICK h \in 1..n : seen[h].id = source[l].id
    BY <1>1, <1>2, <1>4
  <2>2. PICK m \in 1..Len(source) : seen[h] = source[m]
    BY <1>1, <2>1 DEF Traces
  <2>3. m = l
    BY <1>1, <2>1, <2>2
  <2>. QED BY <2>2, <2>3
<1>5. ASSUME Unseen # {} PROVE Fits(seen, n, NextRow, source) /\ NextRow \in Polygon
  <2>. DEFINE k == CHOOSE i \in Unseen : \A j \in Unseen : i <= j
  <2>1. Unseen \in SUBSET Nat
    BY <1>1, <1>2
  <2>2. k \in Unseen /\ \A j \in Unseen : k <= j
    BY <1>5, <2>1, Smallest
  <2>3. NextRow = source[k]
    BY <1>3
  <2>. HIDE DEF k
  <2>4. k \in 1..Len(source) /\ \A j \in 1..n : seen[j].id # source[k].id
    BY <1>1, <1>2, <2>2
  <2>5. ASSUME NEW l \in 1..Len(source), l < k PROVE \E h \in 1..n : seen[h] = source[l]
    BY <1>1, <1>4, <2>2, <2>4, <2>5
  <2>6. ASSUME NEW i \in 1..n, NEW l \in 1..Len(source), seen[i] = source[l] PROVE l <= k
    <3>. SUFFICES ASSUME k < l PROVE FALSE
      BY <1>1, <2>4
    <3>1. i \in DOMAIN seen /\ 1..i \subseteq DOMAIN seen
      BY <1>1
    <3>2. PICK h \in 1..i : seen[h] = source[k]
      BY <1>1, <2>4, <2>6, <3>1 DEF Traces
    <3>3. h \in 1..n /\ seen[h].id = source[k].id
      BY <1>1, <3>2
    <3>. QED BY <2>4, <3>3
  <2>. QED BY <1>1, <2>3, <2>4, <2>5, <2>6 DEF Fits
<1>6. ASSUME Unseen = {} PROVE Covers(seen, n, source)
  BY <1>4, <1>6 DEF Covers
<1>. QED BY <1>5, <1>6 DEF seen, source, n

\* The last row fits again.
LEMMA LastRowFits ==
    ASSUME ScanningInv, extraction.phase = "append"
    PROVE  LET seen == extraction.rows
           IN  Fits(seen, Len(seen), seen[Len(seen)], SourceRows(extraction.region))
<1>. DEFINE seen == extraction.rows
            source == SourceRows(extraction.region)
            n == Len(seen)
<1>1. /\ Len(source) \in Nat /\ n \in Nat /\ DOMAIN seen = 1..n /\ Traces(seen, source)
  BY ScanFacts
<1>2. n > 0
  BY DEF ScanningInv, ExtractionInv
<1>. HIDE DEF seen, source, n
<1>3. n \in DOMAIN seen /\ 1..n \subseteq DOMAIN seen
  BY <1>1, <1>2
<1>4. PICK k \in 1..Len(source) : seen[n] = source[k]
  <2>1. \A i \in DOMAIN seen : \E k \in 1..Len(source) : seen[i] = source[k]
    BY <1>1 DEF Traces
  <2>. QED BY <1>3, <2>1
<1>5. \A l \in 1..Len(source) : l < k => \E h \in 1..n : seen[h] = source[l]
  <2>1. \A i \in DOMAIN seen : 1..i \subseteq DOMAIN seen =>
           \A x, l \in 1..Len(source) :
               seen[i] = source[x] /\ l <= x => \E h \in 1..i : seen[h] = source[l]
    BY <1>1 DEF Traces
  <2>2. \A l \in 1..Len(source) : l < k => l <= k
    BY <1>1
  <2>. QED BY <1>3, <1>4, <2>1, <2>2
<1>6. \A i \in 1..n : \A l \in 1..Len(source) : seen[i] = source[l] => l <= k
  BY <1>1, <1>3, <1>4 DEF Traces
<1>7. Fits(seen, n, seen[n], source)
  BY <1>4, <1>5, <1>6 DEF Fits
<1>. QED BY <1>7 DEF seen, source, n

\* A checkpoint stays faithful when a row that fits is added to it.
LEMMA ChunkAdded ==
    ASSUME ScanningInv, extraction.phase \in {"scan", "append"}, NEW row, NEW count,
           Fits(extraction.rows, Len(extraction.rows), row, SourceRows(extraction.region))
    PROVE  LET r == extraction.region
               ck == checkpoint[r]
               chunks == Extended(ck.chunks, Len(extraction.rows) + 1, row)
           IN  /\ Faithful(r, [source |-> ck.source, complete |-> ck.complete, count |-> count,
                               chunks |-> chunks])
               /\ ck.source # 0 =>
                     /\ DOMAIN chunks = 1..(Len(extraction.rows) + 1)
                     /\ chunks[Len(extraction.rows) + 1] = row
                     /\ \A i \in 1..Len(extraction.rows) : chunks[i] = extraction.rows[i]
<1>. DEFINE r == extraction.region
            ck == checkpoint[r]
            seen == extraction.rows
            n == Len(seen)
            source == SourceRows(r)
            chunks == Extended(ck.chunks, n + 1, row)
            new == [source |-> ck.source, complete |-> ck.complete, count |-> count,
                    chunks |-> chunks]
<1>1. /\ r \in Regions /\ pbf[r] \in 1..Len(PbfRows[r]) /\ source = PbfRows[r][pbf[r]]
      /\ Len(source) \in Nat
      /\ \A i, j \in 1..Len(source) : source[i] = source[j] => i = j
      /\ n \in Nat /\ DOMAIN seen = 1..n /\ Traces(seen, source)
  BY ScanFacts
<1>2. /\ ck.source # 0 => /\ ck.source = pbf[r] /\ ~ck.complete
                          /\ DOMAIN ck.chunks = 1..n /\ \A i \in 1..n : ck.chunks[i] = seen[i]
      /\ Faithful(r, ck)
  BY <1>1 DEF ScanningInv, ExtractionInv, Follows
<1>3. /\ DOMAIN chunks = DOMAIN ck.chunks \cup {n + 1} /\ chunks[n + 1] = row
      /\ chunks = [i \in DOMAIN chunks |-> chunks[i]]
      /\ \A i \in DOMAIN ck.chunks : i # n + 1 => chunks[i] = ck.chunks[i]
  BY DEF Extended
<1>4. IsFiniteSet(DOMAIN chunks) /\ DOMAIN chunks \subseteq Nat
  <2>1. IsFiniteSet(DOMAIN ck.chunks) /\ DOMAIN ck.chunks \subseteq Nat
    BY <1>2 DEF Faithful
  <2>2. IsFiniteSet(DOMAIN ck.chunks \cup {n + 1})
    BY <2>1, FS_AddElement
  <2>3. n + 1 \in Nat
    BY <1>1
  <2>. HIDE DEF n, ck, chunks
  <2>. QED BY <1>3, <2>1, <2>2, <2>3
<1>5. ASSUME ck.source # 0
      PROVE  DOMAIN chunks = 1..(n + 1) /\ \A i \in 1..n : chunks[i] = seen[i]
  <2>. HIDE DEF n, ck, chunks, seen
  <2>1. 1..(n + 1) = 1..n \cup {n + 1} /\ \A i \in 1..n : i # n + 1
    BY <1>1
  <2>. QED BY <1>2, <1>3, <1>5, <2>1
<1>6. ck.source # 0 => Traces(chunks, source)
  <2>. SUFFICES ASSUME ck.source # 0 PROVE Traces(chunks, source)
    OBVIOUS
  <2>1. Fits(seen, n, row, source)
    OBVIOUS
  <2>2. DOMAIN chunks = 1..(n + 1) /\ chunks[n + 1] = row /\ \A i \in 1..n : chunks[i] = seen[i]
    BY <1>3, <1>5
  <2>. HIDE DEF n, ck, chunks, seen, source
  <2>. QED BY <1>1, <2>1, <2>2, TracesGrow, SMTT(30)
<1>7. /\ new.source = ck.source /\ new.complete = ck.complete /\ new.chunks = chunks
      /\ new = [source |-> new.source, complete |-> new.complete, count |-> new.count,
                chunks |-> new.chunks]
  OBVIOUS
<1>8. ck.source \in 0..Len(PbfRows[r])
  BY <1>2 DEF Faithful
<1>9. Faithful(r, new)
  <2>. HIDE DEF new, chunks, ck, r, source
  <2>. QED BY <1>1, <1>2, <1>3, <1>4, <1>6, <1>7, <1>8 DEF Faithful
<1>. QED BY <1>3, <1>5, <1>9

\* No checkpoint is a faithful one.
LEMMA BlankIsFaithful == \A r \in Regions : Faithful(r, NoCheckpoint)
<1>. SUFFICES ASSUME NEW r \in Regions PROVE Faithful(r, NoCheckpoint)
  OBVIOUS
<1>1. /\ NoCheckpoint.source = 0 /\ DOMAIN NoCheckpoint.chunks = {}
      /\ NoCheckpoint.chunks = <<>> /\ NoCheckpoint.count = 0
  BY DEF NoCheckpoint
<1>2. NoCheckpoint = [source |-> NoCheckpoint.source, complete |-> NoCheckpoint.complete,
                      count |-> NoCheckpoint.count, chunks |-> NoCheckpoint.chunks]
  BY <1>1, Zenon DEF NoCheckpoint
<1>3. Len(PbfRows[r]) \in Nat /\ <<>> = [i \in {} |-> <<>>[i]] /\ IsFiniteSet({})
  BY PbfCounts, FS_EmptySet
<1>. QED BY <1>1, <1>2, <1>3 DEF Faithful

\* Every step keeps the checkpoints and the extraction in agreement with the PBF.
LEMMA ScanningStep ==
    ASSUME ScanningInv, ScanMove PROVE ScanningInv'
<1>1. /\ pbf = [r \in Regions |-> pbf[r]] /\ \A r \in Regions : pbf[r] \in 1..Len(PbfRows[r])
      /\ checkpoint = [r \in Regions |-> checkpoint[r]]
      /\ \A r \in Regions : Faithful(r, checkpoint[r])
      /\ ExtractionInv
  BY DEF ScanningInv
<1>2. ASSUME UNCHANGED <<pbf, checkpoint>>, ExtractionInv' PROVE ScanningInv'
  BY <1>1, <1>2 DEF ScanningInv
<1>3. ASSUME UNCHANGED pbf, NEW r \in Regions, NEW ck, checkpoint' = [checkpoint EXCEPT ![r] = ck],
             Faithful(r, ck), ExtractionInv'
      PROVE  ScanningInv'
  <2>1. checkpoint' = [q \in Regions |-> checkpoint'[q]]
    BY <1>1, <1>3
  <2>2. \A q \in Regions : Faithful(q, checkpoint'[q])
    BY <1>1, <1>3
  <2>. QED BY <1>1, <1>3, <2>1, <2>2 DEF ScanningInv
<1>a. ASSUME NEW r \in Regions, NEW phase \in Phases, NEW seen,
             extraction' = [region |-> r, phase |-> phase, rows |-> seen],
             phase \in {"scan", "append", "done"} =>
                seen \in Seq(Polygon) /\ Traces(seen, PbfRows[r][pbf'[r]]),
             phase = "append" => Len(seen) > 0,
             phase = "done" => Covers(seen, Len(seen), PbfRows[r][pbf'[r]]),
             phase \in {"scan", "append"} /\ checkpoint'[r].source # 0 =>
                Follows(checkpoint'[r], pbf'[r], seen),
             phase = "scan" /\ checkpoint'[r].source # 0 => checkpoint'[r].count = Len(seen)
      PROVE  ExtractionInv'
  <2>1. extraction'.region = r /\ extraction'.phase = phase /\ extraction'.rows = seen
    BY <1>a
  <2>. QED BY <1>a, <2>1 DEF ExtractionInv, SourceRows
<1>4. CASE UNCHANGED <<pbf, checkpoint, extraction>>
  BY <1>1, <1>4 DEF ScanningInv, ExtractionInv, SourceRows
<1>5. CASE UNCHANGED <<pbf, checkpoint>> /\ Scheduled(extraction')
  <2>1. ExtractionInv'
    BY <1>5 DEF ExtractionInv, Scheduled, IdleExtraction, Phases
  <2>. QED BY <1>2, <1>5, <2>1
<1>6. CASE OpenCheckpoint
  <2>. DEFINE r == extraction.region
              ck == IF Readable(Prepared(r)) THEN Prepared(r) ELSE NewCheckpoint(r)
              n == Cardinality(DOMAIN ck.chunks)
              source == SourceRows(r)
              seen == [i \in 1..n |-> ck.chunks[i]]
              new == [source |-> pbf[r], complete |-> ck.complete, count |-> n,
                      chunks |-> ck.chunks]
  <2>1. r \in Regions /\ UNCHANGED pbf
    BY <1>1, <1>6 DEF OpenCheckpoint, ExtractionInv, ExtractionVarsOnly
  <2>2. Usable(r, ck)
    BY <2>1, UsableCheckpoints DEF Prepared
  <2>3. /\ ck = [source |-> pbf[r], complete |-> ck.complete, count |-> ck.count,
                 chunks |-> ck.chunks]
        /\ n \in Nat /\ DOMAIN ck.chunks = 1..n /\ IsFiniteSet(DOMAIN ck.chunks)
        /\ ck.chunks = [i \in DOMAIN ck.chunks |-> ck.chunks[i]]
        /\ Traces(ck.chunks, source) /\ (ck.complete => Covers(ck.chunks, n, source))
    BY <2>2 DEF Usable
  <2>4. /\ checkpoint' = [checkpoint EXCEPT ![r] = [ck EXCEPT !.count = n]]
        /\ extraction' = [extraction EXCEPT !.phase = IF ck.complete THEN "done" ELSE "scan",
                                            !.rows = seen]
    BY <1>6 DEF OpenCheckpoint
  <2>5. /\ pbf[r] \in 1..Len(PbfRows[r]) /\ source = PbfRows[r][pbf[r]]
        /\ source \in Seq(Polygon) /\ Len(source) \in Nat
        /\ \A i \in 1..Len(source) : source[i] \in Polygon
    BY <1>1, <2>1, SourceFacts DEF SourceRows
  <2>. HIDE DEF ck, n, source
  <2>6. [ck EXCEPT !.count = n] = new
    BY <2>3
  <2>7. Faithful(r, new)
    <3>1. new.source = pbf[r] /\ new.chunks = ck.chunks /\ new.count = n
          /\ new.complete = ck.complete
          /\ new = [source |-> new.source, complete |-> new.complete, count |-> new.count,
                    chunks |-> new.chunks]
      OBVIOUS
    <3>2. 1..n \subseteq Nat /\ pbf[r] \in 0..Len(PbfRows[r])
      BY <2>3, <2>5
    <3>. HIDE DEF new
    <3>. QED BY <2>3, <2>5, <3>1, <3>2 DEF Faithful
  <2>8. seen = ck.chunks
    BY <2>3
  <2>9. seen \in Seq(Polygon) /\ Len(seen) = n
    <3>1. \A i \in 1..n : \E k \in 1..Len(source) : ck.chunks[i] = source[k]
      BY <2>3 DEF Traces
    <3>2. \A i \in 1..n : seen[i] \in Polygon
      BY <2>5, <3>1
    <3>. QED BY <2>3, <3>2
  <2>10. checkpoint'[r] = new /\ PbfRows[r][pbf'[r]] = source
    BY <1>1, <2>1, <2>4, <2>5, <2>6
  <2>11. extraction' = [region |-> r, phase |-> IF ck.complete THEN "done" ELSE "scan",
                        rows |-> seen]
    BY <1>1, <2>4 DEF ExtractionInv
  <2>12. ExtractionInv'
    <3>1. CASE ck.complete
      <4>1. extraction' = [region |-> r, phase |-> "done", rows |-> seen] /\ "done" \in Phases
        BY <2>11, <3>1 DEF Phases
      <4>. HIDE DEF r, seen, new
      <4>. QED BY <1>a, <2>1, <2>3, <2>8, <2>9, <2>10, <3>1, <4>1
    <3>2. CASE ~ck.complete
      <4>1. extraction' = [region |-> r, phase |-> "scan", rows |-> seen] /\ "scan" \in Phases
        BY <2>11, <3>2 DEF Phases
      <4>2. Follows(checkpoint'[r], pbf'[r], seen) /\ checkpoint'[r].count = Len(seen)
        <5>1. new.source = pbf[r] /\ new.count = n /\ new.chunks = ck.chunks
          OBVIOUS
        <5>2. new.complete = ck.complete
          OBVIOUS
        <5>. HIDE DEF new, seen, r
        <5>. QED BY <2>1, <2>3, <2>8, <2>9, <2>10, <3>2, <5>1, <5>2 DEF Follows
      <4>. HIDE DEF r, seen
      <4>. QED BY <1>a, <2>1, <2>3, <2>8, <2>9, <2>10, <4>1, <4>2
    <3>. QED BY <3>1, <3>2
  <2>. QED BY <1>3, <2>1, <2>4, <2>6, <2>7, <2>12
<1>7. CASE AppendChunk
  <2>. DEFINE r == extraction.region
              ck == checkpoint[r]
              seen == extraction.rows
              n == Len(seen)
              source == SourceRows(r)
              row == NextRow
              chunks == Extended(ck.chunks, n + 1, row)
              new == [source |-> ck.source, complete |-> ck.complete, count |-> ck.count,
                      chunks |-> chunks]
  <2>1. /\ UNCHANGED pbf /\ extraction.phase = "scan" /\ Unseen # {}
        /\ extraction = [region |-> r, phase |-> extraction.phase, rows |-> seen]
        /\ ck.source # 0 => Follows(ck, pbf[r], seen)
    BY <1>1, <1>7 DEF AppendChunk, ExtractionInv, ExtractionVarsOnly
  <2>2. /\ extraction' = [extraction EXCEPT !.rows = Append(seen, row), !.phase = "append"]
        /\ checkpoint' = [checkpoint EXCEPT ![r] = [ck EXCEPT !.chunks = chunks]]
    BY <1>7, Zenon DEF AppendChunk
  <2>3. /\ r \in Regions /\ source = PbfRows[r][pbf[r]] /\ Len(source) \in Nat
        /\ \A i, j \in 1..Len(source) : source[i] = source[j] => i = j
        /\ seen \in Seq(Polygon) /\ n \in Nat /\ DOMAIN seen = 1..n /\ Traces(seen, source)
    BY <2>1, ScanFacts
  <2>4. Fits(seen, n, row, source) /\ row \in Polygon
    BY <2>1, NextRowFits
  <2>5. /\ Faithful(r, new)
        /\ ck.source # 0 => /\ DOMAIN chunks = 1..(n + 1) /\ chunks[n + 1] = row
                            /\ \A i \in 1..n : chunks[i] = seen[i]
    BY <2>1, <2>4, ChunkAdded
  <2>6. [ck EXCEPT !.chunks = chunks] = new
    <3>1. ck = [source |-> ck.source, complete |-> ck.complete, count |-> ck.count,
                chunks |-> ck.chunks]
      BY <1>1, <2>3 DEF Faithful
    <3>. HIDE DEF ck, chunks
    <3>. QED BY <3>1
  <2>. HIDE DEF row, source, chunks
  <2>7. /\ Append(seen, row) \in Seq(Polygon) /\ Len(Append(seen, row)) = n + 1
        /\ DOMAIN Append(seen, row) = 1..(n + 1) /\ Append(seen, row)[n + 1] = row
        /\ \A i \in 1..n : Append(seen, row)[i] = seen[i]
    BY <2>3, <2>4
  <2>8. Traces(Append(seen, row), source)
    <3>1. PICK more : more = Append(seen, row)
      OBVIOUS
    <3>2. /\ DOMAIN more = 1..(n + 1) /\ more[n + 1] = row /\ \A i \in 1..n : more[i] = seen[i]
      BY <2>7, <3>1
    <3>. HIDE DEF seen, n
    <3>3. Traces(more, source)
      BY <2>3, <2>4, <3>2, TracesGrow, SMTT(30)
    <3>. QED BY <3>1, <3>3
  <2>9. extraction' = [region |-> r, phase |-> "append", rows |-> Append(seen, row)]
    BY <2>1, <2>2
  <2>10. /\ checkpoint'[r].source = ck.source /\ checkpoint'[r].complete = ck.complete
         /\ checkpoint'[r].chunks = chunks
    BY <1>1, <2>2, <2>3, <2>6
  <2>11. PbfRows[r][pbf'[r]] = source /\ pbf'[r] = pbf[r] /\ "append" \in Phases
    BY <2>1, <2>3 DEF Phases
  <2>12. ck.source # 0 => Follows(checkpoint'[r], pbf'[r], Append(seen, row))
    <3>1. ASSUME ck.source # 0, NEW i \in 1..(n + 1) PROVE chunks[i] = Append(seen, row)[i]
      <4>1. i \in 1..n \/ i = n + 1
        BY <2>3
      <4>. HIDE DEF n, seen
      <4>. QED BY <2>5, <2>7, <3>1, <4>1
    <3>2. ck.source # 0 => ck.source = pbf[r] /\ ~ck.complete
      BY <2>1 DEF Follows
    <3>. HIDE DEF n, seen, ck, r
    <3>. QED BY <2>5, <2>7, <2>10, <2>11, <3>1, <3>2 DEF Follows
  <2>13. ExtractionInv'
    <3>1. Len(Append(seen, row)) > 0
      BY <2>3, <2>7
    <3>. HIDE DEF r, seen, ck
    <3>. QED BY <1>a, <2>3, <2>7, <2>8, <2>9, <2>10, <2>11, <2>12, <3>1
  <2>. QED BY <1>3, <2>1, <2>2, <2>3, <2>5, <2>6, <2>13
<1>8. CASE AppendMetadata \/ MarkComplete
  <2>. DEFINE r == extraction.region
              ck == checkpoint[r]
              seen == extraction.rows
              source == SourceRows(r)
  <2>1. /\ UNCHANGED pbf /\ extraction.phase \in {"scan", "append"}
        /\ extraction = [region |-> r, phase |-> extraction.phase, rows |-> seen]
        /\ ck.source # 0 => Follows(ck, pbf[r], seen)
        /\ ck.source # 0 /\ extraction.phase = "scan" => ck.count = Len(seen)
    BY <1>1, <1>8 DEF AppendMetadata, MarkComplete, ExtractionInv, ExtractionVarsOnly
  <2>2. /\ r \in Regions /\ source = PbfRows[r][pbf[r]] /\ Len(source) \in Nat
        /\ seen \in Seq(Polygon) /\ Len(seen) \in Nat /\ Traces(seen, source)
    BY <2>1, ScanFacts
  <2>3. Faithful(r, ck)
    BY <1>1, <2>2
  <2>4. ck = [source |-> ck.source, complete |-> ck.complete, count |-> ck.count,
              chunks |-> ck.chunks]
    BY <2>3 DEF Faithful
  <2>5. PbfRows[r][pbf'[r]] = source /\ pbf'[r] = pbf[r] /\ "scan" \in Phases /\ "done" \in Phases
    BY <2>1, <2>2 DEF Phases
  <2>6. CASE AppendMetadata
    <3>. DEFINE new == [source |-> ck.source, complete |-> FALSE, count |-> Len(seen),
                        chunks |-> ck.chunks]
    <3>1. /\ checkpoint' = [checkpoint EXCEPT ![r] =
                               [ck EXCEPT !.complete = FALSE, !.count = Len(seen)]]
          /\ extraction' = [extraction EXCEPT !.phase = "scan"]
      BY <1>1, <2>1, <2>6 DEF AppendMetadata
    <3>2. \A b : [ck EXCEPT !.complete = b, !.count = Len(seen)]
                   = [source |-> ck.source, complete |-> b, count |-> Len(seen),
                      chunks |-> ck.chunks]
      <4>. HIDE DEF ck, seen
      <4>. DEFINE x(b) == [ck EXCEPT !.complete = b]
                  y(b) == [source |-> ck.source, complete |-> b, count |-> ck.count,
                           chunks |-> ck.chunks]
      <4>1. \A b : x(b) = y(b)
        BY <2>4
      <4>2. \A b : [y(b) EXCEPT !.count = Len(seen)]
                      = [source |-> ck.source, complete |-> b, count |-> Len(seen),
                         chunks |-> ck.chunks]
        OBVIOUS
      <4>3. \A b : [ck EXCEPT !.complete = b, !.count = Len(seen)]
                     = [x(b) EXCEPT !.count = Len(seen)]
        OBVIOUS
      <4>. QED BY <4>1, <4>2, <4>3, Zenon
    <3>3. [ck EXCEPT !.complete = FALSE, !.count = Len(seen)] = new
      BY <3>2, Zenon
    <3>4. /\ new.source = ck.source /\ ~new.complete /\ new.count = Len(seen)
          /\ new.chunks = ck.chunks
      OBVIOUS
    <3>5. new = [source |-> new.source, complete |-> new.complete, count |-> new.count,
                 chunks |-> new.chunks]
      BY <3>4, Zenon
    <3>. HIDE DEF new
    <3>6. Faithful(r, new)
      BY <2>3, <3>4, <3>5 DEF Faithful
    <3>7. checkpoint'[r] = new
      BY <1>1, <2>2, <3>1, <3>3
    <3>8. extraction' = [region |-> r, phase |-> "scan", rows |-> seen]
      BY <2>1, <3>1
    <3>9. ck.source # 0 => Follows(new, pbf[r], seen)
      BY <2>1, <3>4 DEF Follows
    <3>10. ExtractionInv'
      <4>. HIDE DEF r, seen, ck, source
      <4>. QED BY <1>a, <2>2, <2>5, <3>4, <3>7, <3>8, <3>9
    <3>. QED BY <1>3, <2>1, <2>2, <3>1, <3>3, <3>6, <3>10
  <2>7. CASE MarkComplete
    <3>. DEFINE new == [source |-> ck.source, complete |-> TRUE, count |-> ck.count,
                        chunks |-> ck.chunks]
    <3>1. /\ checkpoint' = [checkpoint EXCEPT ![r] = [ck EXCEPT !.complete = TRUE]]
          /\ extraction' = [extraction EXCEPT !.phase = "done"]
          /\ extraction.phase = "scan" /\ Unseen = {}
      BY <1>1, <2>1, <2>7 DEF MarkComplete
    <3>2. \A b : [ck EXCEPT !.complete = b]
                   = [source |-> ck.source, complete |-> b, count |-> ck.count,
                      chunks |-> ck.chunks]
      BY <2>4
    <3>3. [ck EXCEPT !.complete = TRUE] = new
      BY <3>2, Zenon
    <3>4. new.source = ck.source /\ new.count = ck.count /\ new.chunks = ck.chunks
      OBVIOUS
    <3>5. new = [source |-> new.source, complete |-> new.complete, count |-> new.count,
                 chunks |-> new.chunks]
      BY <3>4, Zenon
    <3>6. Covers(seen, Len(seen), source)
      BY <3>1, NextRowFits
    <3>. HIDE DEF new
    <3>7. ck.source # 0 => ck.source = pbf[r] /\ Covers(ck.chunks, ck.count, source)
      <4>. HIDE DEF seen, source, r, ck
      <4>. QED BY <2>1, <3>1, <3>6 DEF Covers, Follows
    <3>8. Faithful(r, new)
      BY <2>2, <2>3, <3>4, <3>5, <3>7 DEF Faithful
    <3>9. extraction' = [region |-> r, phase |-> "done", rows |-> seen]
      BY <2>1, <3>1
    <3>10. ExtractionInv'
      <4>. HIDE DEF r, seen, ck, source
      <4>. QED BY <1>a, <2>2, <2>5, <3>6, <3>9
    <3>. QED BY <1>3, <2>1, <2>2, <3>1, <3>3, <3>8, <3>10
  <2>. QED BY <1>8, <2>6, <2>7
<1>9. CASE ExtractionFails
  <2>. DEFINE r == extraction.region
              ck == checkpoint[r]
              seen == extraction.rows
              n == Len(seen) + 1
  <2>1. /\ extraction.phase \in {"open", "scan", "append"} /\ UNCHANGED pbf /\ r \in Regions
        /\ extraction' = [extraction EXCEPT !.phase = "failed"]
    BY <1>1, <1>9 DEF ExtractionFails, ExtractionVarsOnly, ExtractionInv
  <2>2. ExtractionInv'
    BY <1>1, <2>1 DEF ExtractionInv, Phases
  <2>3. CASE UNCHANGED checkpoint
    BY <1>2, <2>1, <2>2, <2>3
  <2>4. ASSUME NEW row \in PendingRows, NEW count,
               checkpoint' = [checkpoint EXCEPT ![r] =
                                [ck EXCEPT !.chunks = Extended(ck.chunks, n, row), !.count = count]]
        PROVE  ScanningInv'
    <3>. DEFINE chunks == Extended(ck.chunks, n, row)
                new == [source |-> ck.source, complete |-> ck.complete, count |-> count,
                        chunks |-> chunks]
    <3>1. extraction.phase \in {"scan", "append"} /\ Fits(seen, Len(seen), row, SourceRows(r))
      <4>1. CASE extraction.phase = "append"
        BY <2>4, <4>1, LastRowFits DEF PendingRows
      <4>2. CASE extraction.phase # "append"
        <5>1. extraction.phase = "scan" /\ Unseen # {} /\ row = NextRow
          BY <2>4, <4>2 DEF PendingRows
        <5>. QED BY <5>1, NextRowFits
      <4>. QED BY <4>1, <4>2
    <3>2. Faithful(r, new)
      BY <3>1, ChunkAdded
    <3>3. [ck EXCEPT !.chunks = chunks, !.count = count] = new
      <4>1. ck = [source |-> ck.source, complete |-> ck.complete, count |-> ck.count,
                  chunks |-> ck.chunks]
        BY <1>1, <2>1 DEF Faithful
      <4>. HIDE DEF ck, chunks
      <4>2. PICK a, b, c, d : ck = [source |-> a, complete |-> b, count |-> c, chunks |-> d]
        BY <4>1
      <4>3. a = ck.source /\ b = ck.complete
        BY <4>2
      <4>4. [[source |-> a, complete |-> b, count |-> c, chunks |-> d] EXCEPT !.chunks = chunks]
              = [source |-> a, complete |-> b, count |-> c, chunks |-> chunks]
        OBVIOUS
      <4>5. [[source |-> a, complete |-> b, count |-> c, chunks |-> chunks] EXCEPT
                !.count = count]
              = [source |-> a, complete |-> b, count |-> count, chunks |-> chunks]
        OBVIOUS
      <4>6. [ck EXCEPT !.chunks = chunks, !.count = count]
              = [source |-> a, complete |-> b, count |-> count, chunks |-> chunks]
        BY <4>2, <4>4, <4>5, Zenon
      <4>. QED BY <4>3, <4>6, Zenon
    <3>. HIDE DEF new
    <3>. QED BY <1>3, <2>1, <2>2, <2>4, <3>2, <3>3
  <2>5. UNCHANGED checkpoint
        \/ \E row \in PendingRows : \E count \in {ck.count, n} :
              checkpoint' = [checkpoint EXCEPT ![r] =
                               [ck EXCEPT !.chunks = Extended(ck.chunks, n, row), !.count = count]]
    BY <1>9, Zenon DEF ExtractionFails
  <2>. QED BY <2>3, <2>4, <2>5
<1>10. ASSUME UNCHANGED <<pbf, extraction>>, NEW r \in Regions,
              checkpoint' = [checkpoint EXCEPT ![r] = NoCheckpoint]
       PROVE  ScanningInv'
  <2>1. Faithful(r, NoCheckpoint)
    BY BlankIsFaithful
  <2>2. checkpoint'[extraction.region].source = 0
          \/ checkpoint'[extraction.region] = checkpoint[extraction.region]
    BY <1>1, <1>10 DEF NoCheckpoint
  <2>3. ExtractionInv'
    BY <1>1, <1>10, <2>2 DEF ExtractionInv, SourceRows
  <2>. QED BY <1>3, <1>10, <2>1, <2>3
<1>11. ASSUME UNCHANGED pbf, extraction' = IdleExtraction, NEW r \in Regions,
              NEW kept \in SUBSET DOMAIN checkpoint[r].chunks,
              checkpoint' = [checkpoint EXCEPT ![r].chunks = [i \in kept |-> @[i]]]
       PROVE  ScanningInv'
  <2>. DEFINE ck == checkpoint[r]
              chunks == [i \in kept |-> ck.chunks[i]]
              new == [source |-> ck.source, complete |-> ck.complete, count |-> ck.count,
                      chunks |-> chunks]
  <2>1. Faithful(r, ck)
    BY <1>1
  <2>2. [ck EXCEPT !.chunks = chunks] = new
    BY <2>1 DEF Faithful
  <2>3. checkpoint' = [checkpoint EXCEPT ![r] = [ck EXCEPT !.chunks = chunks]]
    BY <1>1, <1>11
  <2>4. /\ new.source = ck.source /\ new.complete = ck.complete /\ new.count = ck.count
        /\ new.chunks = chunks
        /\ new = [source |-> new.source, complete |-> new.complete, count |-> new.count,
                  chunks |-> new.chunks]
        /\ DOMAIN chunks = kept /\ \A i \in kept : chunks[i] = ck.chunks[i]
        /\ chunks = [i \in DOMAIN chunks |-> chunks[i]]
    OBVIOUS
  <2>5. Faithful(r, new)
    <3>. HIDE DEF new, chunks, ck
    <3>1. kept \subseteq DOMAIN ck.chunks
      BY DEF ck
    <3>2. IsFiniteSet(kept) /\ kept \subseteq Nat
      BY <2>1, <3>1, FS_Subset DEF Faithful
    <3>3. ck.source # 0 => Traces(chunks, PbfRows[r][ck.source])
      BY <2>1, <2>4, <3>1, TracesShrink DEF Faithful
    <3>4. ASSUME ck.source # 0, ck.complete, 1..ck.count \subseteq kept
          PROVE  Covers(chunks, ck.count, PbfRows[r][ck.source])
      <4>1. Covers(ck.chunks, ck.count, PbfRows[r][ck.source])
        BY <2>1, <3>1, <3>4 DEF Faithful
      <4>. QED BY <2>4, <3>4, <4>1 DEF Covers
    <3>. QED BY <2>1, <2>4, <3>1, <3>2, <3>3, <3>4 DEF Faithful
  <2>6. ExtractionInv'
    BY <1>11 DEF ExtractionInv, IdleExtraction, Phases
  <2>. QED BY <1>3, <1>11, <2>2, <2>3, <2>5, <2>6
<1>12. ASSUME UNCHANGED <<checkpoint, extraction>>, extraction.phase = "idle", NEW r \in Regions,
              pbf[r] < Len(PbfRows[r]), pbf' = [pbf EXCEPT ![r] = @ + 1]
       PROVE  ScanningInv'
  <2>1. /\ pbf' = [q \in Regions |-> pbf'[q]]
        /\ \A q \in Regions : pbf'[q] \in 1..Len(PbfRows[q])
    BY <1>1, <1>12, PbfCounts
  <2>2. ExtractionInv'
    BY <1>1, <1>12 DEF ExtractionInv
  <2>. QED BY <1>1, <1>12, <2>1, <2>2 DEF ScanningInv
<1>. QED BY <1>4, <1>5, <1>6, <1>7, <1>8, <1>9, <1>10, <1>11, <1>12 DEF ScanMove, ExtractionStep

------------------------------------------------------------------------------
(* What the steps leave alone *)

\* The files the main thread writes, and its memory.
Quiet == UNCHANGED <<pc, plan, at, extracted, provisional, pending, work, outcome,
                     tables, manifest, hub>>

\* The two other threads, and what happens between two runs.
OtherStep ==
    \/ ExtractionStep \/ ExtractionFails \/ IndexThread \/ IndexFailure
    \/ Outside \/ AllRunsDone \/ UNCHANGED vars

\* They leave what is the main thread's alone.
LEMMA OthersAreQuiet == ASSUME OtherStep PROVE Quiet /\ UNCHANGED runs
<1>1. CASE ExtractionStep \/ ExtractionFails
  BY <1>1 DEF ExtractionStep, ExtractionFails, OpenCheckpoint, AppendChunk, AppendMetadata,
              MarkComplete, ExtractionVarsOnly, Quiet, mainVars, listVars
<1>2. CASE IndexThread \/ IndexFailure
  BY <1>2 DEF IndexThread, IndexFailure, Quiet, mainVars, listVars, fileVars
<1>3. CASE Outside
  BY <1>3 DEF Outside, Quiet, mainVars, listVars
<1>4. CASE AllRunsDone \/ UNCHANGED vars
  BY <1>4 DEF AllRunsDone, vars, Quiet, mainVars, listVars, fileVars
<1>. QED BY <1>1, <1>2, <1>3, <1>4 DEF OtherStep

\* Every step moves the index in one of the ways IndexMove lists.
LEMMA IndexMoves ==
    ASSUME pc = "idle" => index = "off", [Next]_vars PROVE IndexMove
<1>1. CASE BeginRun
  BY <1>1 DEF BeginRun, StartIndex, IndexMove, Kept
<1>2. CASE SkipRegion \/ QueuePublish \/ QueueReconcile \/ FlushPending
  BY <1>2 DEF SkipRegion, QueuePublish, QueueReconcile, FlushPending, MainOnly, QueriesOnly,
              IndexMove
<1>3. CASE TakeExtraction \/ WriteMetadata \/ RunFails
  BY <1>3 DEF TakeExtraction, WriteMetadata, RunFails, IndexMove
<1>4. CASE MergeStep
  BY <1>4 DEF MergeStep, LoadMergeInputs, MatchTitles, EnrichOne, QueryAgain, Speculate,
              CopySections, BuildSections,
              WriteTables, WriteManifest, ClearCheckpoints, MainOnly, QueriesOnly, IndexMove
<1>5. CASE WaitUntilReady \/ ReconcileRegion \/ ReconciledAll \/ PublishBatch
  BY <1>5 DEF WaitUntilReady, ReconcileRegion, ReconciledAll, PublishBatch, MainOnly,
              QueriesOnly, IndexMove
<1>6. CASE Cleanup
  BY <1>6 DEF Cleanup, IndexMove, Kept
<1>7. CASE EndRun
  BY <1>7 DEF EndRun, ForgetIndex, IndexMove, Kept
<1>8. CASE Crash \/ CrashReplacing \/ CrashClearing
  BY <1>8 DEF Crash, CrashReplacing, CrashClearing, ForgetMemory, ForgetIndex, IndexMove, Kept
<1>9. CASE ExtractionStep \/ ExtractionFails
  BY <1>9 DEF ExtractionStep, ExtractionFails, OpenCheckpoint, AppendChunk, AppendMetadata,
              MarkComplete, ExtractionVarsOnly, IndexMove
<1>10. CASE IndexThread \/ IndexFailure
  BY <1>10 DEF IndexThread, IndexFailure, IndexMove
<1>11. CASE Outside
  BY <1>11 DEF Outside, IndexMove
<1>12. CASE AllRunsDone \/ UNCHANGED vars
  BY <1>12 DEF AllRunsDone, vars, IndexMove
<1>. QED BY <1>1, <1>2, <1>3, <1>4, <1>5, <1>6, <1>7, <1>8, <1>9, <1>10, <1>11, <1>12
         DEF Next, MainStep

\* Every step moves the extraction in one of the ways ScanMove lists.
LEMMA ScanMoves ==
    ASSUME WorkInv, ListsInv, ProcessInv, [Next]_vars PROVE ScanMove
<1>1. CASE BeginRun
  <2>1. DOMAIN plan' = DOMAIN RegionSeq
    BY <1>1 DEF BeginRun
  <2>2. Scheduled(NextExtraction(plan', 0))
    BY <2>1, NextIsScheduled
  <2>. QED BY <1>1, <2>2 DEF BeginRun, ScanMove, fileVars
<1>2. CASE SkipRegion \/ QueuePublish \/ QueueReconcile \/ FlushPending
  BY <1>2 DEF SkipRegion, QueuePublish, QueueReconcile, FlushPending, MainOnly, QueriesOnly,
              ScanMove
<1>3. CASE TakeExtraction
  <2>1. DOMAIN plan = DOMAIN RegionSeq /\ at \in Nat
    BY <1>3 DEF TakeExtraction, ProcessInv, Processing, WorkInv, ListsInv
  <2>2. Scheduled(NextExtraction(plan, at))
    BY <2>1, NextIsScheduled
  <2>. QED BY <1>3, <2>2 DEF TakeExtraction, ScanMove, fileVars
<1>4. CASE LoadMergeInputs \/ MatchTitles \/ EnrichOne \/ QueryAgain \/ Speculate
           \/ CopySections \/ BuildSections
           \/ WriteTables \/ WriteManifest
  BY <1>4 DEF LoadMergeInputs, MatchTitles, EnrichOne, QueryAgain, Speculate, CopySections,
              BuildSections,
              WriteTables, WriteManifest, MainOnly, QueriesOnly, ScanMove
<1>5. CASE ClearCheckpoints
  <2>1. work.region \in Regions
    BY <1>5 DEF ClearCheckpoints, WorkInv, Busy, Merging, Storing
  <2>. QED BY <1>5, <2>1 DEF ClearCheckpoints, MainOnly, QueriesOnly, ScanMove
<1>6. CASE WaitUntilReady \/ ReconcileRegion \/ ReconciledAll \/ PublishBatch \/ WriteMetadata
           \/ RunFails
  BY <1>6 DEF WaitUntilReady, ReconcileRegion, ReconciledAll, PublishBatch, WriteMetadata,
              RunFails, MainOnly, QueriesOnly, ScanMove, fileVars
<1>7. CASE Cleanup \/ EndRun
  BY <1>7 DEF Cleanup, EndRun, ScanMove, Scheduled, fileVars
<1>8. CASE Crash \/ CrashReplacing
  BY <1>8 DEF Crash, CrashReplacing, ForgetMemory, ScanMove, Scheduled
<1>9. CASE CrashClearing
  <2>1. work.region \in Regions
    BY <1>9 DEF CrashClearing, WorkInv, Busy, Merging, Storing
  <2>. QED BY <1>9, <2>1 DEF CrashClearing, ForgetMemory, ScanMove
<1>10. CASE ExtractionStep \/ ExtractionFails
  BY <1>10 DEF ScanMove
<1>11. CASE IndexThread \/ IndexFailure
  BY <1>11 DEF IndexThread, IndexFailure, ScanMove, fileVars
<1>12. CASE Outside
  BY <1>12 DEF Outside, ScanMove, ListsInv
<1>13. CASE AllRunsDone \/ UNCHANGED vars
  BY <1>13 DEF AllRunsDone, vars, fileVars, ScanMove
<1>. QED BY <1>1, <1>2, <1>3, <1>4, <1>5, <1>6, <1>7, <1>8, <1>9, <1>10, <1>11, <1>12, <1>13
         DEF Next, MainStep, MergeStep

\* What a finished extraction hands over is its PBF.
LEMMA ExtractionYieldsSource ==
    ASSUME ScanningInv PROVE ExtractionExact
<1>. SUFFICES ASSUME extraction.phase = "done" PROVE ExtractionExact
  BY DEF ExtractionExact
<1>. DEFINE source == SourceRows(extraction.region)
            handed == extraction.rows
<1>1. /\ DOMAIN source = 1..Len(source) /\ DOMAIN handed = 1..Len(handed)
      /\ Traces(handed, source)
  BY ScanFacts
<1>2. Covers(handed, Len(handed), source)
  BY DEF ScanningInv, ExtractionInv
<1>3. ExtractionExact <=>
        /\ Range(handed) = Range(source)
        /\ \A i, j \in DOMAIN handed : \A k, l \in DOMAIN source :
              i <= j /\ handed[i] = source[k] /\ handed[j] = source[l] => k <= l
  BY DEF ExtractionExact
<1>. HIDE DEF source, handed
<1>4. Range(handed) = Range(source)
  BY <1>1, <1>2 DEF Traces, Covers, Range
<1>. QED BY <1>1, <1>3, <1>4 DEF Traces

------------------------------------------------------------------------------
(* Polygons, lookups and links *)

\* The polygons of the PBF replace those of V1 with the same id.
LEMMA MergedAreUnique ==
    ASSUME NEW r \in Regions, NEW found, UniqueIds(found)
    PROVE  UniqueIds(MergedPolygons(r, found))
<1>1. UniqueIds(V1Polygons[r])
  BY BuildConstants
<1>. QED BY <1>1 DEF UniqueIds, MergedPolygons, V1Rows

\* An extraction hands over every id once.
LEMMA ExtractedAreUnique ==
    ASSUME ScanningInv, extraction.phase = "done" PROVE UniqueIds(Range(extraction.rows))
<1>. DEFINE source == SourceRows(extraction.region)
<1>1. Range(extraction.rows) = Range(source)
  BY ExtractionYieldsSource DEF ExtractionExact
<1>2. /\ DOMAIN source = 1..Len(source)
      /\ \A i, j \in 1..Len(source) : source[i].id = source[j].id => i = j
  BY ScanFacts
<1>. HIDE DEF source
<1>3. \A p \in Range(source) : \E i \in 1..Len(source) : p = source[i]
  BY <1>2 DEF Range
<1>4. UniqueIds(Range(source))
  BY <1>2, <1>3 DEF UniqueIds
<1>. QED BY <1>1, <1>4

\* The first of some rows, in the order of the shards and then of their row groups.
LEMMA FirstRowIsARow ==
    ASSUME IndexInv, NEW t, RowsFor(t) # {} PROVE FirstRow(t) \in RowsFor(t)
<1>. DEFINE place(row) == CHOOSE i \in DOMAIN ShardSeq : ShardSeq[i] = row.shard
            places == {place(row) : row \in RowsFor(t)}
<1>1. RowsFor(t) \subseteq Row
  BY IndexTypes DEF RowsFor
<1>2. \A row \in RowsFor(t) : place(row) \in Nat
  <2>1. DOMAIN ShardSeq = 1..Len(ShardSeq)
    BY IndexConstants
  <2>2. ASSUME NEW row \in RowsFor(t) PROVE place(row) \in Nat
    <3>1. row.shard \in Shards
      BY <1>1 DEF Row
    <3>2. PICK i \in 1..Len(ShardSeq) : ShardSeq[i] = row.shard
      BY <3>1, IndexConstants
    <3>3. place(row) \in DOMAIN ShardSeq
      BY <2>1, <3>2
    <3>. QED BY <2>1, <3>3
  <2>. QED BY <2>2
<1>. HIDE DEF place
<1>3. PICK m \in places : \A n \in places : m <= n
  <2>1. places \in SUBSET Nat /\ places # {}
    BY <1>2
  <2>. QED BY <2>1, Smallest
<1>. DEFINE front == {row \in RowsFor(t) : place(row) = m}
            groups == {row.group : row \in front}
<1>4. front # {} /\ \A row \in front : row.group \in Nat
  <2>1. front # {}
    BY <1>3
  <2>2. Groups \in Nat
    BY IndexConstants
  <2>3. \A row \in Row : row.group \in Nat
    BY <2>2 DEF Row
  <2>. QED BY <1>1, <2>1, <2>3
<1>5. PICK g \in groups : \A n \in groups : g <= n
  <2>1. groups \in SUBSET Nat /\ groups # {}
    BY <1>4
  <2>. QED BY <2>1, Smallest
<1>6. PICK row \in front : row.group = g
  BY <1>5
<1>7. ASSUME NEW other \in RowsFor(t)
      PROVE  \/ place(row) < place(other)
             \/ place(row) = place(other) /\ row.group <= other.group
  <2>1. place(row) = m /\ m <= place(other) /\ m \in Nat /\ place(other) \in Nat
    BY <1>2, <1>3, <1>6
  <2>2. CASE place(other) = m
    BY <1>5, <1>6, <2>1, <2>2
  <2>3. CASE place(other) # m
    BY <2>1, <2>3
  <2>. QED BY <2>2, <2>3
<1>8. row \in RowsFor(t)
  BY <1>6
<1>9. FirstRow(t) = CHOOSE x \in RowsFor(t) : \A other \in RowsFor(t) :
                       \/ place(x) < place(other)
                       \/ place(x) = place(other) /\ x.group <= other.group
  BY DEF FirstRow, place
<1>. HIDE DEF front, groups
<1>. QED BY <1>7, <1>8, <1>9

\* A complete index without rows of old shards finds the titles V1 has, and no others.
LEMMA RowsAreExact ==
    ASSUME IndexInv, index = "ready", StaleRowsRemoved, NEW t
    PROVE  /\ t \in V1Titles <=> RowsFor(t) # {}
           /\ t \in V1Titles => t # NoMatch
           /\ \A row \in RowsFor(t) : TitleAt[row.shard][v1[row.shard]][row.group] = t
<1>1. /\ EffectivePaths \subseteq Shards /\ \A s \in EffectivePaths : v1[s] \in 1..MaxVersion
      /\ rows \subseteq Row
  BY IndexTypes
<1>2. /\ TitleAt \in [Shards -> [1..MaxVersion -> [1..Groups -> Titles]]]
      /\ NoMatch \notin Titles
  BY IndexConstants
<1>3. {row \in rows : row.shard \in EffectivePaths}
        = UNION {{[shard |-> s, version |-> v1[s], group |-> g] : g \in 1..Groups}
                 : s \in EffectivePaths}
  BY IndexExact DEF CompleteIndexExact, IsReady
<1>4. \A row \in rows : row.shard \in EffectivePaths
  BY DEF StaleRowsRemoved, IsReady
<1>5. ASSUME NEW row \in rows
      PROVE  /\ row.version = v1[row.shard] /\ row.shard \in EffectivePaths
             /\ row.group \in 1..Groups
  <2>1. PICK s \in EffectivePaths, g \in 1..Groups :
           row = [shard |-> s, version |-> v1[s], group |-> g]
    BY <1>3, <1>4
  <2>. QED BY <2>1
<1>6. \A row \in RowsFor(t) : row \in rows /\ TitleOf(row) = t
  BY DEF RowsFor
<1>7. ASSUME t \in V1Titles PROVE RowsFor(t) # {} /\ t # NoMatch
  <2>1. PICK s \in EffectivePaths, g \in 1..Groups : t = TitleAt[s][v1[s]][g]
    BY <1>7 DEF V1Titles
  <2>2. [shard |-> s, version |-> v1[s], group |-> g] \in rows
    BY <1>3, <2>1
  <2>3. TitleOf([shard |-> s, version |-> v1[s], group |-> g]) = t
    BY <2>1 DEF TitleOf
  <2>4. t \in Titles
    <3>1. s \in Shards /\ v1[s] \in 1..MaxVersion
      BY <1>1
    <3>2. TitleAt[s] \in [1..MaxVersion -> [1..Groups -> Titles]]
      BY <1>2, <3>1
    <3>3. TitleAt[s][v1[s]] \in [1..Groups -> Titles]
      BY <3>1, <3>2
    <3>. QED BY <2>1, <3>3
  <2>. QED BY <1>2, <2>2, <2>3, <2>4 DEF RowsFor
<1>8. ASSUME RowsFor(t) # {} PROVE t \in V1Titles
  <2>1. PICK row \in RowsFor(t) : TRUE
    BY <1>8
  <2>. QED BY <1>5, <1>6, <2>1 DEF TitleOf, V1Titles
<1>9. \A row \in RowsFor(t) : TitleAt[row.shard][v1[row.shard]][row.group] = t
  BY <1>5, <1>6 DEF TitleOf
<1>. QED BY <1>7, <1>8, <1>9

\* A query of the index as it is now is sound.
LEMMA QueryIsSound ==
    ASSUME IndexInv, NEW t PROVE Sound(t, Query(t))
<1>. DEFINE q == Query(t)
            row == IF index = "init" \/ RowsFor(t) = {} THEN NoRow ELSE FirstRow(t)
<1>1. /\ q.early <=> ~IsReady
      /\ q.cached <=> IsReady /\ t \in DOMAIN queryCache
  BY Zenon DEF Query
<1>2. q.row = row
  BY DEF Query
<1>. HIDE DEF q
<1>3. ASSUME IsReady, RowsFor(t) # {} PROVE row # NoRow /\ row \in RowsFor(t)
  <2>1. row = FirstRow(t) /\ FirstRow(t) \in RowsFor(t)
    BY <1>3, FirstRowIsARow DEF IsReady
  <2>2. row \in Row
    BY <2>1, IndexTypes DEF RowsFor
  <2>3. row.version \in 1..MaxVersion
    BY <2>2 DEF Row
  <2>4. NoRow.version = 0 /\ 0 \notin 1..MaxVersion
    BY DEF NoRow
  <2>. HIDE DEF row
  <2>. QED BY <2>1, <2>3, <2>4
<1>4. ASSUME IsReady, RowsFor(t) = {} PROVE row = NoRow
  BY <1>4
<1>. HIDE DEF row
<1>5. Sound(t, q)
  BY <1>1, <1>2, <1>3, <1>4 DEF Sound
<1>. QED BY <1>5 DEF q

\* The answer to a sound query can be trusted.
LEMMA MaterializedIsTrusted ==
    ASSUME IndexInv, CacheInv, NEW t, NEW q, Sound(t, q) PROVE Trusted(t, Materialized(t, q))
<1>1. CASE q.cached
  BY <1>1 DEF Sound, CacheInv, Materialized
<1>2. CASE ~q.cached /\ q.row = NoRow
  <2>1. Materialized(t, q) = Answer(NoMatch, q.early)
    BY <1>2 DEF Materialized
  <2>2. Answer(NoMatch, q.early).title = NoMatch /\ Answer(NoMatch, q.early).early = q.early
    BY DEF Answer
  <2>3. ASSUME ~q.early PROVE IsReady /\ Right(t, NoMatch)
    <3>1. IsReady /\ RowsFor(t) = {}
      BY <1>2, <2>3 DEF Sound
    <3>2. StaleRowsRemoved => t \notin V1Titles
      BY <3>1, RowsAreExact DEF IsReady
    <3>. QED BY <3>1, <3>2 DEF Right
  <2>. QED BY <2>1, <2>2, <2>3 DEF Trusted
<1>3. CASE ~q.cached /\ q.row # NoRow /\ t \in DOMAIN rowCache
  BY <1>3 DEF CacheInv, Materialized
<1>4. CASE ~q.cached /\ q.row # NoRow /\ t \notin DOMAIN rowCache
  <2>. DEFINE title == TitleAt[q.row.shard][v1[q.row.shard]][q.row.group]
  <2>1. Materialized(t, q) = Answer(title, q.early)
    BY <1>4 DEF Materialized
  <2>2. Answer(title, q.early).title = title /\ Answer(title, q.early).early = q.early
    BY DEF Answer
  <2>3. ASSUME ~q.early PROVE IsReady /\ Right(t, title)
    <3>1. IsReady /\ q.row \in RowsFor(t)
      BY <1>4, <2>3 DEF Sound
    <3>2. StaleRowsRemoved => t \in V1Titles /\ title = t
      BY <3>1, RowsAreExact DEF IsReady
    <3>. QED BY <3>1, <3>2 DEF Right
  <2>. HIDE DEF title
  <2>. QED BY <2>1, <2>2, <2>3 DEF Trusted
<1>. QED BY <1>1, <1>2, <1>3, <1>4

\* Nothing the caches speak of changes.
LEMMA CacheKept ==
    ASSUME CacheInv, UNCHANGED <<v1, rows, index, cacheVars>>,
           UNCHANGED <<pc, work>> \/ pc' \notin {"match", "rematch", "idle"}
    PROVE  CacheInv'
<1>1. StaleRowsRemoved' <=> StaleRowsRemoved
  BY DEF StaleRowsRemoved, IsReady, EffectivePaths
<1>2. V1Titles' = V1Titles
  BY DEF V1Titles, EffectivePaths
<1>3. IsReady' <=> IsReady
  BY DEF IsReady
<1>4. ASSUME NEW t, NEW a PROVE Trusted(t, a)' <=> Trusted(t, a)
  BY <1>1, <1>2, <1>3 DEF Trusted, Right
<1>5. ASSUME NEW t, NEW q PROVE Sound(t, q)' <=> Sound(t, q)
  <2>1. RowsFor(t)' = RowsFor(t)
    BY DEF RowsFor
  <2>. QED BY <1>3, <2>1 DEF Sound, cacheVars
<1>6. queryCache' = queryCache /\ rowCache' = rowCache
  BY DEF cacheVars
<1>7. (\A t \in DOMAIN queryCache : Trusted(t, queryCache[t]))'
  BY <1>4, <1>6 DEF CacheInv
<1>8. (\A t \in DOMAIN rowCache : Trusted(t, rowCache[t]))'
  BY <1>4, <1>6 DEF CacheInv
<1>9. (pc \in {"match", "rematch"} => \A t \in DOMAIN work.queries : Sound(t, work.queries[t]))'
  BY <1>5 DEF CacheInv
<1>. QED BY <1>6, <1>7, <1>8, <1>9 DEF CacheInv

\* The queries that begin are sound.
LEMMA QueriesBegin ==
    ASSUME IndexInv, CacheInv, UNCHANGED <<v1, rows, index, cacheVars>>,
           pc' \in {"match", "rematch"}, NEW titles,
           work'.queries = [t \in titles |-> Query(t)]
    PROVE  CacheInv'
<1>1. StaleRowsRemoved' <=> StaleRowsRemoved
  BY DEF StaleRowsRemoved, IsReady, EffectivePaths
<1>2. V1Titles' = V1Titles
  BY DEF V1Titles, EffectivePaths
<1>3. IsReady' <=> IsReady
  BY DEF IsReady
<1>4. ASSUME NEW t, NEW a PROVE Trusted(t, a)' <=> Trusted(t, a)
  BY <1>1, <1>2, <1>3 DEF Trusted, Right
<1>5. ASSUME NEW t, NEW q PROVE Sound(t, q)' <=> Sound(t, q)
  <2>1. RowsFor(t)' = RowsFor(t)
    BY DEF RowsFor
  <2>. QED BY <1>3, <2>1 DEF Sound, cacheVars
<1>6. queryCache' = queryCache /\ rowCache' = rowCache
  BY DEF cacheVars
<1>7. (\A t \in DOMAIN queryCache : Trusted(t, queryCache[t]))'
  BY <1>4, <1>6 DEF CacheInv
<1>8. (\A t \in DOMAIN rowCache : Trusted(t, rowCache[t]))'
  BY <1>4, <1>6 DEF CacheInv
<1>9. \A t \in titles : Sound(t, Query(t))
  BY QueryIsSound
<1>10. \A t \in titles : Sound(t, work'.queries[t])
  BY <1>9
<1>11. DOMAIN work'.queries = titles
  OBVIOUS
<1>12. (pc \in {"match", "rematch"} => \A t \in DOMAIN work.queries : Sound(t, work.queries[t]))'
  BY <1>5, <1>10, <1>11
<1>. QED BY <1>6, <1>7, <1>8, <1>12 DEF CacheInv

\* What is put into the caches can be trusted.
LEMMA CachesFilled ==
    ASSUME IndexInv, CacheInv, UNCHANGED <<v1, rows, index>>,
           pc' \notin {"match", "rematch", "idle"}, NEW queries, FillCaches(queries),
           \A t \in DOMAIN queries : Sound(t, queries[t])
    PROVE  CacheInv'
<1>. DEFINE read == {t \in DOMAIN queries : queries[t].asked /\ ~queries[t].cached}
            found == {t \in read : queries[t].row # NoRow}
            answer(t) == Materialized(t, queries[t])
<1>1. \A t \in DOMAIN queries : Trusted(t, answer(t))
  BY MaterializedIsTrusted
<1>2. /\ rowCache' = [t \in DOMAIN rowCache \cup found |->
                         IF t \in found THEN answer(t) ELSE rowCache[t]]
      /\ \/ queryCache' = queryCache
         \/ queryCache' = [t \in DOMAIN queryCache \cup read |->
                              IF t \in read THEN answer(t) ELSE queryCache[t]]
  BY DEF FillCaches
<1>3. read \subseteq DOMAIN queries /\ found \subseteq DOMAIN queries
  OBVIOUS
<1>. HIDE DEF read, found, answer
<1>4. StaleRowsRemoved' <=> StaleRowsRemoved
  BY DEF StaleRowsRemoved, IsReady, EffectivePaths
<1>5. V1Titles' = V1Titles
  BY DEF V1Titles, EffectivePaths
<1>6. IsReady' <=> IsReady
  BY DEF IsReady
<1>7. ASSUME NEW t, NEW a PROVE Trusted(t, a)' <=> Trusted(t, a)
  BY <1>4, <1>5, <1>6 DEF Trusted, Right
<1>8. \A t \in DOMAIN rowCache' : Trusted(t, rowCache'[t])
  BY <1>1, <1>2, <1>3 DEF CacheInv
<1>9. \A t \in DOMAIN queryCache' : Trusted(t, queryCache'[t])
  BY <1>1, <1>2, <1>3 DEF CacheInv
<1>10. (\A t \in DOMAIN queryCache : Trusted(t, queryCache[t]))'
  BY <1>7, <1>9
<1>11. (\A t \in DOMAIN rowCache : Trusted(t, rowCache[t]))'
  BY <1>7, <1>8
<1>. QED BY <1>10, <1>11 DEF CacheInv

\* While the index is not complete, all that was read of it is early, and stays so.
LEMMA EarlyStaysEarly ==
    ASSUME CacheInv, ~IsReady, UNCHANGED <<pc, work, queryCache>>,
           rowCache' = rowCache \/ rowCache' = NoCache
    PROVE  CacheInv'
<1>1. \A t \in DOMAIN queryCache : queryCache[t].early
  BY DEF CacheInv, Trusted
<1>2. \A t \in DOMAIN rowCache : rowCache[t].early
  BY DEF CacheInv, Trusted
<1>3. pc \in {"match", "rematch"} => \A t \in DOMAIN work.queries :
         work.queries[t].early /\ ~work.queries[t].cached
  BY DEF CacheInv, Sound
<1>4. DOMAIN NoCache = {}
  BY DEF NoCache
<1>5. (\A t \in DOMAIN queryCache : Trusted(t, queryCache[t]))'
  BY <1>1 DEF Trusted
<1>6. (\A t \in DOMAIN rowCache : Trusted(t, rowCache[t]))'
  BY <1>2, <1>4 DEF Trusted
<1>7. (pc \in {"match", "rematch"} => \A t \in DOMAIN work.queries : Sound(t, work.queries[t]))'
  BY <1>3 DEF Sound
<1>8. (pc = "idle" => queryCache = NoCache /\ rowCache = NoCache)'
  BY DEF CacheInv
<1>. QED BY <1>5, <1>6, <1>7, <1>8 DEF CacheInv

\* Nothing is cached before the next run.
LEMMA NothingCached ==
    ASSUME queryCache' = NoCache, rowCache' = NoCache, pc' \notin {"match", "rematch"}
    PROVE  CacheInv'
<1>1. DOMAIN NoCache = {}
  BY DEF NoCache
<1>2. (\A t \in DOMAIN queryCache : Trusted(t, queryCache[t]))'
  BY <1>1
<1>3. (\A t \in DOMAIN rowCache : Trusted(t, rowCache[t]))'
  BY <1>1
<1>. QED BY <1>2, <1>3 DEF CacheInv

\* The links of polygons with different ids: at most one each, to the document found.
LEMMA LinksAreSingle ==
    ASSUME NEW docOf, NEW c, c.links = LinksTo(docOf), UniqueIds(DOMAIN docOf),
           NEW p \in DOMAIN docOf
    PROVE  /\ docOf[p] = NoDoc => LinksOf(c, p) = {}
           /\ docOf[p] # NoDoc => LinksOf(c, p) = {<<p.id, docOf[p]>>}
<1>1. LinksOf(c, p) = {l \in LinksTo(docOf) : l[1] = p.id}
  BY DEF LinksOf
<1>2. ASSUME NEW l \in LinksOf(c, p) PROVE docOf[p] # NoDoc /\ l = <<p.id, docOf[p]>>
  <2>1. PICK q \in DOMAIN docOf : docOf[q] # NoDoc /\ l = <<q.id, docOf[q]>> /\ l[1] = p.id
    BY <1>1, <1>2 DEF LinksTo
  <2>2. q.id = p.id
    BY <2>1
  <2>3. q = p
    BY <2>2 DEF UniqueIds
  <2>. QED BY <2>1, <2>3
<1>3. docOf[p] # NoDoc => <<p.id, docOf[p]>> \in LinksOf(c, p)
  <2>1. <<p.id, docOf[p]>>[1] = p.id
    OBVIOUS
  <2>. QED BY <1>1, <2>1 DEF LinksTo
<1>. QED BY <1>2, <1>3

\* What a reconciliation computes keeps the promise of a reconciled region.
LEMMA ReconciledIsExact ==
    ASSUME IndexInv, CacheInv, index = "ready", NEW polygons, UniqueIds(polygons), NEW docs,
           NEW early, early = {t \in Refs(polygons) : FinalAnswer(t).early}, NEW links,
           links = LinksTo([p \in WithRef(polygons) |-> ReconciledDoc(p, docs)]),
           NEW others
    PROVE  Exact(Content(polygons, DocsOf(links) \cup others, links, SeenTitles, early))
<1>. DEFINE docOf == [p \in WithRef(polygons) |-> ReconciledDoc(p, docs)]
            c == Content(polygons, DocsOf(links) \cup others, links, SeenTitles, early)
<1>1. /\ c.polygons = polygons /\ c.links = links /\ c.seen = SeenTitles
      /\ c.docs = DocsOf(links) \cup others /\ c.early = early
  BY DEF Content
<1>. SUFFICES ASSUME c.seen # {"unknown"}
              PROVE  /\ \A p \in WithRef(polygons) : ExactFor(c, p) \/ p.ref \in early
                     /\ \A l \in links : l[2] \in c.docs
  BY <1>1 DEF Exact
<1>2. StaleRowsRemoved /\ c.seen = V1Titles
  BY <1>1 DEF SeenTitles
<1>. HIDE DEF c
<1>3. \A l \in links : l[2] \in c.docs
  BY <1>1 DEF DocsOf
<1>4. ASSUME NEW p \in WithRef(polygons), p.ref \notin early PROVE ExactFor(c, p)
  <2>1. p \in polygons /\ p.ref # NoRef /\ ~FinalAnswer(p.ref).early
    BY <1>4 DEF WithRef, HasRef, Refs
  <2>2. /\ p.ref \in V1Titles => FinalMatch(p.ref) = p.ref /\ p.ref # NoMatch
        /\ p.ref \notin V1Titles => FinalMatch(p.ref) = NoMatch
    <3>1. Trusted(p.ref, FinalAnswer(p.ref))
      BY QueryIsSound, MaterializedIsTrusted DEF FinalAnswer
    <3>2. FinalMatch(p.ref) = IF p.ref \in V1Titles THEN p.ref ELSE NoMatch
      BY <1>2, <2>1, <3>1 DEF Trusted, Right, FinalMatch
    <3>3. p.ref \in V1Titles => p.ref # NoMatch
      BY <1>2, RowsAreExact
    <3>. QED BY <3>2, <3>3
  <2>3. DOMAIN docOf = WithRef(polygons) /\ docOf[p] = ReconciledDoc(p, docs)
        /\ UniqueIds(WithRef(polygons)) /\ c.links = LinksTo(docOf)
    BY <1>1 DEF UniqueIds, WithRef
  <2>. HIDE DEF docOf
  <2>4. /\ docOf[p] = NoDoc => LinksOf(c, p) = {}
        /\ docOf[p] # NoDoc => LinksOf(c, p) = {<<p.id, docOf[p]>>}
    BY <2>3, LinksAreSingle
  <2>5. CASE p.ref \in V1Titles
    <3>1. docOf[p] = V1Doc(p.ref)
      BY <2>2, <2>3, <2>5 DEF ReconciledDoc
    <3>2. V1Doc(p.ref) # NoDoc
      <4>1. V1Doc(p.ref).origin = "v1" /\ NoDoc.origin = "none"
        BY DEF V1Doc, NoDoc
      <4>. QED BY <4>1
    <3>. QED BY <1>2, <2>4, <2>5, <3>1, <3>2 DEF ExactFor
  <2>6. CASE p.ref \notin V1Titles
    <3>1. NoDoc.title = NoRef
      BY DEF NoDoc
    <3>2. /\ docOf[p] # NoDoc => docOf[p].title = p.ref
          /\ p.ref \in Pages => docOf[p] # NoDoc
      <4>1. CASE \E d \in docs : d.title = p.ref
        <5>1. docOf[p] = CHOOSE d \in docs : d.title = p.ref
          BY <2>2, <2>3, <2>6, <4>1 DEF ReconciledDoc
        <5>2. docOf[p].title = p.ref
          BY <4>1, <5>1
        <5>. QED BY <2>1, <3>1, <5>2
      <4>2. CASE ~\E d \in docs : d.title = p.ref
        <5>1. docOf[p] = Fetched(p.ref)
          BY <2>2, <2>3, <2>6, <4>2 DEF ReconciledDoc
        <5>2. DirectDoc(p.ref).title = p.ref
          BY DEF DirectDoc
        <5>. QED BY <2>1, <3>1, <5>1, <5>2 DEF Fetched
      <4>. QED BY <4>1, <4>2
    <3>3. Cardinality(LinksOf(c, p)) <= 1
      <4>1. Cardinality({}) = 0 /\ Cardinality({<<p.id, docOf[p]>>}) = 1
        BY FS_EmptySet, FS_Singleton
      <4>. QED BY <2>4, <4>1
    <3>4. \A l \in LinksOf(c, p) : l[2].title = p.ref
      BY <2>4, <3>2
    <3>. QED BY <1>2, <2>4, <2>6, <3>2, <3>3, <3>4 DEF ExactFor
  <2>. QED BY <2>5, <2>6
<1>. QED BY <1>3, <1>4

\* A region without a Wikipedia tag has no link to be wrong about.
LEMMA UntaggedIsExact ==
    ASSUME NEW polygons, WithRef(polygons) = {}, NEW docOf, DOMAIN docOf = WithRef(polygons)
    PROVE  Exact(Content(polygons, DocsOf(LinksTo(docOf)), LinksTo(docOf), {}, {}))
<1>1. LinksTo(docOf) = {}
  BY DEF LinksTo
<1>. QED BY <1>1 DEF Exact, Content

------------------------------------------------------------------------------
(* The region at hand *)

\* The fields of nothing.
LEMMA NoWorkShape ==
    /\ NoWork.mode = "merge" /\ NoWork.reconciled \in BOOLEAN
    /\ NoWork = [region |-> NoWork.region, mode |-> NoWork.mode, found |-> NoWork.found,
                 polygons |-> NoWork.polygons, queries |-> NoWork.queries,
                   matches |-> NoWork.matches,
                 results |-> NoWork.results, content |-> NoWork.content,
                 reconciled |-> NoWork.reconciled]
BY Zenon DEF NoWork

\* Nothing is at hand.
LEMMA NoWorkFits ==
    ASSUME work' = NoWork, pc' \notin Busy PROVE WorkInv'
BY NoWorkShape DEF WorkInv, Busy, Merging, Storing

\* The steps of a merge up to its tables: what they have in common.
MergingStep == LoadMergeInputs \/ MatchTitles \/ EnrichOne \/ QueryAgain \/ Speculate
LEMMA MergingFacts ==
    ASSUME WorkInv, MergingStep
    PROVE  /\ pc \in Merging /\ pc' \in Merging \cup {"sections"}
           /\ work.mode = "merge" /\ work'.mode = "merge" /\ work'.region = work.region
           /\ UNCHANGED <<index, extraction, runs, outcome, plan, at, extracted, provisional,
                          pending, tables, manifest, hub>>
<1>1. pc \in Merging /\ pc' \in Merging \cup {"sections"}
  BY DEF MergingStep, LoadMergeInputs, MatchTitles, EnrichOne, QueryAgain, Speculate,
         EnrichmentFinished, Merging
<1>2. work.mode = "merge"
  BY <1>1 DEF WorkInv
<1>3. work'.mode = "merge" /\ work'.region = work.region
  <2>1. CASE LoadMergeInputs
    BY <1>2, <2>1 DEF LoadMergeInputs, WorkInv
  <2>2. CASE MatchTitles \/ EnrichOne \/ QueryAgain
    BY <1>2, <2>2 DEF MatchTitles, EnrichOne, QueryAgain, WorkInv
  <2>3. CASE Speculate
    <3>1. PICK content, b : work' = [NoWork EXCEPT !.region = work.region, !.found = work.found,
                                                   !.reconciled = b, !.content = content]
      BY <2>3 DEF Speculate
    <3>. QED BY <3>1 DEF NoWork
  <2>. QED BY <2>1, <2>2, <2>3 DEF MergingStep
<1>4. UNCHANGED <<index, extraction, runs, outcome>>
  BY DEF MergingStep, LoadMergeInputs, MatchTitles, EnrichOne, QueryAgain, Speculate, MainOnly,
         QueriesOnly, indexVars
<1>5. UNCHANGED <<plan, at, extracted, provisional, pending, tables, manifest, hub>>
  BY DEF MergingStep, LoadMergeInputs, MatchTitles, EnrichOne, QueryAgain, Speculate, listVars
<1>. QED BY <1>1, <1>2, <1>3, <1>4, <1>5

\* Every step keeps what is known of the region at hand.
LEMMA WorkStep ==
    ASSUME IndexInv, ScanningInv, WorkInv, FilesInv, CacheInv, ListsInv, ProcessInv,
           [Next]_vars
    PROVE  WorkInv'
<1>1. CASE UNCHANGED <<pc, work>>
  BY <1>1 DEF WorkInv
<1>2. CASE UNCHANGED work /\ pc' \notin Busy \cup {"process"}
  BY <1>2 DEF WorkInv, Busy, Merging, Storing
<1>3. CASE BeginRun
  BY <1>3, NoWorkFits DEF BeginRun, Busy, Merging, Storing
<1>4. CASE SkipRegion \/ QueuePublish \/ QueueReconcile \/ FlushPending \/ PublishBatch
  BY <1>1, <1>4 DEF SkipRegion, QueuePublish, QueueReconcile, FlushPending, PublishBatch
<1>5. CASE TakeExtraction
  <2>1. /\ work' = [NoWork EXCEPT !.region = Here, !.found = Range(extraction.rows)]
        /\ pc' = "load" /\ extraction.phase = "done" /\ ~Done
        /\ DOMAIN plan = DOMAIN RegionSeq /\ at \in Nat \ {0}
    BY <1>5 DEF TakeExtraction, ProcessInv, Processing, WorkInv, ListsInv
  <2>2. Here \in Regions
    BY <2>1, BuildConstants DEF Here, Done
  <2>3. UniqueIds(Range(extraction.rows))
    BY <2>1, ExtractedAreUnique
  <2>4. /\ work'.region = Here /\ work'.mode = "merge" /\ work'.found = Range(extraction.rows)
    BY <2>1 DEF NoWork
  <2>5. work' = [region |-> work'.region, mode |-> work'.mode, found |-> work'.found,
                 polygons |-> work'.polygons, queries |-> work'.queries,
                 matches |-> work'.matches,
                 results |-> work'.results, content |-> work'.content,
                 reconciled |-> work'.reconciled]
    BY <2>1, Zenon DEF NoWork
  <2>6. work'.reconciled = FALSE
    BY <2>1 DEF NoWork
  <2>. QED BY <2>1, <2>2, <2>3, <2>4, <2>5, <2>6 DEF WorkInv, Busy, Merging, Storing
<1>6. CASE LoadMergeInputs
  <2>. DEFINE polygons == MergedPolygons(work.region, work.found)
  <2>1. PICK queries, results : work' = [work EXCEPT
           !.polygons = polygons, !.queries = queries, !.results = results,
           !.reconciled = WithRef(polygons) = {}]
    BY <1>6, Zenon DEF LoadMergeInputs
  <2>2. pc = "load" /\ pc' = "match"
    BY <1>6 DEF LoadMergeInputs
  <2>3. PICK b : b = (WithRef(polygons) = {})
    OBVIOUS
  <2>4. work' = [work EXCEPT !.polygons = polygons, !.queries = queries, !.results = results,
                             !.reconciled = b]
    BY <2>1, <2>3
  <2>5. work' = [region |-> work.region, mode |-> work.mode, found |-> work.found,
                 polygons |-> polygons, queries |-> queries, matches |-> work.matches,
                 results |-> results, content |-> work.content, reconciled |-> b]
    BY <2>4 DEF WorkInv
  <2>. QED BY <2>2, <2>3, <2>5 DEF WorkInv, Busy, Merging, Storing
<1>7. CASE EnrichOne
  <2>1. PICK results : work' = [work EXCEPT !.results = results]
    BY <1>7 DEF EnrichOne
  <2>2. pc = "enrich" /\ UNCHANGED pc
    BY <1>7 DEF EnrichOne
  <2>3. work' = [region |-> work.region, mode |-> work.mode, found |-> work.found,
                 polygons |-> work.polygons, queries |-> work.queries, matches |-> work.matches,
                 results |-> results, content |-> work.content, reconciled |-> work.reconciled]
    BY <2>1 DEF WorkInv
  <2>. QED BY <2>2, <2>3 DEF WorkInv, Busy, Merging, Storing
<1>17. CASE MatchTitles \/ QueryAgain
  <2>1. PICK queries, matches : work' = [work EXCEPT !.matches = matches, !.queries = queries]
    <3>1. CASE MatchTitles
      BY <1>17, <3>1 DEF MatchTitles
    <3>2. CASE QueryAgain
      <4>1. PICK queries : work' = [work EXCEPT !.queries = queries]
        BY <1>17, <3>2 DEF QueryAgain
      <4>2. work' = [work EXCEPT !.matches = work.matches, !.queries = queries]
        BY <4>1 DEF WorkInv
      <4>. QED BY <4>2
    <3>. QED BY <1>17, <3>1, <3>2
  <2>2. pc \in {"match", "enrich"} /\ pc' \in {"enrich", "rematch"}
    BY <1>17 DEF MatchTitles, QueryAgain, EnrichmentFinished
  <2>3. work' = [region |-> work.region, mode |-> work.mode, found |-> work.found,
                 polygons |-> work.polygons, queries |-> queries, matches |-> matches,
                 results |-> work.results, content |-> work.content,
                 reconciled |-> work.reconciled]
    BY <2>1 DEF WorkInv
  <2>. QED BY <2>2, <2>3 DEF WorkInv, Busy, Merging, Storing
<1>8. CASE Speculate
  <2>. DEFINE docOf == [p \in WithRef(work.polygons) |-> DocFor(p)]
              content == Content(work.polygons, DocsOf(LinksTo(docOf)), LinksTo(docOf), {}, {})
  <2>1. /\ work' = [NoWork EXCEPT !.region = work.region, !.found = work.found,
                                  !.reconciled = work.reconciled, !.content = content]
        /\ pc' = "sections" /\ pc = "rematch"
    BY <1>8, Zenon DEF Speculate
  <2>2. /\ work.region \in Regions /\ work.mode = "merge" /\ UniqueIds(work.found)
        /\ work.polygons = MergedPolygons(work.region, work.found)
        /\ work.reconciled = (WithRef(work.polygons) = {})
    BY <2>1 DEF WorkInv, Busy, Merging
  <2>3. IsContent(content) /\ content.polygons = work.polygons
    BY <2>2, MergedAreUnique DEF IsContent, Content
  <2>4. work.reconciled => Exact(content)
    <3>1. DOMAIN docOf = WithRef(work.polygons)
      OBVIOUS
    <3>. HIDE DEF docOf
    <3>. QED BY <2>2, <3>1, UntaggedIsExact
  <2>. HIDE DEF content
  <2>a. PICK b \in BOOLEAN : b = work.reconciled
    BY DEF WorkInv
  <2>5. work' = [region |-> work.region, mode |-> "merge", found |-> work.found,
                 polygons |-> {}, queries |-> <<>>, matches |-> <<>>, results |-> <<>>,
                 content |-> content, reconciled |-> b]
    <3>1. PICK no, none : /\ no = FALSE /\ none = EmptyContent
                          /\ NoWork = [region |-> NoRegion, mode |-> "merge", found |-> {},
                                       polygons |-> {}, queries |-> <<>>, matches |-> <<>>,
                                       results |-> <<>>, content |-> none, reconciled |-> no]
      BY Zenon DEF NoWork
    <3>2. work' = [NoWork EXCEPT !.region = work.region, !.found = work.found,
                                 !.reconciled = b, !.content = content]
      BY <2>1, <2>a
    <3>. QED BY <3>1, <3>2
  <2>6. b => Exact(content)
    BY <2>4, <2>a
  <2>7. /\ work'.region = work.region /\ work'.mode = "merge" /\ work'.found = work.found
        /\ work'.content = content /\ work'.reconciled = b
        /\ work' = [region |-> work'.region, mode |-> work'.mode, found |-> work'.found,
                    polygons |-> work'.polygons, queries |-> work'.queries,
                    matches |-> work'.matches, results |-> work'.results,
                    content |-> work'.content, reconciled |-> work'.reconciled]
    BY <2>5
  <2>8. MergedPolygons(work.region, work.found)' = MergedPolygons(work.region, work.found)
    BY <2>7 DEF MergedPolygons, V1Rows
  <2>. QED BY <2>1, <2>2, <2>3, <2>6, <2>7, <2>8 DEF WorkInv, Busy, Merging, Storing
<1>9. CASE CopySections \/ BuildSections \/ WriteTables
  BY <1>9 DEF CopySections, BuildSections, WriteTables, WorkInv, Busy, Merging, Storing
<1>10. CASE WriteManifest
  <2>1. CASE Deferred
    BY <1>10, <2>1, NoWorkFits DEF WriteManifest, Busy, Merging, Storing
  <2>2. CASE ~Deferred
    BY <1>10, <2>2 DEF WriteManifest, WorkInv, Busy, Merging, Storing
  <2>. QED BY <2>1, <2>2
<1>11. CASE ClearCheckpoints
  BY <1>11, NoWorkFits DEF ClearCheckpoints, Busy, Merging, Storing
<1>12. CASE WaitUntilReady \/ ReconciledAll \/ WriteMetadata \/ RunFails \/ EndRun
  BY <1>2, <1>12 DEF WaitUntilReady, ReconciledAll, WriteMetadata, RunFails, EndRun, Busy,
                     Merging, Storing
<1>13. CASE ReconcileRegion
  <2>. DEFINE r == provisional[at]
              old == tables[r][1].content
              links == LinksTo([p \in WithRef(old.polygons) |-> ReconciledDoc(p, old.docs)])
              others == {d \in old.docs : d.origin = "v1"}
              early == {t \in Refs(old.polygons) : FinalAnswer(t).early}
              content == Content(old.polygons, DocsOf(links) \cup others, links, SeenTitles, early)
  <2>1. /\ work' = [NoWork EXCEPT !.region = r, !.mode = "reconcile", !.reconciled = TRUE,
                                  !.content = content]
        /\ pc = "reconcile" /\ pc' = "sections" /\ at <= Len(provisional)
    BY <1>13 DEF ReconcileRegion
  <2>2. index = "ready" /\ r \in Regions
    BY <2>1 DEF ListsInv, Reconciling
  <2>3. UniqueIds(old.polygons)
    <3>1. \A q \in Regions : \A i \in 1..4 : IsContent(tables[q][i].content)
      BY DEF FilesInv
    <3>2. IsContent(old) /\ 1 \in 1..4
      BY <2>2, <3>1
    <3>. QED BY <3>2 DEF IsContent
  <2>4. Exact(content)
    <3>. HIDE DEF old
    <3>. QED BY <2>1, <2>2, <2>3, ReconciledIsExact
  <2>5. IsContent(content)
    BY <2>3 DEF IsContent, Content
  <2>. HIDE DEF content, r
  <2>6. PICK b : b = TRUE
    OBVIOUS
  <2>7. work' = [region |-> r, mode |-> "reconcile", found |-> {}, polygons |-> {},
                 queries |-> <<>>, matches |-> <<>>, results |-> <<>>, content |-> content,
                 reconciled |-> b]
    <3>1. PICK no, none : /\ no = FALSE /\ none = EmptyContent
                          /\ NoWork = [region |-> NoRegion, mode |-> "merge", found |-> {},
                                       polygons |-> {}, queries |-> <<>>, matches |-> <<>>,
                                       results |-> <<>>, content |-> none, reconciled |-> no]
      BY Zenon DEF NoWork
    <3>2. work' = [NoWork EXCEPT !.region = r, !.mode = "reconcile", !.reconciled = b,
                                 !.content = content]
      BY <2>1, <2>6
    <3>. QED BY <3>1, <3>2
  <2>. QED BY <2>1, <2>2, <2>4, <2>5, <2>6, <2>7 DEF WorkInv, Busy, Merging, Storing
<1>14. CASE Cleanup
  BY <1>14, NoWorkFits DEF Cleanup, Busy, Merging, Storing
<1>15. CASE Crash \/ CrashReplacing \/ CrashClearing
  BY <1>15, NoWorkFits DEF Crash, CrashReplacing, CrashClearing, ForgetMemory, Busy, Merging,
                           Storing
<1>16. CASE OtherStep
  BY <1>1, <1>16, OthersAreQuiet DEF Quiet
<1>. QED BY <1>3, <1>4, <1>5, <1>6, <1>7, <1>8, <1>9, <1>10, <1>11, <1>12, <1>13, <1>14, <1>15,
            <1>16, <1>17
         DEF Next, MainStep, MergeStep, MergingStep, OtherStep

\* Every step keeps what is known of the caches.
LEMMA CacheStep ==
    ASSUME IndexInv, WorkInv, CacheInv, [Next]_vars PROVE CacheInv'
<1>1. CASE BeginRun
  BY <1>1, NothingCached DEF BeginRun, StartIndex, CacheInv, cacheVars
<1>2. CASE SkipRegion \/ QueuePublish \/ QueueReconcile \/ FlushPending
  BY <1>2, CacheKept DEF SkipRegion, QueuePublish, QueueReconcile, FlushPending, MainOnly,
                         QueriesOnly, indexVars
<1>3. CASE TakeExtraction \/ WriteMetadata \/ RunFails
  BY <1>3, CacheKept DEF TakeExtraction, WriteMetadata, RunFails, indexVars
<1>4. CASE LoadMergeInputs
  <2>1. PICK titles : work'.queries = [t \in titles |-> Query(t)]
    BY <1>4 DEF LoadMergeInputs, WorkInv
  <2>2. UNCHANGED <<v1, rows, index, cacheVars>> /\ pc' \in {"match", "rematch"}
    BY <1>4 DEF LoadMergeInputs, MainOnly, QueriesOnly, indexVars
  <2>. QED BY <2>1, <2>2, QueriesBegin
<1>5. CASE QueryAgain
  <2>1. PICK titles : work'.queries = [t \in titles |-> Query(t)]
    BY <1>5 DEF QueryAgain, WorkInv
  <2>2. UNCHANGED <<v1, rows, index, cacheVars>> /\ pc' \in {"match", "rematch"}
    BY <1>5 DEF QueryAgain, MainOnly, QueriesOnly, indexVars
  <2>. QED BY <2>1, <2>2, QueriesBegin
<1>6. CASE MatchTitles \/ Speculate
  <2>1. /\ FillCaches(work.queries) /\ pc \in {"match", "rematch"}
        /\ pc' \notin {"match", "rematch", "idle"} /\ UNCHANGED <<v1, rows, index>>
    BY <1>6 DEF MatchTitles, Speculate, QueriesOnly, indexVars
  <2>2. \A t \in DOMAIN work.queries : Sound(t, work.queries[t])
    BY <2>1 DEF CacheInv
  <2>. QED BY <2>1, <2>2, CachesFilled
<1>7. CASE ReconcileRegion
  <2>1. PICK titles : FillCaches([t \in titles |-> Query(t)])
    BY <1>7 DEF ReconcileRegion
  <2>2. pc' \notin {"match", "rematch", "idle"} /\ UNCHANGED <<v1, rows, index>>
    BY <1>7 DEF ReconcileRegion, QueriesOnly, indexVars
  <2>. DEFINE queries == [t \in titles |-> Query(t)]
  <2>3. \A t \in DOMAIN queries : Sound(t, queries[t])
    BY QueryIsSound
  <2>. HIDE DEF queries
  <2>. QED BY <2>1, <2>2, <2>3, CachesFilled DEF queries
<1>8. CASE EnrichOne \/ CopySections \/ BuildSections \/ WriteTables \/ WriteManifest
           \/ ClearCheckpoints
  <2>1. /\ UNCHANGED <<v1, rows, index, cacheVars>>
        /\ pc' \notin {"match", "rematch", "idle"}
    BY <1>8 DEF EnrichOne, CopySections, BuildSections, WriteTables, WriteManifest,
                ClearCheckpoints, MainOnly, QueriesOnly, indexVars
  <2>. QED BY <2>1, CacheKept
<1>9. CASE WaitUntilReady \/ ReconciledAll \/ PublishBatch \/ Cleanup
  <2>1. /\ UNCHANGED <<v1, rows, index, cacheVars>>
        /\ pc' \notin {"match", "rematch", "idle"}
    BY <1>9 DEF WaitUntilReady, ReconciledAll, PublishBatch, Cleanup, MainOnly, QueriesOnly,
                indexVars
  <2>. QED BY <2>1, CacheKept
<1>10. CASE EndRun \/ Crash \/ CrashReplacing \/ CrashClearing
  BY <1>10, NothingCached DEF EndRun, Crash, CrashReplacing, CrashClearing, ForgetMemory,
                              ForgetIndex
<1>11. CASE ExtractionStep \/ ExtractionFails
  <2>1. UNCHANGED <<v1, rows, index, cacheVars, pc, work>>
    BY <1>11 DEF ExtractionStep, ExtractionFails, OpenCheckpoint, AppendChunk, AppendMetadata,
                 MarkComplete, ExtractionVarsOnly, indexVars, mainVars
  <2>. QED BY <2>1, CacheKept
<1>12. CASE IndexThread \/ IndexFailure
  <2>1. UNCHANGED <<pc, work>>
    BY <1>12 DEF IndexThread, IndexFailure, mainVars
  <2>2. /\ ~IsReady /\ queryCache' = queryCache
        /\ rowCache' = rowCache \/ rowCache' = NoCache
    BY <1>12 DEF IndexThread, IndexFailure, IndexStep, IndexFails, InitializeSchema,
                 RemoveStalePaths, StopScan, UnchangedShard, PrepareShard, CommitIndexedRowGroup,
                 FinalizeShard, FinishSync, IsReady, cacheVars
  <2>. QED BY <2>1, <2>2, EarlyStaysEarly
<1>13. CASE Outside
  <2>1. pc' = "idle" /\ UNCHANGED cacheVars /\ pc = "idle"
    BY <1>13 DEF Outside, V1Changes, mainVars
  <2>. QED BY <2>1, NothingCached DEF CacheInv, cacheVars
<1>14. CASE AllRunsDone \/ UNCHANGED vars
  BY <1>14, CacheKept DEF AllRunsDone, vars, indexVars, mainVars
<1>. QED BY <1>1, <1>2, <1>3, <1>4, <1>5, <1>6, <1>7, <1>8, <1>9, <1>10, <1>11, <1>12, <1>13,
            <1>14
         DEF Next, MainStep, MergeStep

------------------------------------------------------------------------------
(* The files *)

\* The four tables have places 1 to 4.
LEMMA FourTables == DOMAIN Tables = 1..4 /\ Len(Tables) = 4
BY DEF Tables

\* What the files hold when nothing was written: an empty content, which is exact.
LEMMA BlankFiles ==
    /\ IsContent(Missing.content) /\ IsContent(Sidecar.content)
    /\ NoEntry.reconciled \in BOOLEAN /\ ~NoEntry.reconciled
    /\ NoEntry.content.file = "missing" /\ Missing.file = "missing"
<1>1. UniqueIds({})
  BY DEF UniqueIds
<1>2. IsContent(EmptyContent)
  BY <1>1 DEF EmptyContent, Content, IsContent
<1>3. Missing.content = EmptyContent /\ Sidecar.content = EmptyContent /\ Missing.file = "missing"
  BY DEF Missing, Sidecar
<1>4. NoEntry.content = Missing /\ NoEntry.reconciled = FALSE
  BY DEF NoEntry
<1>. QED BY <1>2, <1>3, <1>4

\* Every step keeps what is known of the files.
LEMMA FilesStep ==
    ASSUME WorkInv, FilesInv, [Next]_vars PROVE FilesInv'
<1>1. /\ tables = [r \in Regions |-> tables[r]] /\ manifest = [r \in Regions |-> manifest[r]]
      /\ hub = [r \in Regions |-> hub[r]]
      /\ \A r \in Regions :
            /\ tables[r] = [i \in 1..4 |-> tables[r][i]]
            /\ \A i \in 1..4 : IsContent(tables[r][i].content)
      /\ \A r \in Regions :
            /\ manifest[r].reconciled \in BOOLEAN
            /\ manifest[r] = NoEntry \/ manifest[r].content.file = "v2"
            /\ manifest[r].reconciled => Exact(manifest[r].content.content)
      /\ \A r \in Regions : hub[r].reconciled \in BOOLEAN
  BY DEF FilesInv
<1>2. CASE UNCHANGED <<tables, manifest, hub>>
  BY <1>1, <1>2 DEF FilesInv
<1>3. ASSUME UNCHANGED <<manifest, hub>>, NEW q \in Regions, NEW new,
             tables' = [tables EXCEPT ![q] = new], new = [i \in 1..4 |-> new[i]],
             \A i \in 1..4 : IsContent(new[i].content)
      PROVE  FilesInv'
  <2>1. tables' = [r \in Regions |-> tables'[r]]
    BY <1>1, <1>3
  <2>2. \A r \in Regions : /\ tables'[r] = [i \in 1..4 |-> tables'[r][i]]
                           /\ \A i \in 1..4 : IsContent(tables'[r][i].content)
    BY <1>1, <1>3
  <2>. QED BY <1>1, <1>3, <2>1, <2>2 DEF FilesInv
<1>4. ASSUME NEW stems, hub' = Committed(stems), UNCHANGED <<tables, manifest>> PROVE FilesInv'
  <2>1. hub' = [r \in Regions |-> hub'[r]]
    BY <1>4 DEF Committed
  <2>2. \A r \in Regions : hub'[r].reconciled \in BOOLEAN
    BY <1>1, <1>4 DEF Committed
  <2>. QED BY <1>1, <1>4, <2>1, <2>2 DEF FilesInv
<1>5. CASE FlushPending \/ PublishBatch
  BY <1>4, <1>5 DEF FlushPending, PublishBatch
<1>6. CASE CopySections
  <2>1. CASE work.mode = "reconcile"
    BY <1>2, <1>6, <2>1 DEF CopySections
  <2>2. CASE work.mode # "reconcile"
    <3>. DEFINE q == work.region
                new == [i \in 1..4 |-> IF i = 3 THEN Sidecar ELSE tables[q][i]]
    <3>1. q \in Regions
      BY <1>6 DEF CopySections, WorkInv, Busy, Merging, Storing
    <3>2. tables' = [tables EXCEPT ![q][3] = Sidecar]
      BY <1>6, <2>2 DEF CopySections
    <3>3. tables[q] = [i \in 1..4 |-> tables[q][i]]
      BY <1>1, <3>1
    <3>4. [tables[q] EXCEPT ![3] = Sidecar] = new
      BY <3>3
    <3>5. tables' = [tables EXCEPT ![q] = [tables[q] EXCEPT ![3] = Sidecar]]
      BY <1>1, <3>1, <3>2
    <3>6. \A i \in 1..4 : IsContent(new[i].content)
      BY <1>1, <3>1, BlankFiles
    <3>7. new = [i \in 1..4 |-> new[i]] /\ UNCHANGED <<manifest, hub>>
      BY <1>6 DEF CopySections
    <3>. HIDE DEF new, q
    <3>. QED BY <1>3, <3>1, <3>4, <3>5, <3>6, <3>7
  <2>. QED BY <2>1, <2>2
<1>7. CASE WriteTables
  <2>. DEFINE new == [i \in 1..4 |-> Written(work.content)]
  <2>1. /\ work.region \in Regions /\ IsContent(work.content) /\ UNCHANGED <<manifest, hub>>
    BY <1>7 DEF WriteTables, WorkInv, Busy, Merging, Storing
  <2>2. tables' = [tables EXCEPT ![work.region] = new]
    BY <1>7, FourTables DEF WriteTables
  <2>3. \A i \in 1..4 : IsContent(new[i].content)
    BY <2>1 DEF Written
  <2>4. new = [i \in 1..4 |-> new[i]]
    OBVIOUS
  <2>. HIDE DEF new
  <2>. QED BY <1>3, <2>1, <2>2, <2>3, <2>4
<1>8. CASE WriteManifest
  <2>. DEFINE q == work.region
              new == Entry(work.content, work.reconciled)
  <2>1. /\ q \in Regions /\ work.reconciled \in BOOLEAN /\ UNCHANGED <<tables, hub>>
        /\ work.reconciled => Exact(work.content)
        /\ manifest' = [manifest EXCEPT ![q] = new]
    BY <1>8 DEF WriteManifest, WorkInv, Busy, Merging, Storing
  <2>2. /\ new.reconciled = work.reconciled /\ new.content = Written(work.content)
        /\ new.content.file = "v2" /\ new.content.content = work.content
    BY DEF Entry, Written
  <2>. HIDE DEF new
  <2>3. manifest' = [r \in Regions |-> manifest'[r]]
    BY <1>1, <2>1
  <2>4. \A r \in Regions : manifest'[r] = IF r = q THEN new ELSE manifest[r]
    BY <1>1, <2>1
  <2>5. \A r \in Regions :
            /\ manifest'[r].reconciled \in BOOLEAN
            /\ manifest'[r] = NoEntry \/ manifest'[r].content.file = "v2"
            /\ manifest'[r].reconciled => Exact(manifest'[r].content.content)
    BY <1>1, <2>1, <2>2, <2>4
  <2>. QED BY <1>1, <2>1, <2>3, <2>5 DEF FilesInv
<1>9. CASE CrashReplacing
  <2>. DEFINE q == work.region
              away(k) == [i \in 1..4 |-> IF i <= k THEN Missing ELSE tables[q][i]]
              half(k) == [i \in 1..4 |-> IF i <= k THEN Written(work.content) ELSE Missing]
  <2>1. q \in Regions /\ IsContent(work.content) /\ UNCHANGED <<manifest, hub>>
    BY <1>9 DEF CrashReplacing, ForgetMemory, WorkInv, Busy, Merging, Storing
  <2>2. PICK k \in 1..4 : \/ tables' = [tables EXCEPT ![q] = away(k)]
                          \/ tables' = [tables EXCEPT ![q] = half(k)]
    <3>1. PICK k \in 1..4 :
             \/ tables' = [tables EXCEPT ![q] =
                              [i \in 1..4 |-> IF i <= k THEN Missing ELSE @[i]]]
             \/ tables' = [tables EXCEPT ![q] = half(k)]
      BY <1>9, FourTables, Zenon DEF CrashReplacing
    <3>2. tables' = [tables EXCEPT ![q] = [i \in 1..4 |-> IF i <= k THEN Missing ELSE @[i]]]
             => tables' = [tables EXCEPT ![q] = away(k)]
      BY <1>1, <2>1
    <3>. QED BY <3>1, <3>2
  <2>3. /\ \A i \in 1..4 : IsContent(away(k)[i].content)
        /\ \A i \in 1..4 : IsContent(half(k)[i].content)
    BY <1>1, <2>1, BlankFiles DEF Written
  <2>4. away(k) = [i \in 1..4 |-> away(k)[i]] /\ half(k) = [i \in 1..4 |-> half(k)[i]]
    OBVIOUS
  <2>. HIDE DEF away, half
  <2>. QED BY <1>3, <2>1, <2>2, <2>3, <2>4
<1>10. CASE BeginRun \/ TakeExtraction \/ RunFails \/ WriteMetadata \/ Cleanup \/ EndRun
  BY <1>2, <1>10 DEF BeginRun, TakeExtraction, RunFails, WriteMetadata, Cleanup, EndRun, fileVars
<1>11. CASE SkipRegion \/ QueuePublish \/ QueueReconcile \/ WaitUntilReady \/ ReconcileRegion
            \/ ReconciledAll
  BY <1>2, <1>11 DEF SkipRegion, QueuePublish, QueueReconcile, WaitUntilReady, ReconcileRegion,
                     ReconciledAll
<1>12. CASE LoadMergeInputs \/ MatchTitles \/ EnrichOne \/ QueryAgain \/ Speculate
            \/ BuildSections \/ ClearCheckpoints
  BY <1>2, <1>12 DEF LoadMergeInputs, MatchTitles, EnrichOne, QueryAgain, Speculate,
                     BuildSections, ClearCheckpoints
<1>13. CASE Crash \/ CrashClearing
  BY <1>2, <1>13 DEF Crash, CrashClearing, ForgetMemory
<1>14. CASE OtherStep
  BY <1>2, <1>14, OthersAreQuiet DEF Quiet
<1>. QED BY <1>5, <1>6, <1>7, <1>8, <1>9, <1>10, <1>11, <1>12, <1>13, <1>14
         DEF Next, MainStep, MergeStep, MergingStep, OtherStep

------------------------------------------------------------------------------
(* The lists *)

\* The region at the place of the plan is one.
LEMMA HereIsARegion ==
    ASSUME ListsInv, pc = "process", ~Done PROVE Here \in Regions /\ at \in 1..Len(RegionSeq)
<1>1. at \in Nat \ {0} /\ at <= Len(RegionSeq)
  BY BuildConstants DEF ListsInv, Done
<1>. QED BY <1>1, BuildConstants DEF Here

\* Every step keeps the lists, and the index ready while regions are reconciled.
LEMMA ListsStep ==
    ASSUME WorkInv, ListsInv, [Next]_vars PROVE ListsInv'
<1>1. /\ at \in Nat \ {0} /\ runs \in 0..MaxRuns /\ MaxRuns \in Nat
      /\ extracted \in Seq(Regions) /\ provisional \in Seq(Regions) /\ pending \in Seq(Regions)
  BY BuildConstants DEF ListsInv
<1>2. /\ <<>> \in Seq(Regions)
      /\ \A list \in Seq(Regions), r \in Regions : Append(list, r) \in Seq(Regions)
  OBVIOUS
<1>3. CASE BeginRun
  <2>1. runs' \in 0..MaxRuns
    BY <1>1, <1>3 DEF BeginRun
  <2>. QED BY <1>2, <1>3, <2>1 DEF BeginRun, ListsInv, Reconciling, Busy, Merging, Storing, Ended
<1>4. CASE SkipRegion \/ QueuePublish \/ QueueReconcile
  <2>1. Here \in Regions
    BY <1>4, HereIsARegion DEF SkipRegion, QueuePublish, QueueReconcile
  <2>2. /\ at' = at + 1 /\ pc = "process" /\ UNCHANGED <<pc, index, extraction, runs, outcome>>
        /\ extracted' = extracted \/ extracted' = Append(extracted, Here)
        /\ provisional' = provisional \/ provisional' = Append(provisional, Here)
        /\ pending' = pending \/ pending' = Append(pending, Here)
    BY <1>4 DEF SkipRegion, QueuePublish, QueueReconcile, MainOnly, QueriesOnly, listVars,
                indexVars
  <2>3. extracted' \in Seq(Regions) /\ provisional' \in Seq(Regions) /\ pending' \in Seq(Regions)
    BY <1>1, <1>2, <2>1, <2>2, Zenon
  <2>. QED BY <1>1, <2>2, <2>3 DEF ListsInv, Reconciling, Busy, Merging, Storing, Ended
<1>5. CASE FlushPending
  BY <1>1, <1>2, <1>5 DEF FlushPending, MainOnly, QueriesOnly, indexVars, ListsInv, Reconciling,
                          Busy, Merging, Storing,
                          Ended
<1>6. CASE TakeExtraction
  <2>1. work'.mode = "merge"
    BY <1>6 DEF TakeExtraction, NoWork
  <2>. QED BY <1>1, <1>6, <2>1 DEF TakeExtraction, indexVars, listVars, ListsInv, Reconciling,
                                   Busy,
                                   Merging, Storing, Ended
<1>7. CASE MergingStep
  <2>1. /\ UNCHANGED <<index, extraction, runs, outcome, at, extracted, provisional, pending>>
        /\ pc \in Merging /\ pc' \in Merging \cup {"sections"} /\ work'.mode = "merge"
    BY <1>7, MergingFacts
  <2>. QED BY <1>1, <2>1 DEF ListsInv, Reconciling, Busy, Merging, Storing, Ended
<1>8. CASE CopySections \/ BuildSections \/ WriteTables
  BY <1>1, <1>8 DEF CopySections, BuildSections, WriteTables, MainOnly, QueriesOnly, indexVars,
                    listVars,
                    ListsInv, Reconciling, Busy, Merging, Storing, Ended
<1>9. CASE WriteManifest
  <2>1. work.region \in Regions /\ pc = "manifest"
    BY <1>9 DEF WriteManifest, WorkInv, Busy, Merging, Storing
  <2>2. /\ extracted' = extracted \/ extracted' = Append(extracted, work.region)
        /\ UNCHANGED <<index, extraction, runs, outcome, pending>>
    BY <1>9 DEF WriteManifest, MainOnly, QueriesOnly, indexVars
  <2>3. \/ /\ pc' = "process" /\ at' = at + 1 /\ provisional' = Append(provisional, work.region)
        \/ /\ pc' = "clear" /\ UNCHANGED <<provisional, at, work>>
    BY <1>9 DEF WriteManifest
  <2>4. extracted' \in Seq(Regions) /\ provisional' \in Seq(Regions)
    BY <1>1, <1>2, <2>1, <2>2, <2>3, Zenon
  <2>5. at' \in Nat \ {0}
    BY <1>1, <2>3
  <2>. QED BY <1>1, <2>1, <2>2, <2>3, <2>4, <2>5 DEF ListsInv, Reconciling, Busy, Merging,
                                                     Storing, Ended
<1>10. CASE ClearCheckpoints
  <2>1. pc' = "reconcile" => Reconciling
    BY <1>10 DEF ClearCheckpoints, Reconciling, Storing, WorkInv
  <2>. QED BY <1>1, <1>10, <2>1 DEF ClearCheckpoints, MainOnly, QueriesOnly, indexVars, listVars,
                                    ListsInv,
                                    Reconciling, Busy, Merging, Storing, Ended
<1>11. CASE WaitUntilReady \/ ReconciledAll
  BY <1>1, <1>11 DEF WaitUntilReady, ReconciledAll, IsReady, MainOnly, QueriesOnly, indexVars,
                     listVars,
                     ListsInv, Reconciling, Busy, Merging, Storing, Ended
<1>12. CASE ReconcileRegion
  <2>1. Reconciling
    BY <1>12 DEF ReconcileRegion, Reconciling
  <2>. QED BY <1>1, <1>12, <2>1 DEF ReconcileRegion, MainOnly, QueriesOnly, indexVars, listVars,
                                    ListsInv, Busy,
                                    Merging, Storing, Ended
<1>13. CASE PublishBatch
  <2>1. at' \in Nat \ {0} /\ pc = "publish"
    BY <1>1, <1>13, BuildConstants DEF PublishBatch
  <2>. QED BY <1>1, <1>13, <2>1 DEF PublishBatch, MainOnly, QueriesOnly, indexVars, listVars,
                                    ListsInv,
                                    Reconciling, Busy, Merging, Storing, Ended
<1>14. CASE WriteMetadata \/ RunFails
  BY <1>1, <1>14 DEF WriteMetadata, RunFails, indexVars, listVars, ListsInv, Reconciling, Busy,
                     Merging, Storing, Ended
<1>15. CASE Cleanup
  <2>1. extraction'.phase = "idle"
    BY <1>15 DEF Cleanup, IdleExtraction
  <2>. QED BY <1>1, <1>15, <2>1 DEF Cleanup, listVars, ListsInv, Reconciling, Busy, Merging,
                                    Storing, Ended
<1>16. CASE EndRun
  BY <1>1, <1>2, <1>16 DEF EndRun, ForgetIndex, ListsInv, Reconciling, Busy, Merging, Storing, Ended
<1>17. CASE Crash \/ CrashReplacing \/ CrashClearing
  <2>1. ForgetMemory
    BY <1>17 DEF Crash, CrashReplacing, CrashClearing
  <2>2. extraction'.phase = "idle"
    BY <2>1 DEF ForgetMemory, IdleExtraction
  <2>. QED BY <1>1, <1>2, <2>1, <2>2 DEF ForgetMemory, ForgetIndex, ListsInv, Reconciling, Busy, Merging,
                                         Storing, Ended
<1>18. CASE OtherStep
  <2>1. Quiet /\ UNCHANGED runs
    BY <1>18, OthersAreQuiet
  <2>2. index \in {"off", "ready"} => UNCHANGED index
    BY <1>18 DEF OtherStep, ExtractionStep, ExtractionFails, OpenCheckpoint, AppendChunk,
                 AppendMetadata, MarkComplete, ExtractionVarsOnly, IndexThread, IndexFailure,
                 IndexStep, IndexFails, InitializeSchema, RemoveStalePaths, StopScan, FinishSync,
                 UnchangedShard, PrepareShard, CommitIndexedRowGroup, FinalizeShard, Outside,
                 V1Changes, AllRunsDone, vars, indexVars
  <2>3. extraction.phase = "idle" => UNCHANGED extraction
    BY <1>18 DEF OtherStep, ExtractionStep, ExtractionFails, OpenCheckpoint, AppendChunk,
                 AppendMetadata, MarkComplete, IndexThread, IndexFailure, Outside, AllRunsDone, vars
  <2>4. Reconciling' = Reconciling
    BY <2>1 DEF Quiet, Reconciling
  <2>. QED BY <2>1, <2>2, <2>3, <2>4 DEF Quiet, ListsInv
<1>. QED BY <1>3, <1>4, <1>5, <1>6, <1>7, <1>8, <1>9, <1>10, <1>11, <1>12, <1>13, <1>14, <1>15,
            <1>16, <1>17, <1>18
         DEF Next, MainStep, MergeStep, MergingStep, OtherStep

------------------------------------------------------------------------------
(* The plan *)

\* The members of a list, and of one with a member more.
LEMMA Members ==
    ASSUME NEW list \in Seq(Regions)
    PROVE  /\ Range(<<>>) = {} /\ Range(list) \subseteq Regions
           /\ \A r : Range(Append(list, r)) = Range(list) \cup {r}
           /\ \A r \in Range(list) : \E j \in 1..Len(list) : list[j] = r
           /\ \A j \in 1..Len(list) : list[j] \in Range(list)
<1>1. Range(<<>>) = {}
  BY DEF Range
<1>2. DOMAIN list = 1..Len(list) /\ \A j \in 1..Len(list) : list[j] \in Regions
  OBVIOUS
<1>3. ASSUME NEW r PROVE Range(Append(list, r)) = Range(list) \cup {r}
  <2>1. /\ DOMAIN Append(list, r) = 1..(Len(list) + 1) /\ Len(list) \in Nat
        /\ \A j \in 1..Len(list) : Append(list, r)[j] = list[j]
        /\ Append(list, r)[Len(list) + 1] = r
    OBVIOUS
  <2>2. 1..(Len(list) + 1) = (1..Len(list)) \cup {Len(list) + 1}
    BY <2>1
  <2>. QED BY <1>2, <2>1, <2>2 DEF Range
<1>. QED BY <1>1, <1>2, <1>3 DEF Range

\* The members of a batch are the members of the list at its places.
LEMMA BatchMembers ==
    ASSUME NEW list \in Seq(Regions), NEW first \in Nat \ {0}, NEW last \in 0..Len(list),
           first <= last
    PROVE  /\ \A j \in first..last : list[j] \in Range(SubSeq(list, first, last))
           /\ Range(SubSeq(list, first, last)) \subseteq Range(list)
<1>. DEFINE batch == SubSeq(list, first, last)
<1>1. /\ DOMAIN batch = 1..(last - first + 1)
      /\ \A k \in 1..(last - first + 1) : batch[k] = list[first + k - 1]
  OBVIOUS
<1>2. ASSUME NEW j \in first..last PROVE list[j] \in Range(batch)
  <2>1. (j - first + 1) \in 1..(last - first + 1) /\ first + (j - first + 1) - 1 = j
    OBVIOUS
  <2>. HIDE DEF batch
  <2>2. batch[j - first + 1] = list[j]
    BY <1>1, <2>1
  <2>. QED BY <1>1, <2>1, <2>2 DEF Range
<1>3. ASSUME NEW k \in 1..(last - first + 1) PROVE batch[k] \in Range(list)
  <2>1. (first + k - 1) \in 1..Len(list)
    OBVIOUS
  <2>. HIDE DEF batch
  <2>2. PICK i \in 1..Len(list) : batch[k] = list[i]
    BY <1>1, <2>1
  <2>3. DOMAIN list = 1..Len(list)
    OBVIOUS
  <2>. QED BY <2>2, <2>3 DEF Range
<1>. HIDE DEF batch
<1>4. Range(batch) \subseteq Range(list)
  BY <1>1, <1>3 DEF Range
<1>. QED BY <1>2, <1>4 DEF batch

\* A region whose tables match its entry can be committed.
LEMMA CommittedAreOnHub ==
    ASSUME FilesInv, NEW stems, hub' = Committed(stems), NEW r \in Regions,
           r \in Range(stems) => ArtifactsCurrent(r)
    PROVE  /\ OnHub(r) => OnHub(r)'
           /\ r \in Range(stems) => OnHub(r)'
           /\ r \notin Range(stems) => hub'[r] = hub[r]
<1>1. r \notin Range(stems) => hub'[r] = hub[r]
  BY DEF Committed
<1>2. ASSUME r \in Range(stems) PROVE OnHub(r)'
  <2>1. tables[r][1] = manifest[r].content /\ manifest[r].content.file = "v2"
    BY <1>2, FourTables DEF ArtifactsCurrent, FilesInv
  <2>2. hub'[r].content = tables[r][1]
    BY <1>2 DEF Committed
  <2>3. hub'[r].content.file # NoEntry.content.file
    BY <2>1, <2>2, BlankFiles
  <2>. QED BY <2>3 DEF OnHub
<1>. QED BY <1>1, <1>2 DEF OnHub

\* Nothing but an upload and the writes of the region at hand changes a region's files.
LEMMA InstalledStep ==
    ASSUME WorkInv, FilesInv, InstalledInv, [Next]_vars PROVE InstalledInv'
<1>1. CASE WriteTables
  <2>1. /\ work.region \in Regions /\ UNCHANGED work
        /\ tables' = [tables EXCEPT ![work.region] =
                         [i \in 1..4 |-> Written(work.content)]]
    BY <1>1, FourTables DEF WriteTables, WorkInv, Busy, Merging, Storing
  <2>2. tables = [r \in Regions |-> tables[r]]
    BY DEF FilesInv
  <2>3. tables'[work.region] = [i \in 1..4 |-> Written(work.content)]
    BY <2>1, <2>2
  <2>. QED BY <2>1, <2>3 DEF InstalledInv
<1>2. CASE BeginRun \/ TakeExtraction \/ RunFails \/ WriteMetadata \/ Cleanup \/ EndRun
  BY <1>2 DEF BeginRun, TakeExtraction, RunFails, WriteMetadata, Cleanup, EndRun, InstalledInv
<1>3. CASE SkipRegion \/ QueuePublish \/ QueueReconcile \/ FlushPending \/ WaitUntilReady
           \/ ReconcileRegion \/ ReconciledAll \/ PublishBatch
  BY <1>3 DEF SkipRegion, QueuePublish, QueueReconcile, FlushPending, WaitUntilReady,
              ReconcileRegion, ReconciledAll, PublishBatch, InstalledInv
<1>4. CASE LoadMergeInputs \/ MatchTitles \/ EnrichOne \/ QueryAgain \/ Speculate
           \/ CopySections \/ BuildSections
           \/ WriteManifest \/ ClearCheckpoints
  BY <1>4 DEF LoadMergeInputs, MatchTitles, EnrichOne, QueryAgain, Speculate, CopySections,
              BuildSections, WriteManifest,
              ClearCheckpoints, InstalledInv
<1>5. CASE Crash \/ CrashReplacing \/ CrashClearing
  BY <1>5 DEF Crash, CrashReplacing, CrashClearing, ForgetMemory, InstalledInv
<1>6. CASE OtherStep
  BY <1>6, OthersAreQuiet DEF Quiet, InstalledInv
<1>. QED BY <1>1, <1>2, <1>3, <1>4, <1>5, <1>6 DEF Next, MainStep, MergeStep, MergingStep,
                                                   OtherStep

\* A region whose manifest entry was just written is installed; the others keep theirs.
LEMMA WrittenIsCurrent ==
    ASSUME WorkInv, FilesInv, InstalledInv, WriteManifest
    PROVE  /\ work.region \in Regions
           /\ \A r \in Regions : r = work.region =>
                 ArtifactsCurrent(r)' /\ manifest'[r].reconciled = work.reconciled
           /\ \A r \in Regions : r # work.region => manifest'[r] = manifest[r]
<1>. DEFINE new == Entry(work.content, work.reconciled)
<1>1. /\ pc = "manifest" /\ work.region \in Regions /\ UNCHANGED tables
      /\ manifest' = [manifest EXCEPT ![work.region] = new]
  BY DEF WriteManifest, WorkInv, Busy, Merging, Storing
<1>2. manifest = [r \in Regions |-> manifest[r]]
  BY DEF FilesInv
<1>3. /\ new.reconciled = work.reconciled /\ new.content = Written(work.content)
      /\ new.content.file = "v2"
  BY DEF Entry, Written
<1>. HIDE DEF new
<1>4. manifest'[work.region] = new
  BY <1>1, <1>2
<1>5. new # NoEntry
  BY <1>3, BlankFiles
<1>6. \A i \in 1..4 : tables'[work.region][i] = new.content
  BY <1>1, <1>3 DEF InstalledInv
<1>7. ASSUME NEW r \in Regions, r = work.region
      PROVE  ArtifactsCurrent(r)' /\ manifest'[r].reconciled = work.reconciled
  BY <1>3, <1>4, <1>5, <1>6, <1>7, FourTables DEF ArtifactsCurrent
<1>. QED BY <1>1, <1>2, <1>7

\* What ProcessInv says while regions are processed.
LEMMA ProcessFacts ==
    ASSUME ProcessInv, Processing
    PROVE  /\ DOMAIN plan = 1..Len(RegionSeq) /\ at <= Len(RegionSeq) + 1
           /\ pc \in Busy => at <= Len(RegionSeq) /\ work.region = RegionSeq[at]
           /\ \A i \in 1..Len(RegionSeq) : Behind(i) => Handled(RegionSeq[i])
           /\ \A i \in 1..Len(RegionSeq) : i >= at /\ ~Behind(i) => Untouched(RegionSeq[i])
           /\ \A i \in 1..Len(RegionSeq) : Ahead(i) => AsPlanned(i)
           /\ \A r \in Range(pending) : manifest[r].reconciled
           /\ \A r \in Range(extracted) : Covered(r)
BY BuildConstants DEF ProcessInv

\* The region at hand alone is written to; the rest of the plan stands.
LEMMA ProcessKept ==
    ASSUME ListsInv, ProcessInv, Processing,
           UNCHANGED <<plan, at, extracted, provisional, pending, manifest, hub>>,
           pc # "clear", pc' \in Busy \ {"clear"}, at <= Len(RegionSeq),
           work'.region = RegionSeq[at],
           \A i \in 1..Len(RegionSeq) : i # at => tables'[RegionSeq[i]] = tables[RegionSeq[i]]
    PROVE  ProcessInv'
<1>1. /\ DOMAIN plan = 1..Len(RegionSeq) /\ at <= Len(RegionSeq) + 1
      /\ \A i \in 1..Len(RegionSeq) : Behind(i) => Handled(RegionSeq[i])
      /\ \A i \in 1..Len(RegionSeq) : i >= at /\ ~Behind(i) => Untouched(RegionSeq[i])
      /\ \A i \in 1..Len(RegionSeq) : Ahead(i) => AsPlanned(i)
      /\ \A r \in Range(pending) : manifest[r].reconciled
      /\ \A r \in Range(extracted) : Covered(r)
  BY ProcessFacts
<1>2. at \in 1..Len(RegionSeq) /\ Len(RegionSeq) \in Nat /\ extracted \in Seq(Regions)
  BY BuildConstants DEF ListsInv
<1>3. ASSUME NEW i \in 1..Len(RegionSeq)
      PROVE  /\ Behind(i)' => Handled(RegionSeq[i])'
             /\ i >= at /\ ~Behind(i)' => Untouched(RegionSeq[i])'
             /\ Ahead(i)' => AsPlanned(i)'
  <2>1. (Behind(i)' <=> i < at) /\ (Behind(i) <=> i < at) /\ (Ahead(i)' => i > at)
    BY <1>2 DEF Behind, Ahead
  <2>2. i > at => Ahead(i)
    BY DEF Ahead
  <2>3. Behind(i)' => Handled(RegionSeq[i])'
    <3>1. ASSUME i < at PROVE Handled(RegionSeq[i])'
      <4>1. tables'[RegionSeq[i]] = tables[RegionSeq[i]]
        BY <1>2, <3>1
      <4>. QED BY <1>1, <2>1, <3>1, <4>1 DEF Handled, ArtifactsCurrent, OnHub
    <3>. QED BY <2>1, <3>1
  <2>4. i >= at /\ ~Behind(i)' => Untouched(RegionSeq[i])'
    BY <1>1, <2>1 DEF Untouched
  <2>5. Ahead(i)' => AsPlanned(i)'
    <3>1. ASSUME i > at PROVE AsPlanned(i)'
      <4>1. tables'[RegionSeq[i]] = tables[RegionSeq[i]]
        BY <1>2, <3>1
      <4>. QED BY <1>1, <2>2, <3>1, <4>1 DEF AsPlanned, ArtifactsCurrent, OnHub
    <3>. QED BY <2>1, <3>1
  <2>. QED BY <2>3, <2>4, <2>5
<1>4. ASSUME NEW r \in Range(extracted) PROVE Covered(r)'
  <2>1. r \in Regions
    BY <1>2, Members
  <2>2. PICK i \in 1..Len(RegionSeq) : RegionSeq[i] = r
    BY <2>1, BuildConstants
  <2>3. i # at
    BY <1>1, <1>2, <2>2 DEF Behind, Untouched
  <2>. QED BY <1>1, <2>2, <2>3 DEF Covered, OnlyV1Refs
<1>. QED BY <1>1, <1>2, <1>3, <1>4, BuildConstants DEF ProcessInv

\* Every step keeps what is known while regions are processed.
LEMMA ProcessStep ==
    ASSUME WorkInv, FilesInv, ListsInv, InstalledInv, ProcessInv, [Next]_vars PROVE ProcessInv'
<1>1. /\ at \in Nat \ {0} /\ Len(RegionSeq) \in Nat
      /\ extracted \in Seq(Regions) /\ provisional \in Seq(Regions) /\ pending \in Seq(Regions)
      /\ \A i, j \in 1..Len(RegionSeq) : RegionSeq[i] = RegionSeq[j] => i = j
      /\ \A i \in 1..Len(RegionSeq) : RegionSeq[i] \in Regions
      /\ DOMAIN RegionSeq = 1..Len(RegionSeq)
  BY BuildConstants DEF ListsInv
<1>2. Processing =>
         /\ DOMAIN plan = 1..Len(RegionSeq) /\ at <= Len(RegionSeq) + 1
         /\ pc \in Busy => at <= Len(RegionSeq) /\ work.region = RegionSeq[at]
         /\ \A i \in 1..Len(RegionSeq) : Behind(i) => Handled(RegionSeq[i])
         /\ \A i \in 1..Len(RegionSeq) : i >= at /\ ~Behind(i) => Untouched(RegionSeq[i])
         /\ \A i \in 1..Len(RegionSeq) : Ahead(i) => AsPlanned(i)
         /\ \A r \in Range(pending) : manifest[r].reconciled
         /\ \A r \in Range(extracted) : Covered(r)
  BY ProcessFacts
<1>3. pc = "process" => Processing
  BY DEF Processing, WorkInv
<1>4. CASE BeginRun
  <2>1. PICK force \in ForceModes :
           plan' = [i \in DOMAIN RegionSeq |-> RegionAction(RegionSeq[i], force)]
    BY <1>4 DEF BeginRun
  <2>2. /\ pc' = "process" /\ at' = 1 /\ extracted' = <<>> /\ provisional' = <<>>
        /\ pending' = <<>> /\ UNCHANGED <<tables, manifest, hub>>
    BY <1>4 DEF BeginRun, fileVars
  <2>3. Range(<<>>) = {}
    BY <1>1, Members
  <2>4. \A i \in 1..Len(RegionSeq) : ~Behind(i)' /\ Untouched(RegionSeq[i])'
    BY <2>2, <2>3 DEF Behind, Untouched
  <2>5. ASSUME NEW i \in 1..Len(RegionSeq) PROVE AsPlanned(i)'
    <3>1. plan'[i] = RegionAction(RegionSeq[i], force)
      BY <1>1, <2>1
    <3>. QED BY <2>2, <3>1 DEF AsPlanned, RegionAction, RemoteRegionComplete, OnHub,
                               ArtifactsCurrent
  <2>6. DOMAIN plan' = DOMAIN RegionSeq
    BY <2>1
  <2>7. /\ Range(pending') = {} /\ Range(extracted') = {} /\ pc' \notin Busy
        /\ at' <= Len(RegionSeq) + 1
    BY <1>1, <2>2, <2>3 DEF Busy, Merging, Storing
  <2>. QED BY <2>4, <2>5, <2>6, <2>7 DEF ProcessInv
<1>5. CASE SkipRegion \/ QueuePublish \/ QueueReconcile
  <2>1. /\ pc = "process" /\ pc' = "process" /\ at' = at + 1 /\ at <= Len(RegionSeq)
        /\ UNCHANGED <<plan, tables, manifest, hub>>
    BY <1>1, <1>5 DEF SkipRegion, QueuePublish, QueueReconcile, Done
  <2>2. \/ plan[at] = "skip" /\ UNCHANGED <<extracted, provisional, pending>>
        \/ plan[at] = "publish" /\ pending' = Append(pending, Here)
             /\ UNCHANGED <<extracted, provisional>>
        \/ plan[at] = "reconcile" /\ extracted' = Append(extracted, Here)
             /\ provisional' = Append(provisional, Here) /\ UNCHANGED pending
    BY <1>5 DEF SkipRegion, QueuePublish, QueueReconcile, listVars
  <2>3. /\ Range(Append(pending, Here)) = Range(pending) \cup {Here}
        /\ Range(Append(extracted, Here)) = Range(extracted) \cup {Here}
        /\ Range(Append(provisional, Here)) = Range(provisional) \cup {Here}
    BY <1>1, Members
  <2>4. /\ Range(pending) \subseteq Range(pending') /\ Range(extracted) \subseteq Range(extracted')
        /\ Range(provisional) \subseteq Range(provisional')
        /\ Range(pending') \subseteq Range(pending) \cup {Here}
        /\ Range(extracted') \subseteq Range(extracted) \cup {Here}
        /\ Range(provisional') \subseteq Range(provisional) \cup {Here}
    BY <2>2, <2>3
  <2>5. Processing /\ at \in 1..Len(RegionSeq) /\ Here = RegionSeq[at]
    BY <1>1, <1>3, <2>1 DEF Here
  <2>6. AsPlanned(at)
    BY <1>2, <2>1, <2>5 DEF Ahead, Busy, Merging, Storing
  <2>7. PICK here : here = RegionSeq[at]
    OBVIOUS
  <2>a. Handled(here)'
    <3>1. ArtifactsCurrent(here)' = ArtifactsCurrent(here) /\ OnHub(here)' = OnHub(here)
      BY <2>1 DEF ArtifactsCurrent, OnHub
    <3>2. \/ plan[at] = "skip"
          \/ here \in Range(pending') \cup Range(extracted')
      BY <2>2, <2>3, <2>5, <2>7
    <3>3. ArtifactsCurrent(here) /\ (plan[at] = "skip" => OnHub(here))
      BY <2>2, <2>6, <2>7 DEF AsPlanned
    <3>. QED BY <3>1, <3>2, <3>3 DEF Handled
  <2>8. ASSUME NEW i \in 1..Len(RegionSeq)
        PROVE  /\ Behind(i)' => Handled(RegionSeq[i])'
               /\ i >= at' /\ ~Behind(i)' => Untouched(RegionSeq[i])'
               /\ Ahead(i)' => AsPlanned(i)'
    <3>1. /\ Behind(i)' <=> i < at \/ i = at
          /\ Behind(i) <=> i < at
          /\ i >= at' => i > at /\ RegionSeq[i] # Here
          /\ Ahead(i)' => Ahead(i) /\ RegionSeq[i] # Here
      BY <1>1, <2>1, <2>5 DEF Behind, Ahead
    <3>2. Behind(i)' => Handled(RegionSeq[i])'
      <4>1. CASE i = at
        BY <2>7, <2>a, <4>1
      <4>2. CASE i < at
        BY <1>2, <2>1, <2>4, <2>5, <3>1, <4>2 DEF Handled, ArtifactsCurrent, OnHub
      <4>. QED BY <3>1, <4>1, <4>2
    <3>3. i >= at' => Untouched(RegionSeq[i])'
      BY <1>1, <1>2, <2>1, <2>4, <2>5, <3>1 DEF Untouched
    <3>4. Ahead(i)' => AsPlanned(i)'
      BY <1>2, <2>1, <2>5, <3>1 DEF AsPlanned, ArtifactsCurrent, OnHub
    <3>. QED BY <3>2, <3>3, <3>4
  <2>9. \A r \in Range(pending') : manifest'[r].reconciled
    <3>1. Here \in Range(pending') => manifest[Here].reconciled
      BY <1>2, <2>2, <2>5, <2>6 DEF AsPlanned
    <3>. QED BY <1>2, <2>1, <2>4, <2>5, <3>1
  <2>10. \A r \in Range(extracted') : Covered(r)'
    <3>1. \A r \in Range(extracted) : Covered(r)'
      BY <1>2, <2>1, <2>4, <2>5 DEF Covered, OnlyV1Refs
    <3>2. extracted' = extracted \/ Here \in Range(provisional')
      BY <2>2, <2>3
    <3>. QED BY <2>4, <3>1, <3>2 DEF Covered
  <2>. QED BY <1>1, <1>2, <2>1, <2>5, <2>8, <2>9, <2>10 DEF ProcessInv, Busy, Merging, Storing
<1>8. CASE FlushPending
  <2>1. /\ pc = "process" /\ UNCHANGED <<pc, plan, at, extracted, provisional, tables, manifest>>
        /\ hub' = Committed(pending) /\ pending' = <<>>
    BY <1>8 DEF FlushPending
  <2>2. Processing /\ Range(<<>>) = {} /\ Range(pending) \subseteq Regions
    BY <1>1, <1>3, <2>1, Members
  <2>3. ASSUME NEW r \in Range(pending) PROVE ArtifactsCurrent(r)
    <3>1. PICK i \in 1..Len(RegionSeq) : RegionSeq[i] = r
      BY <2>2, BuildConstants
    <3>2. Behind(i)
      BY <1>1, <1>2, <2>2, <3>1 DEF Untouched, Behind
    <3>. QED BY <1>2, <2>2, <3>1, <3>2 DEF Handled
  <2>4. \A r \in Regions : /\ OnHub(r) => OnHub(r)'
                           /\ r \in Range(pending) => OnHub(r)'
    BY <2>1, <2>3, CommittedAreOnHub
  <2>5. ASSUME NEW i \in 1..Len(RegionSeq)
        PROVE  /\ Behind(i)' => Handled(RegionSeq[i])'
               /\ i >= at' /\ ~Behind(i)' => Untouched(RegionSeq[i])'
               /\ Ahead(i)' => AsPlanned(i)'
    <3>1. Behind(i)' = Behind(i) /\ Ahead(i)' = Ahead(i)
      BY <2>1 DEF Behind, Ahead
    <3>2. ArtifactsCurrent(RegionSeq[i])' = ArtifactsCurrent(RegionSeq[i])
      BY <2>1 DEF ArtifactsCurrent
    <3>3. Behind(i) => Handled(RegionSeq[i])'
      BY <1>1, <1>2, <2>1, <2>2, <2>4, <3>2 DEF Handled
    <3>4. Untouched(RegionSeq[i]) => Untouched(RegionSeq[i])'
      BY <2>1, <2>2 DEF Untouched
    <3>5. AsPlanned(i) => AsPlanned(i)'
      BY <1>1, <2>1, <2>4, <3>2 DEF AsPlanned
    <3>. QED BY <1>2, <2>1, <2>2, <3>1, <3>3, <3>4, <3>5
  <2>6. \A r \in Range(extracted') : Covered(r)'
    BY <1>2, <2>1, <2>2 DEF Covered, OnlyV1Refs
  <2>. QED BY <1>1, <1>2, <2>1, <2>2, <2>5, <2>6 DEF ProcessInv, Busy, Merging, Storing
<1>9. CASE TakeExtraction
  <2>1. /\ work'.region = Here /\ pc = "process" /\ pc' = "load" /\ at <= Len(RegionSeq)
        /\ UNCHANGED <<plan, at, extracted, provisional, pending, tables, manifest, hub>>
    BY <1>1, <1>9 DEF TakeExtraction, NoWork, fileVars, listVars, Done
  <2>. QED BY <1>3, <2>1, ProcessKept DEF Busy, Merging, Here
<1>10. CASE MergingStep
  <2>1. /\ pc \in Merging /\ pc' \in Merging \cup {"sections"} /\ work.mode = "merge"
        /\ work'.region = work.region
        /\ UNCHANGED <<plan, at, extracted, provisional, pending, tables, manifest, hub>>
    BY <1>10, MergingFacts
  <2>2. Processing
    BY <2>1 DEF Processing, Busy
  <2>3. work'.region = RegionSeq[at] /\ at <= Len(RegionSeq)
    BY <1>2, <2>1, <2>2 DEF Busy
  <2>. QED BY <2>1, <2>2, <2>3, ProcessKept DEF Busy, Merging, Storing
<1>11. CASE CopySections \/ BuildSections \/ WriteTables
  <2>1. CASE work.mode = "reconcile"
    BY <1>11, <2>1 DEF CopySections, BuildSections, WriteTables, ProcessInv, Processing
  <2>2. CASE work.mode = "merge"
    <3>1. /\ pc \in {"sections", "fetch-sections", "write"}
          /\ pc' \in {"fetch-sections", "write", "manifest"}
          /\ UNCHANGED <<plan, at, extracted, provisional, pending, manifest, hub, work>>
      BY <1>11 DEF CopySections, BuildSections, WriteTables, listVars
    <3>2. Processing
      BY <2>2, <3>1 DEF Processing, Busy, Merging, Storing
    <3>3. at <= Len(RegionSeq) /\ work.region = RegionSeq[at]
      BY <1>2, <3>1, <3>2 DEF Busy, Merging, Storing
    <3>4. ASSUME NEW i \in 1..Len(RegionSeq), i # at
          PROVE  tables'[RegionSeq[i]] = tables[RegionSeq[i]]
      <4>1. RegionSeq[i] # work.region /\ RegionSeq[i] \in Regions
        BY <1>1, <3>3, <3>4
      <4>2. tables = [r \in Regions |-> tables[r]]
        BY DEF FilesInv
      <4>. QED BY <1>11, <2>2, <4>1, <4>2 DEF CopySections, BuildSections, WriteTables
    <3>. QED BY <3>1, <3>2, <3>3, <3>4, ProcessKept DEF Busy, Merging, Storing
  <2>. QED BY <2>1, <2>2 DEF WorkInv
<1>12. CASE WriteManifest
  <2>1. CASE work.mode = "reconcile"
    BY <1>12, <2>1 DEF WriteManifest, Deferred, ProcessInv, Processing
  <2>2. CASE work.mode = "merge"
    <3>1. /\ pc = "manifest" /\ extracted' = Append(extracted, work.region)
          /\ UNCHANGED <<plan, pending, tables, hub>>
          /\ \/ /\ provisional' = Append(provisional, work.region)
                /\ pc' = "process" /\ at' = at + 1
             \/ /\ ~Deferred /\ pc' = "clear" /\ UNCHANGED <<provisional, at, work>>
      BY <1>12, <2>2 DEF WriteManifest
    <3>2. Processing /\ at \in 1..Len(RegionSeq) /\ work.region = RegionSeq[at]
      <4>1. Processing
        BY <2>2, <3>1 DEF Processing, Busy, Merging, Storing
      <4>. QED BY <1>1, <1>2, <3>1, <4>1 DEF Busy, Merging, Storing
    <3>3. PICK r \in Regions : r = work.region
      BY <1>1, <3>2
    <3>4. /\ Range(extracted') = Range(extracted) \cup {r}
          /\ Range(provisional') = Range(provisional)
               \/ Range(provisional') = Range(provisional) \cup {r}
          /\ Deferred => r \in Range(provisional')
      <4>1. /\ Range(Append(extracted, r)) = Range(extracted) \cup {r}
            /\ Range(Append(provisional, r)) = Range(provisional) \cup {r}
        BY <1>1, Members
      <4>. QED BY <3>1, <3>3, <4>1
    <3>5. /\ ArtifactsCurrent(r)'
          /\ \A q \in Regions \ {r} : manifest'[q] = manifest[q]
      BY <1>12, <3>1, <3>3, WrittenIsCurrent
    <3>6. ASSUME NEW i \in 1..Len(RegionSeq)
          PROVE  /\ Behind(i)' => Handled(RegionSeq[i])'
                 /\ i >= at' /\ ~Behind(i)' => Untouched(RegionSeq[i])'
                 /\ Ahead(i)' => AsPlanned(i)'
      <4>1. /\ Behind(i)' <=> i <= at
            /\ i >= at' /\ ~Behind(i)' => i > at
            /\ Ahead(i)' => i > at
        BY <1>1, <3>1, <3>2 DEF Behind, Ahead, Busy, Merging, Storing
      <4>2. i # at => RegionSeq[i] \in Regions \ {r}
        BY <1>1, <3>2, <3>3
      <4>3. i # at => ArtifactsCurrent(RegionSeq[i])' = ArtifactsCurrent(RegionSeq[i])
        BY <3>1, <3>5, <4>2 DEF ArtifactsCurrent
      <4>4. Behind(i)' => Handled(RegionSeq[i])'
        <5>1. CASE i = at
          BY <3>2, <3>3, <3>4, <3>5, <5>1 DEF Handled
        <5>2. CASE i < at
          <6>1. Handled(RegionSeq[i])
            BY <1>2, <3>2, <5>2 DEF Behind
          <6>2. /\ ArtifactsCurrent(RegionSeq[i])' = ArtifactsCurrent(RegionSeq[i])
                /\ OnHub(RegionSeq[i])' = OnHub(RegionSeq[i])
            BY <3>1, <3>2, <4>3, <5>2 DEF OnHub
          <6>. QED BY <3>1, <3>4, <6>1, <6>2 DEF Handled
        <5>. QED BY <1>1, <4>1, <5>1, <5>2
      <4>5. i > at => Untouched(RegionSeq[i])'
        <5>1. ASSUME i > at PROVE Untouched(RegionSeq[i]) /\ RegionSeq[i] # r
          <6>1. i >= at /\ i # at /\ ~Behind(i)
            BY <1>1, <3>2, <5>1 DEF Behind
          <6>2. Untouched(RegionSeq[i])
            BY <1>2, <3>2, <6>1
          <6>. QED BY <4>2, <6>1, <6>2
        <5>. QED BY <3>1, <3>4, <5>1 DEF Untouched
      <4>6. i > at => AsPlanned(i)'
        <5>1. ASSUME i > at PROVE AsPlanned(i)'
          <6>1. AsPlanned(i) /\ i # at
            <7>1. Ahead(i) /\ i # at
              BY <1>1, <3>2, <5>1 DEF Ahead
            <7>. QED BY <1>2, <3>2, <7>1
          <6>2. /\ manifest'[RegionSeq[i]] = manifest[RegionSeq[i]]
                /\ ArtifactsCurrent(RegionSeq[i])' = ArtifactsCurrent(RegionSeq[i])
                /\ OnHub(RegionSeq[i])' = OnHub(RegionSeq[i]) /\ plan'[i] = plan[i]
            BY <3>1, <3>5, <4>2, <4>3, <6>1 DEF OnHub
          <6>. QED BY <6>1, <6>2 DEF AsPlanned
        <5>. QED BY <5>1
      <4>. QED BY <4>1, <4>4, <4>5, <4>6
    <3>7. r \notin Range(pending) /\ r \notin Range(extracted)
      BY <1>1, <1>2, <3>1, <3>2, <3>3 DEF Behind, Untouched
    <3>8. \A q \in Range(pending') : manifest'[q].reconciled
      <4>1. Range(pending) \subseteq Regions
        BY <1>1, Members
      <4>. QED BY <1>2, <3>1, <3>2, <3>5, <3>7, <4>1
    <3>9. \A q \in Range(extracted') : Covered(q)'
      <4>1. \A q \in Range(extracted) : Covered(q)'
        BY <1>2, <3>1, <3>2, <3>4 DEF Covered, OnlyV1Refs
      <4>2. Covered(r)'
        <5>1. CASE Deferred
          BY <3>4, <5>1 DEF Covered
        <5>2. CASE ~Deferred
          <6>1. WithRef(work.found) = {}
            BY <2>2, <5>2 DEF Deferred
          <6>2. work.content.polygons = MergedPolygons(r, work.found)
            BY <2>2, <3>1, <3>3 DEF WorkInv, Storing
          <6>3. tables'[r][1].content = work.content
            BY <3>1, <3>3 DEF InstalledInv, Written
          <6>4. WithRef(MergedPolygons(r, work.found)) \subseteq V1Polygons[r]
            BY <6>1 DEF WithRef, MergedPolygons, V1Rows
          <6>. QED BY <6>2, <6>3, <6>4 DEF Covered, OnlyV1Refs
        <5>. QED BY <5>1, <5>2
      <4>. QED BY <3>4, <4>1, <4>2
    <3>10. /\ at' <= Len(RegionSeq) + 1 /\ DOMAIN plan' = DOMAIN RegionSeq
           /\ pc' \in Busy => at' <= Len(RegionSeq) /\ work'.region = RegionSeq[at']
      BY <1>1, <1>2, <3>1, <3>2 DEF Busy, Merging, Storing
    <3>. QED BY <3>6, <3>8, <3>9, <3>10 DEF ProcessInv
  <2>. QED BY <2>1, <2>2 DEF WorkInv
<1>13. CASE ClearCheckpoints
  <2>1. CASE work.mode = "reconcile"
    BY <1>13, <2>1 DEF ClearCheckpoints, ProcessInv, Processing, Busy, Merging, Storing
  <2>2. CASE work.mode = "merge"
    <3>1. /\ pc = "clear" /\ pc' = "process" /\ at' = at + 1
          /\ UNCHANGED <<plan, extracted, provisional, pending, tables, manifest, hub>>
      BY <1>13, <2>2 DEF ClearCheckpoints, listVars
    <3>2. Processing /\ at \in 1..Len(RegionSeq)
      <4>1. Processing
        BY <2>2, <3>1 DEF Processing, Busy, Merging, Storing
      <4>. QED BY <1>1, <1>2, <3>1, <4>1 DEF Busy, Merging, Storing
    <3>3. ASSUME NEW i \in 1..Len(RegionSeq)
          PROVE  /\ Behind(i)' => Handled(RegionSeq[i])'
                 /\ i >= at' /\ ~Behind(i)' => Untouched(RegionSeq[i])'
                 /\ Ahead(i)' => AsPlanned(i)'
      <4>1. /\ Behind(i)' => Behind(i)
            /\ i >= at' => i >= at /\ ~Behind(i)
            /\ Ahead(i)' => Ahead(i)
        BY <1>1, <3>1, <3>2 DEF Behind, Ahead
      <4>2. /\ Handled(RegionSeq[i])' = Handled(RegionSeq[i])
            /\ Untouched(RegionSeq[i])' = Untouched(RegionSeq[i])
            /\ AsPlanned(i)' = AsPlanned(i)
        BY <3>1 DEF Handled, Untouched, AsPlanned, ArtifactsCurrent, OnHub
      <4>. QED BY <1>2, <3>2, <4>1, <4>2
    <3>4. \A r \in Range(extracted') : Covered(r)'
      BY <1>2, <3>1, <3>2 DEF Covered, OnlyV1Refs
    <3>. QED BY <1>1, <1>2, <3>1, <3>2, <3>3, <3>4 DEF ProcessInv, Busy, Merging, Storing
  <2>. QED BY <2>1, <2>2 DEF WorkInv
<1>14. CASE ReconcileRegion
  BY <1>14 DEF ReconcileRegion, ProcessInv, Processing, NoWork
<1>15. CASE WaitUntilReady \/ ReconciledAll \/ PublishBatch \/ WriteMetadata \/ RunFails
            \/ Cleanup \/ EndRun
  BY <1>15 DEF WaitUntilReady, ReconciledAll, PublishBatch, WriteMetadata, RunFails, Cleanup,
               EndRun, ProcessInv, Processing, Busy, Merging, Storing
<1>16. CASE Crash \/ CrashReplacing \/ CrashClearing
  BY <1>16 DEF Crash, CrashReplacing, CrashClearing, ForgetMemory, ProcessInv, Processing, Busy,
               Merging, Storing
<1>17. CASE OtherStep
  <2>1. Quiet
    BY <1>17, OthersAreQuiet
  <2>. QED BY <2>1 DEF Quiet, ProcessInv, Processing, Behind, Ahead, Handled, Untouched,
                       AsPlanned,
                       Covered, OnlyV1Refs, OnHub, ArtifactsCurrent
<1>. QED BY <1>4, <1>5, <1>8, <1>9, <1>10, <1>11, <1>12, <1>13, <1>14, <1>15, <1>16, <1>17
         DEF Next, MainStep, MergeStep, MergingStep, OtherStep

\* What FinalInv says once every region was processed.
LEMMA FinalFacts ==
    ASSUME FinalInv, Reconciling \/ Publishing
    PROVE  /\ \A r \in Regions : ArtifactsCurrent(r) \/ (pc = "manifest" /\ r = work.region)
           /\ \A r \in Regions : OnHub(r) \/ r \in Range(extracted)
           /\ \A r \in Range(extracted) : Covered(r)
           /\ Reconciling => \A j \in 1..Len(provisional) : Behind(j) =>
                                 manifest[provisional[j]].reconciled
           /\ Reconciling /\ pc \in Storing =>
                 at <= Len(provisional) /\ work.region = provisional[at]
           /\ Publishing => /\ \A r \in Range(provisional) : manifest[r].reconciled
                            /\ \A j \in 1..Len(extracted) : j < at => OnHub(extracted[j])
BY DEF FinalInv

\* Every step keeps what is known while regions are reconciled and published.
LEMMA FinalStep ==
    ASSUME WorkInv, FilesInv, ListsInv, InstalledInv, ProcessInv, FinalInv, [Next]_vars
    PROVE  FinalInv'
<1>1. /\ at \in Nat \ {0}
      /\ extracted \in Seq(Regions) /\ provisional \in Seq(Regions)
  BY DEF ListsInv
<1>2. Reconciling \/ Publishing =>
         /\ \A r \in Regions : ArtifactsCurrent(r) \/ (pc = "manifest" /\ r = work.region)
         /\ \A r \in Regions : OnHub(r) \/ r \in Range(extracted)
         /\ \A r \in Range(extracted) : Covered(r)
         /\ Reconciling => \A j \in 1..Len(provisional) : Behind(j) =>
                               manifest[provisional[j]].reconciled
         /\ Reconciling /\ pc \in Storing =>
               at <= Len(provisional) /\ work.region = provisional[at]
         /\ Publishing => /\ \A r \in Range(provisional) : manifest[r].reconciled
                          /\ \A j \in 1..Len(extracted) : j < at => OnHub(extracted[j])
  BY FinalFacts
<1>3. ~(pc' = "reconcile" \/ pc' \in Storing \/ pc' = "publish") => FinalInv'
  BY DEF FinalInv, Reconciling, Publishing
<1>4. CASE BeginRun \/ TakeExtraction \/ WriteMetadata \/ RunFails \/ Cleanup \/ EndRun
  BY <1>3, <1>4 DEF BeginRun, TakeExtraction, WriteMetadata, RunFails, Cleanup, EndRun, Storing
<1>5. CASE SkipRegion \/ QueuePublish \/ QueueReconcile \/ FlushPending
  BY <1>3, <1>5 DEF SkipRegion, QueuePublish, QueueReconcile, FlushPending, Storing
<1>6. CASE MergingStep
  <2>1. pc' \in Merging \cup {"sections"} /\ work'.mode = "merge"
    BY <1>6, MergingFacts
  <2>. QED BY <2>1 DEF FinalInv, Reconciling, Publishing, Merging
<1>7. CASE CopySections \/ BuildSections \/ WriteTables \/ WriteManifest \/ ClearCheckpoints
  <2>1. CASE work.mode = "merge"
    <3>1. ~(Reconciling \/ Publishing)'
      <4>1. CASE CopySections \/ BuildSections \/ WriteTables
        BY <2>1, <4>1 DEF CopySections, BuildSections, WriteTables, Reconciling, Publishing
      <4>2. CASE WriteManifest
        BY <2>1, <4>2 DEF WriteManifest, Reconciling, Publishing, Storing
      <4>3. CASE ClearCheckpoints
        BY <2>1, <4>3 DEF ClearCheckpoints, Reconciling, Publishing, Storing
      <4>. QED BY <1>7, <4>1, <4>2, <4>3
    <3>. QED BY <3>1 DEF FinalInv
  <2>2. CASE work.mode = "reconcile"
    <3>1. Reconciling /\ pc \in Storing
      BY <1>7, <2>2 DEF CopySections, BuildSections, WriteTables, WriteManifest, ClearCheckpoints,
                        Reconciling, Storing
    <3>2. at \in 1..Len(provisional) /\ work.region = provisional[at] /\ work.region \in Regions
          /\ work.region \in Range(provisional) /\ work.reconciled
      <4>1. at \in 1..Len(provisional) /\ work.region = provisional[at]
        BY <1>1, <1>2, <3>1
      <4>2. work.region \in Regions /\ work.region \in Range(provisional)
        BY <1>1, <4>1, Members
      <4>. QED BY <2>2, <3>1, <4>1, <4>2 DEF WorkInv
    <3>3. CASE CopySections \/ BuildSections
      <4>1. /\ pc \notin {"manifest", "clear"} /\ pc' \in Storing \ {"manifest", "clear"}
            /\ UNCHANGED <<tables, manifest, hub, at, extracted, provisional, work>>
        BY <2>2, <3>3 DEF CopySections, BuildSections, listVars, Storing
      <4>. QED BY <1>2, <3>1, <3>2, <4>1 DEF FinalInv, Reconciling, Publishing, Behind, Covered,
                                             OnlyV1Refs, OnHub, ArtifactsCurrent, Storing
    <3>4. CASE WriteTables
      <4>1. /\ pc = "write" /\ pc' = "manifest"
            /\ UNCHANGED <<manifest, hub, at, extracted, provisional, work>>
        BY <3>4 DEF WriteTables, listVars
      <4>2. \A r \in Regions : r # work.region => tables'[r] = tables[r]
        BY <3>4 DEF WriteTables, FilesInv
      <4>3. \A r \in Regions : r # work.region => ArtifactsCurrent(r)'
        BY <1>2, <3>1, <4>1, <4>2 DEF ArtifactsCurrent
      <4>4. ASSUME NEW r \in Range(extracted) PROVE Covered(r)'
        <5>1. Covered(r) /\ r \in Regions
          BY <1>1, <1>2, <3>1, Members
        <5>. QED BY <3>2, <4>1, <4>2, <5>1 DEF Covered, OnlyV1Refs
      <4>5. \A r \in Regions : OnHub(r)' = OnHub(r)
        BY <4>1 DEF OnHub
      <4>6. \A j \in 1..Len(provisional) : Behind(j)' => Behind(j)
        BY <4>1 DEF Behind
      <4>. QED BY <1>2, <3>1, <3>2, <4>1, <4>3, <4>4, <4>5, <4>6 DEF FinalInv, Publishing
    <3>5. CASE WriteManifest
      <4>1. /\ pc = "manifest" /\ pc' = "clear"
            /\ UNCHANGED <<tables, hub, at, extracted, provisional, work>>
        BY <2>2, <3>5 DEF WriteManifest, Deferred
      <4>2. /\ \A r \in Regions : r = work.region =>
                  ArtifactsCurrent(r)' /\ manifest'[r].reconciled = work.reconciled
            /\ \A r \in Regions : r # work.region => manifest'[r] = manifest[r]
        BY <3>5, WrittenIsCurrent
      <4>3. \A r \in Regions : ArtifactsCurrent(r)'
        BY <1>2, <3>1, <4>1, <4>2 DEF ArtifactsCurrent
      <4>4. \A r \in Range(extracted) : Covered(r)'
        BY <1>2, <3>1, <4>1 DEF Covered, OnlyV1Refs
      <4>5. ASSUME NEW j \in 1..Len(provisional), Behind(j)'
            PROVE  manifest'[provisional[j]].reconciled
        <5>1. provisional[j] \in Regions
          BY <1>1
        <5>2. j = at \/ Behind(j)
          BY <4>1, <4>5 DEF Behind
        <5>. QED BY <1>2, <3>1, <3>2, <4>2, <5>1, <5>2
      <4>6. \A r \in Regions : OnHub(r)' = OnHub(r)
        BY <4>1 DEF OnHub
      <4>. QED BY <1>2, <3>1, <3>2, <4>1, <4>3, <4>4, <4>5, <4>6 DEF FinalInv, Publishing
    <3>6. CASE ClearCheckpoints
      <4>1. /\ pc = "clear" /\ pc' = "reconcile" /\ at' = at + 1
            /\ UNCHANGED <<tables, manifest, hub, extracted, provisional>>
        BY <2>2, <3>6 DEF ClearCheckpoints, listVars
      <4>2. \A j \in 1..Len(provisional) : Behind(j)' => Behind(j)
        BY <1>1, <4>1 DEF Behind
      <4>. QED BY <1>2, <3>1, <4>1, <4>2 DEF FinalInv, Publishing, Covered, OnlyV1Refs, OnHub,
                                             ArtifactsCurrent, Storing
    <3>. QED BY <1>7, <3>3, <3>4, <3>5, <3>6
  <2>. QED BY <2>1, <2>2 DEF WorkInv
<1>8. CASE WaitUntilReady
  <2>1. /\ pc = "process" /\ pc' = "reconcile" /\ at' = 1 /\ Done /\ pending = <<>>
        /\ UNCHANGED <<tables, manifest, hub, extracted, provisional, work>>
    BY <1>8 DEF WaitUntilReady, listVars
  <2>2. Processing
    BY <2>1 DEF Processing, WorkInv
  <2>3. ASSUME NEW r \in Regions PROVE ArtifactsCurrent(r) /\ (OnHub(r) \/ r \in Range(extracted))
    <3>1. PICK i \in 1..Len(RegionSeq) : RegionSeq[i] = r
      BY BuildConstants
    <3>2. Behind(i)
      BY <1>1, <2>1, BuildConstants DEF Behind, Done
    <3>3. Handled(r) /\ Range(<<>>) = {}
      BY <1>1, <2>2, <3>1, <3>2, ProcessFacts, Members
    <3>. QED BY <2>1, <3>3 DEF Handled
  <2>4. \A r \in Range(extracted) : Covered(r)
    BY <2>2, ProcessFacts
  <2>5. \A j \in 1..Len(provisional) : ~Behind(j)'
    BY <2>1 DEF Behind
  <2>. QED BY <2>1, <2>3, <2>4, <2>5 DEF FinalInv, Publishing, Covered, OnlyV1Refs, OnHub,
                                         ArtifactsCurrent, Storing
<1>9. CASE ReconcileRegion
  <2>1. /\ pc = "reconcile" /\ pc' = "sections" /\ at <= Len(provisional)
        /\ UNCHANGED <<tables, manifest, hub, at, extracted, provisional>>
    BY <1>9 DEF ReconcileRegion, listVars
  <2>2. work'.region = provisional[at]
    BY <1>9 DEF ReconcileRegion, NoWork
  <2>3. Reconciling /\ \A j \in 1..Len(provisional) : Behind(j)' = Behind(j)
    BY <2>1 DEF Reconciling, Behind
  <2>. QED BY <1>2, <2>1, <2>2, <2>3 DEF FinalInv, Publishing, Covered, OnlyV1Refs, OnHub,
                                         ArtifactsCurrent
<1>10. CASE ReconciledAll
  <2>1. /\ pc = "reconcile" /\ pc' = "publish" /\ at' = 1 /\ at > Len(provisional)
        /\ UNCHANGED <<tables, manifest, hub, extracted, provisional, work>>
    BY <1>10 DEF ReconciledAll, listVars
  <2>2. Reconciling /\ ~Reconciling'
    BY <2>1 DEF Reconciling, Storing
  <2>3. ASSUME NEW r \in Range(provisional) PROVE manifest[r].reconciled
    <3>1. PICK j \in 1..Len(provisional) : provisional[j] = r
      BY <1>1, Members
    <3>2. Behind(j)
      BY <1>1, <2>1 DEF Behind
    <3>. QED BY <1>2, <2>2, <3>1, <3>2
  <2>. QED BY <1>2, <2>1, <2>2, <2>3 DEF FinalInv, Publishing, Covered, OnlyV1Refs, OnHub,
                                         ArtifactsCurrent
<1>11. CASE PublishBatch
  <2>1. Publishing /\ ~Reconciling /\ ~Reconciling'
    BY <1>11 DEF PublishBatch, Publishing, Reconciling, Storing
  <2>2. PICK last \in 0..Len(extracted) :
           /\ at <= last /\ hub' = Committed(SubSeq(extracted, at, last)) /\ at' = last + 1
    <3>. DEFINE last == IF at + BatchSize - 1 < Len(extracted) THEN at + BatchSize - 1
                        ELSE Len(extracted)
    <3>1. /\ at <= Len(extracted) /\ hub' = Committed(SubSeq(extracted, at, last))
          /\ at' = last + 1
      BY <1>11 DEF PublishBatch
    <3>2. BatchSize \in Nat \ {0} /\ Len(extracted) \in Nat
      BY <1>1, BuildConstants
    <3>3. last \in 0..Len(extracted) /\ at <= last
      BY <1>1, <3>1, <3>2
    <3>. QED BY <3>1, <3>3
  <2>3. UNCHANGED <<pc, tables, manifest, extracted, provisional>>
    BY <1>11 DEF PublishBatch, listVars
  <2>4. \A r \in Regions : ArtifactsCurrent(r)
    BY <1>2, <2>1 DEF Publishing
  <2>5. \A r \in Regions : /\ OnHub(r) => OnHub(r)'
                           /\ r \in Range(SubSeq(extracted, at, last)) => OnHub(r)'
    BY <2>2, <2>4, CommittedAreOnHub
  <2>6. ASSUME NEW j \in 1..Len(extracted), j < at' PROVE OnHub(extracted[j])'
    <3>1. PICK r : r = extracted[j]
      OBVIOUS
    <3>2. r \in Regions
      BY <1>1, <3>1
    <3>3. ASSUME j < at PROVE OnHub(r)'
      BY <1>2, <2>1, <2>5, <3>1, <3>2, <3>3
    <3>4. ASSUME j >= at PROVE OnHub(r)'
      <4>1. j \in at..last
        BY <1>1, <2>2, <2>6, <3>4
      <4>2. r \in Range(SubSeq(extracted, at, last))
        BY <1>1, <2>2, <3>1, <4>1, BatchMembers
      <4>. QED BY <2>5, <3>2, <4>2
    <3>5. OnHub(r)'
      BY <1>1, <3>3, <3>4
    <3>. QED BY <2>3, <3>1, <3>5
  <2>. QED BY <1>2, <2>1, <2>3, <2>4, <2>5, <2>6 DEF FinalInv, Publishing, Covered, OnlyV1Refs,
                                                     ArtifactsCurrent
<1>12. CASE Crash \/ CrashReplacing \/ CrashClearing
  BY <1>3, <1>12 DEF Crash, CrashReplacing, CrashClearing, ForgetMemory, Storing
<1>13. CASE OtherStep
  <2>1. Quiet
    BY <1>13, OthersAreQuiet
  <2>. QED BY <2>1 DEF Quiet, FinalInv, Reconciling, Publishing, Behind, Covered, OnlyV1Refs,
                       OnHub, ArtifactsCurrent
<1>. QED BY <1>4, <1>5, <1>6, <1>7, <1>8, <1>9, <1>10, <1>11, <1>12, <1>13
         DEF Next, MainStep, MergeStep, MergingStep, OtherStep

\* What is committed is reconciled, or has only tags V1 brought.
LEMMA PublishedStep ==
    ASSUME WorkInv, FilesInv, ListsInv, ProcessInv, FinalInv, PublishedReconciled, [Next]_vars
    PROVE  PublishedReconciled'
<1>1. extracted \in Seq(Regions) /\ pending \in Seq(Regions) /\ at \in Nat \ {0}
  BY DEF ListsInv
<1>2. CASE UNCHANGED hub
  BY <1>2 DEF PublishedReconciled
<1>3. ASSUME NEW stems, hub' = Committed(stems),
             \A r \in Regions : r \in Range(stems) => manifest[r].reconciled \/ OnlyV1Refs(r)
      PROVE  PublishedReconciled'
  <2>1. ASSUME NEW r \in Regions, hub'[r] # NoEntry, ~hub'[r].reconciled
        PROVE  WithRef(hub'[r].content.content.polygons) \subseteq V1Polygons[r]
    <3>1. CASE r \notin Range(stems)
      BY <1>3, <2>1, <3>1 DEF Committed, PublishedReconciled
    <3>2. CASE r \in Range(stems)
      <4>1. hub'[r].content = tables[r][1]
        BY <1>3, <3>2 DEF Committed
      <4>2. hub'[r].reconciled = manifest[r].reconciled
        BY <1>3, <3>2 DEF Committed
      <4>. QED BY <1>3, <2>1, <3>2, <4>1, <4>2 DEF OnlyV1Refs
    <3>. QED BY <3>1, <3>2
  <2>. QED BY <2>1 DEF PublishedReconciled
<1>4. CASE FlushPending
  <2>1. pc = "process" /\ hub' = Committed(pending)
    BY <1>4 DEF FlushPending
  <2>2. \A r \in Range(pending) : manifest[r].reconciled
    BY <2>1, ProcessFacts DEF Processing, WorkInv
  <2>. QED BY <1>3, <2>1, <2>2
<1>5. CASE PublishBatch
  <2>1. PICK last \in 0..Len(extracted) :
           at <= last /\ hub' = Committed(SubSeq(extracted, at, last))
    <3>. DEFINE last == IF at + BatchSize - 1 < Len(extracted) THEN at + BatchSize - 1
                        ELSE Len(extracted)
    <3>1. at <= Len(extracted) /\ hub' = Committed(SubSeq(extracted, at, last))
      BY <1>5 DEF PublishBatch
    <3>2. BatchSize \in Nat \ {0} /\ Len(extracted) \in Nat
      BY <1>1, BuildConstants
    <3>3. last \in 0..Len(extracted) /\ at <= last
      BY <1>1, <3>1, <3>2
    <3>. QED BY <3>1, <3>3
  <2>2. Range(SubSeq(extracted, at, last)) \subseteq Range(extracted)
    BY <1>1, <2>1, BatchMembers
  <2>3. Publishing
    BY <1>5 DEF PublishBatch, Publishing
  <2>4. \A r \in Range(extracted) : manifest[r].reconciled \/ OnlyV1Refs(r)
    BY <2>3, FinalFacts DEF Covered
  <2>. QED BY <1>3, <2>1, <2>2, <2>4
<1>6. CASE BeginRun \/ TakeExtraction \/ RunFails \/ WriteMetadata \/ Cleanup \/ EndRun
  BY <1>2, <1>6 DEF BeginRun, TakeExtraction, RunFails, WriteMetadata, Cleanup, EndRun, fileVars
<1>7. CASE SkipRegion \/ QueuePublish \/ QueueReconcile \/ WaitUntilReady \/ ReconcileRegion
           \/ ReconciledAll
  BY <1>2, <1>7 DEF SkipRegion, QueuePublish, QueueReconcile, WaitUntilReady, ReconcileRegion,
                    ReconciledAll
<1>8. CASE MergeStep
  BY <1>2, <1>8 DEF MergeStep, LoadMergeInputs, MatchTitles, EnrichOne, QueryAgain, Speculate,
                    CopySections, BuildSections,
                    WriteTables, WriteManifest, ClearCheckpoints
<1>9. CASE Crash \/ CrashReplacing \/ CrashClearing
  BY <1>2, <1>9 DEF Crash, CrashReplacing, CrashClearing, ForgetMemory
<1>10. CASE OtherStep
  BY <1>2, <1>10, OthersAreQuiet DEF Quiet
<1>. QED BY <1>4, <1>5, <1>6, <1>7, <1>8, <1>9, <1>10 DEF Next, MainStep, OtherStep

\* A run ends normally when every region is installed and on the Hub, and nothing of that
\* changes before the next one begins.
LEMMA CompleteStep ==
    ASSUME ListsInv, FinalInv, CompleteRunCovers, [Next]_vars PROVE CompleteRunCovers'
<1>1. /\ extracted \in Seq(Regions) /\ at \in Nat \ {0}
      /\ outcome = "complete" => pc \in Ended
  BY DEF ListsInv
<1>2. CASE UNCHANGED <<tables, manifest, hub, outcome>>
  BY <1>2 DEF CompleteRunCovers
<1>3. CASE outcome' # "complete"
  BY <1>3 DEF CompleteRunCovers
<1>4. CASE WriteMetadata
  <2>1. /\ pc = "publish" /\ at > Len(extracted) /\ UNCHANGED <<tables, manifest, hub>>
    BY <1>4 DEF WriteMetadata, fileVars
  <2>2. Publishing
    BY <2>1 DEF Publishing
  <2>3. ASSUME NEW r \in Regions PROVE ArtifactsCurrent(r) /\ OnHub(r)
    <3>1. ArtifactsCurrent(r) /\ (OnHub(r) \/ r \in Range(extracted))
      BY <2>1, <2>2, FinalFacts
    <3>2. ASSUME r \in Range(extracted) PROVE OnHub(r)
      <4>1. PICK j \in 1..Len(extracted) : extracted[j] = r
        BY <1>1, <3>2, Members
      <4>2. j < at
        BY <1>1, <2>1
      <4>. QED BY <2>2, <4>1, <4>2, FinalFacts
    <3>. QED BY <3>1, <3>2
  <2>. QED BY <2>1, <2>3 DEF CompleteRunCovers, ArtifactsCurrent, OnHub
<1>5. CASE BeginRun \/ RunFails
  BY <1>3, <1>5 DEF BeginRun, RunFails
<1>6. CASE TakeExtraction \/ Cleanup \/ EndRun
  BY <1>2, <1>6 DEF TakeExtraction, Cleanup, EndRun, fileVars
<1>7. CASE SkipRegion \/ QueuePublish \/ QueueReconcile \/ FlushPending \/ WaitUntilReady
           \/ ReconcileRegion \/ ReconciledAll \/ PublishBatch
  <2>1. UNCHANGED outcome /\ pc \notin Ended
    BY <1>7 DEF SkipRegion, QueuePublish, QueueReconcile, FlushPending, WaitUntilReady,
                ReconcileRegion, ReconciledAll, PublishBatch, MainOnly, QueriesOnly, Ended
  <2>. QED BY <1>1, <1>3, <2>1
<1>8. CASE MergeStep
  <2>1. UNCHANGED outcome /\ pc \notin Ended
    BY <1>8 DEF MergeStep, LoadMergeInputs, MatchTitles, EnrichOne, QueryAgain, Speculate,
                EnrichmentFinished, CopySections,
                BuildSections, WriteTables, WriteManifest, ClearCheckpoints, MainOnly, QueriesOnly, Ended
  <2>. QED BY <1>1, <1>3, <2>1
<1>9. CASE Crash \/ CrashReplacing \/ CrashClearing
  BY <1>3, <1>9 DEF Crash, CrashReplacing, CrashClearing, ForgetMemory
<1>10. CASE OtherStep
  BY <1>2, <1>10, OthersAreQuiet DEF Quiet
<1>. QED BY <1>4, <1>5, <1>6, <1>7, <1>8, <1>9, <1>10 DEF Next, MainStep, OtherStep

------------------------------------------------------------------------------
(* The theorems *)

\* The initial states satisfy the invariant.
LEMMA InitHolds == Init => IInv
<1>. SUFFICES ASSUME Init PROVE IInv
  OBVIOUS
<1>1. IndexInv
  <2>1. /\ v1 \in InitialV1 /\ rows = {} /\ fileState = [s \in Shards |-> 0]
        /\ progress = [s \in Shards |-> NoProgress] /\ rowCount = NoCount
        /\ index = "off" /\ position = 1 /\ stop = FALSE
    BY DEF Init, IndexInit
  <2>2. /\ Len(ShardSeq) \in Nat /\ Groups \in Nat \ {0} /\ MaxVersion \in Nat \ {0}
        /\ InitialV1 \subseteq [Shards -> 0..MaxVersion]
    BY IndexConstants
  <2>3. IndexTypeOK
    <3>1. v1 \in [Shards -> Gone..MaxVersion]
      BY <2>1, <2>2 DEF Gone
    <3>2. /\ fileState \in [Shards -> 0..MaxVersion]
          /\ progress \in [Shards -> [version : 0..MaxVersion, next : 0..Groups]]
      BY <2>1, <2>2 DEF NoProgress
    <3>3. position \in 1..(Len(ShardSeq) + 1)
      BY <2>1, <2>2
    <3>4. stop \in BOOLEAN
      BY <2>1, Zenon
    <3>. QED BY <2>1, <3>1, <3>2, <3>3, <3>4 DEF IndexTypeOK
  <2>4. \A s \in Shards : fileState[s] = 0 /\ progress[s].next = 0 /\ progress[s].version = 0
    BY <2>1 DEF NoProgress
  <2>5. \A row \in Row : ~Indexed(row)
    BY <2>2, <2>4 DEF Row, Indexed
  <2>6. IsFiniteSet({})
    BY FS_EmptySet
  <2>7. RowsInv
    BY <2>1, <2>4, <2>5, <2>6 DEF RowsInv
  <2>8. ScanInv
    BY <2>1 DEF ScanInv
  <2>. QED BY <2>3, <2>7, <2>8 DEF IndexInv
<1>2. ScanningInv
  <2>1. /\ pbf = [r \in Regions |-> 1] /\ checkpoint = [r \in Regions |-> NoCheckpoint]
        /\ extraction = IdleExtraction
    BY DEF Init
  <2>2. \A r \in Regions : Faithful(r, NoCheckpoint)
    BY BlankIsFaithful
  <2>3. \A r \in Regions : pbf[r] \in 1..Len(PbfRows[r])
    BY <2>1, PbfCounts
  <2>4. ExtractionInv
    BY <2>1 DEF ExtractionInv, IdleExtraction, Phases
  <2>. QED BY <2>1, <2>2, <2>3, <2>4 DEF ScanningInv
<1>3. WorkInv
  <2>1. work = NoWork /\ pc = "idle"
    BY DEF Init
  <2>2. /\ NoWork.mode = "merge" /\ NoWork.reconciled \in BOOLEAN
        /\ NoWork = [region |-> NoWork.region, mode |-> NoWork.mode, found |-> NoWork.found,
                     polygons |-> NoWork.polygons, queries |-> NoWork.queries,
                       matches |-> NoWork.matches,
                     results |-> NoWork.results, content |-> NoWork.content,
                     reconciled |-> NoWork.reconciled]
    BY NoWorkShape
  <2>. QED BY <2>1, <2>2 DEF WorkInv, Busy, Merging, Storing
<1>4. FilesInv
  <2>1. /\ tables = [r \in Regions |-> [i \in 1..4 |-> Missing]]
        /\ manifest = [r \in Regions |-> NoEntry] /\ hub = [r \in Regions |-> NoEntry]
    BY FourTables DEF Init
  <2>. QED BY <2>1, BlankFiles DEF FilesInv
<1>5. PlanInv
  <2>1. /\ pc = "idle" /\ at = 1 /\ extracted = <<>> /\ provisional = <<>> /\ pending = <<>>
        /\ runs = 0 /\ index = "off" /\ outcome = "none" /\ extraction.phase = "idle"
        /\ hub = [r \in Regions |-> NoEntry]
    BY DEF Init, IndexInit, IdleExtraction
  <2>2. ListsInv
    BY <2>1, BuildConstants DEF ListsInv, Reconciling, Busy, Merging, Storing, Ended
  <2>3. InstalledInv /\ ProcessInv /\ FinalInv
    BY <2>1 DEF InstalledInv, ProcessInv, FinalInv, Processing, Reconciling, Publishing, Busy,
                Merging, Storing
  <2>4. PublishedReconciled /\ CompleteRunCovers
    BY <2>1 DEF PublishedReconciled, CompleteRunCovers
  <2>. QED BY <2>2, <2>3, <2>4 DEF PlanInv
<1>6. CacheInv
  <2>1. queryCache = NoCache /\ rowCache = NoCache /\ pc = "idle" /\ DOMAIN NoCache = {}
    BY DEF Init, IndexInit, NoCache
  <2>. QED BY <2>1 DEF CacheInv
<1>. QED BY <1>1, <1>2, <1>3, <1>4, <1>5, <1>6 DEF IInv

\* Every step keeps the invariant.
LEMMA StepKeeps == IInv /\ [Next]_vars => IInv'
<1>. SUFFICES ASSUME IInv, [Next]_vars PROVE IInv'
  OBVIOUS
<1>1. /\ IndexInv /\ ScanningInv /\ WorkInv /\ FilesInv /\ CacheInv /\ ListsInv /\ InstalledInv
      /\ ProcessInv /\ FinalInv /\ PublishedReconciled /\ CompleteRunCovers
  BY DEF IInv, PlanInv
<1>2. IndexInv'
  <2>1. IndexMove
    BY <1>1, IndexMoves DEF ListsInv
  <2>. QED BY <1>1, <2>1, IndexTypeStep, RowsStep, ScanStep DEF IndexInv
<1>3. ScanningInv'
  BY <1>1, ScanMoves, ScanningStep
<1>4. WorkInv' /\ FilesInv'
  BY <1>1, WorkStep, FilesStep
<1>5. ListsInv' /\ InstalledInv' /\ ProcessInv' /\ FinalInv'
  BY <1>1, ListsStep, InstalledStep, ProcessStep, FinalStep
<1>6. PublishedReconciled' /\ CompleteRunCovers'
  BY <1>1, PublishedStep, CompleteStep
<1>7. CacheInv'
  BY <1>1, CacheStep
<1>. QED BY <1>2, <1>3, <1>4, <1>5, <1>6, <1>7 DEF IInv, PlanInv

\* The inductive invariant holds in every reachable state.
THEOREM Invariance == Spec => []IInv
<1>1. Init => IInv
  BY InitHolds
<1>2. IInv /\ [Next]_vars => IInv'
  BY StepKeeps
<1>. QED BY <1>1, <1>2, PTL DEF Spec

\* Files, checkpoints, lists and the manifest always have their shape.
THEOREM TypeCorrect == Spec => []TypeOK
<1>1. IInv => TypeOK
  <2>. SUFFICES ASSUME IInv PROVE TypeOK
    OBVIOUS
  <2>1. IndexTypeOK /\ runs \in 0..MaxRuns
    BY DEF IInv, IndexInv, PlanInv, ListsInv
  <2>2. \A r \in Regions : /\ pbf[r] \in DOMAIN PbfRows[r]
                           /\ checkpoint[r].source \in 0..Len(PbfRows[r])
                           /\ DOMAIN checkpoint[r].chunks \subseteq Nat
    <3>1. \A r \in Regions : PbfRows[r] \in Seq(Seq(Polygon))
      BY BuildAssumption
    <3>2. \A r \in Regions : DOMAIN PbfRows[r] = 1..Len(PbfRows[r])
      BY <3>1
    <3>. QED BY <3>2 DEF IInv, ScanningInv, Faithful
  <2>3. \A r \in Regions : /\ DOMAIN tables[r] = DOMAIN Tables
                           /\ manifest[r] = NoEntry \/ manifest[r].reconciled \in BOOLEAN
                           /\ hub[r] = NoEntry \/ hub[r].reconciled \in BOOLEAN
    BY FourTables DEF IInv, FilesInv
  <2>4. Range(extracted) \cup Range(provisional) \cup Range(pending) \subseteq Regions
    BY Members DEF IInv, PlanInv, ListsInv
  <2>. QED BY <2>1, <2>2, <2>3, <2>4 DEF TypeOK
<1>. QED BY <1>1, Invariance, PTL

\* A complete index holds every row group of every current shard, none of an earlier
\* version, and answers with its own count, however many synchronisations were stopped,
\* failed or killed inside a shard, and whatever V1 rewrote in between.
THEOREM CompleteIndexIsExact == Spec => []CompleteIndexExact
<1>1. IInv => CompleteIndexExact
  BY IndexExact DEF IInv
<1>. QED BY <1>1, Invariance, PTL

\* A finished extraction is its PBF, all polygons in order and one repeated only next to
\* itself, however many earlier ones of this or of an older PBF failed or were killed
\* inside a chunk, its metadata, the append of an error or the checkpoint's deletion.
THEOREM ExtractionIsExact == Spec => []ExtractionExact
<1>1. IInv => ExtractionExact
  BY ExtractionYieldsSource DEF IInv
<1>. QED BY <1>1, Invariance, PTL

\* In a reconciled region every tag is linked to the V1 document of its title when V1 has
\* one, else to at most one copy of its page, and to nothing else, unless a cache still
\* answered from a reference that was read before the index was complete.
THEOREM OnlyEarlyAnswersAreInexact == Spec => []OnlyEarlyAnswersInexact
<1>1. IInv => OnlyEarlyAnswersInexact
  <2>. SUFFICES ASSUME IInv PROVE OnlyEarlyAnswersInexact
    OBVIOUS
  <2>1. \A r \in Regions : manifest[r].reconciled => Exact(manifest[r].content.content)
    BY DEF IInv, FilesInv
  <2>. QED BY <2>1 DEF OnlyEarlyAnswersInexact, Exact, ExactFor
<1>. QED BY <1>1, Invariance, PTL

\* What the Hub holds is reconciled, or carries only tags of V1 polygons its PBF lost.
THEOREM PublishedIsReconciled == Spec => []PublishedReconciled
<1>1. IInv => PublishedReconciled
  BY DEF IInv, PlanInv
<1>. QED BY <1>1, Invariance, PTL

\* A run that ends normally leaves every region on the Hub, installed and described by its
\* manifest entry.
THEOREM CompleteRunsCover == Spec => []CompleteRunCovers
<1>1. IInv => CompleteRunCovers
  BY DEF IInv, PlanInv
<1>. QED BY <1>1, Invariance, PTL

==============================================================================
