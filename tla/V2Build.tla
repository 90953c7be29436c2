------------------------------- MODULE V2Build ------------------------------
(***************************************************************************)
(* `sync --dataset-version v2` (v2/runner.py): every region's PBF is       *)
(* scanned with the V2 rule, merged with the V1 polygons, its Wikipedia    *)
(* tags resolved against V1 documents or fetched, and the four tables of   *)
(* the region installed with a manifest entry last.  Pages are fetched     *)
(* speculatively while the index of V1 documents (module V1ReuseIndex) is  *)
(* still being built; the regions concerned are reconciled at the end and  *)
(* only then published.                                                    *)
(*                                                                         *)
(* The main thread, the extraction prefetch thread and the indexing thread *)
(* interleave; a run may fail at any call that fails in practice, and be   *)
(* killed at any moment, inside the replacement of the tables too.  Only   *)
(* files survive.  Between runs the V1 dataset and the PBFs may change.    *)
(*                                                                         *)
(* A polygon is [id, ref]: one Wikipedia tag or NoRef.  Of a document only *)
(* its origin and its title are kept; documents and links a region has     *)
(* from Wikidata alone take no part in the reconciliation and are left     *)
(* out, and so is the text of sections and cards.                          *)
(***************************************************************************)
EXTENDS V1ReuseIndex

CONSTANTS
    RegionSeq,     \* the regions in the order of collect_pbfs
    PbfRows,       \* PbfRows[r]: the polygons of each version of the PBF, sequences
    V1Polygons,    \* V1Polygons[r]: the polygons V1 has for the region, a set
    Pages,         \* the titles that exist on Wikipedia
    BatchSize,     \* regions of one Hub commit (_REGION_UPLOAD_BATCH_SIZE)
    ForceModes,    \* the values of --force that are explored
    MaxRuns        \* runs of the command that are explored

Regions == Range(RegionSeq)
NoRef == "no-ref"
Tables == <<"polygons", "documents", "sections", "links">>
NoRegion == "no-region"

Polygon == [id : Nat, ref : Titles \cup {NoRef}]

(* The V1 rows of a region are keyed by polygon_id.                        *)
UniqueIds(polygons) == \A p, q \in polygons : p.id = q.id => p = q

(* The PBFs are the files of one directory; a polygon is in one once.      *)
ASSUME BuildAssumption ==
    /\ BatchSize \in Nat \ {0} /\ MaxRuns \in Nat
    /\ ForceModes \subseteq BOOLEAN
    /\ Pages \subseteq Titles /\ NoRef \notin Titles
    /\ RegionSeq \in Seq(Regions) /\ NoRegion \notin Regions
    /\ \A i, j \in DOMAIN RegionSeq : RegionSeq[i] = RegionSeq[j] => i = j
    /\ PbfRows \in [Regions -> Seq(Seq(Polygon))]
    /\ \A r \in Regions :
          /\ Len(PbfRows[r]) > 0
          /\ \A v \in DOMAIN PbfRows[r] : \A i, j \in DOMAIN PbfRows[r][v] :
                PbfRows[r][v][i].id = PbfRows[r][v][j].id => i = j
          /\ V1Polygons[r] \subseteq Polygon /\ UniqueIds(V1Polygons[r])

VARIABLES
    pbf,        \* the version of each source file
    checkpoint, \* extraction checkpoint of a region: metadata and chunk files
    fetched,    \* fetch checkpoint of a region: fingerprint and direct results
    tables,     \* the four installed tables of a region
    manifest,   \* its manifest entry: the content it hashes, the reconciled flag
    hub,        \* what the Hub holds of the region
    extraction, \* the prefetch thread
    pc, plan, at,                     \* the main thread, its plan and place
    extracted, provisional, pending,  \* its three lists of regions
    work,       \* the region it is merging or reconciling, in memory
    outcome,    \* "complete" once a run has ended normally
    runs

fileVars == <<pbf, checkpoint, fetched, tables, manifest, hub>>
listVars == <<extracted, provisional, pending>>
mainVars == <<pc, plan, at, listVars, work, outcome>>
vars == <<indexVars, cacheVars, fileVars, extraction, mainVars, runs>>

-----------------------------------------------------------------------------
(* Contents.                                                               *)

V1Doc(t) == [origin |-> "v1", title |-> t]
DirectDoc(t) == [origin |-> "direct", title |-> t]

(* parse_wikipedia_tags found a usable tag.                                *)
HasRef(p) == p.ref # NoRef
WithRef(polygons) == {p \in polygons : HasRef(p)}

(* What a scan of the current PBF yields (candidate_to_v2_row), and what   *)
(* load_v1_region reads.                                                   *)
SourceRows(r) == PbfRows[r][pbf[r]]
V1Rows(r) == V1Polygons[r]

(* _merge_extracted_polygons: a polygon of the current PBF replaces the V1 *)
(* row of the same id.                                                     *)
MergedPolygons(r, found) ==
    found \cup {p \in V1Rows(r) : \A q \in found : q.id # p.id}

(* With what is in the tables goes what the properties ask of it: the      *)
(* titles V1 held, and those whose answer was read from a partial index.   *)
Content(polygons, docs, links, seen, early) ==
    [polygons |-> polygons, docs |-> docs, links |-> links, seen |-> seen, early |-> early]

EmptyContent == Content({}, {}, {}, {}, {})

(* A table file, and a manifest entry or what the Hub holds of a region.   *)
Missing == [file |-> "missing", content |-> EmptyContent]
Sidecar == [file |-> "v1-sidecar", content |-> EmptyContent]
Written(c) == [file |-> "v2", content |-> c]
NoEntry == [content |-> Missing, reconciled |-> FALSE]
Entry(c, reconciled) == [content |-> Written(c), reconciled |-> reconciled]

NoCheckpoint == [source |-> 0, complete |-> FALSE, count |-> 0, chunks |-> <<>>]
NewCheckpoint(r) == [NoCheckpoint EXCEPT !.source = pbf[r]]
EmptyFetched == [input |-> <<>>, direct |-> <<>>]
IdleExtraction == [region |-> NoRegion, phase |-> "idle", rows |-> <<>>]
NoWork == [region |-> NoRegion, mode |-> "merge", found |-> {}, polygons |-> {}, queries |-> <<>>,
           matches |-> <<>>, results |-> <<>>, content |-> EmptyContent, reconciled |-> FALSE]

Init ==
    /\ IndexInit
    /\ pbf = [r \in Regions |-> 1]
    /\ checkpoint = [r \in Regions |-> NoCheckpoint]
    /\ fetched = [r \in Regions |-> EmptyFetched]
    /\ tables = [r \in Regions |-> [i \in DOMAIN Tables |-> Missing]]
    /\ manifest = [r \in Regions |-> NoEntry]
    /\ hub = [r \in Regions |-> NoEntry]
    /\ extraction = IdleExtraction
    /\ pc = "idle" /\ plan = <<>> /\ at = 1
    /\ extracted = <<>> /\ provisional = <<>> /\ pending = <<>>
    /\ work = NoWork /\ outcome = "none"
    /\ runs = 0

-----------------------------------------------------------------------------
(* Planning.                                                               *)

(* _region_artifacts_are_current: an entry, and four files with its hashes.*)
ArtifactsCurrent(r) ==
    /\ manifest[r] # NoEntry
    /\ \A i \in DOMAIN Tables : tables[r][i] = manifest[r].content

(* A plausible slip: what is reconciled counts as published.               *)
RemoteRegionAssumed(r) == manifest[r].reconciled

(* remote_region_complete asks for the paths, not for what they hold.      *)
RemoteRegionComplete(r) == hub[r] # NoEntry

(* force (or no skip_existing) extracts whatever is there.  Only runs with *)
(* --push are modelled: without it a reconciled region is skipped.         *)
RegionAction(r, force) ==
    IF force \/ ~ArtifactsCurrent(r) THEN "extract"
    ELSE IF ~manifest[r].reconciled THEN "reconcile"
    ELSE IF ~RemoteRegionComplete(r) THEN "publish" ELSE "skip"

(* _schedule_next: the first region to extract after position i.           *)
NextExtraction(actions, i) ==
    LET later == {j \in DOMAIN actions : j > i /\ actions[j] = "extract"}
    IN  IF later = {} THEN IdleExtraction
        ELSE LET j == CHOOSE k \in later : \A l \in later : k <= l
             IN  [IdleExtraction EXCEPT !.region = RegionSeq[j], !.phase = "open"]

BeginRun ==
    /\ pc = "idle" /\ runs < MaxRuns
    /\ runs' = runs + 1
    /\ StartIndex
    /\ \E force \in ForceModes :
          plan' = [i \in DOMAIN RegionSeq |-> RegionAction(RegionSeq[i], force)]
    /\ extraction' = NextExtraction(plan', 0)
    /\ pc' = "process" /\ at' = 1
    /\ extracted' = <<>> /\ provisional' = <<>> /\ pending' = <<>>
    /\ work' = NoWork /\ outcome' = "none"
    /\ UNCHANGED <<v1, rows, fileState, progress, rowCount, fileVars>>

-----------------------------------------------------------------------------
(* The prefetch thread: extract_v2_pbf with its checkpoint.  A chunk holds *)
(* one polygon.                                                            *)

ExtractionVarsOnly == 
    UNCHANGED <<indexVars, cacheVars, pbf, fetched, tables, manifest, hub, mainVars, runs>>

(* A plausible slip: chunks of an older source are kept.                   *)
PreparedKeepingChunks(r) ==
    IF checkpoint[r].source = pbf[r] THEN checkpoint[r]
    ELSE [checkpoint[r] EXCEPT !.source = pbf[r], !.complete = FALSE]

(* _prepare: metadata of another source (or none) empties the directory    *)
(* before new metadata is written.  load_rows: chunk files that are not    *)
(* contiguous, or a complete mark that does not account for them, start    *)
(* the extraction over.                                                    *)
Prepared(r) == IF checkpoint[r].source = pbf[r] THEN checkpoint[r] ELSE NewCheckpoint(r)

Readable(ck) ==
    /\ DOMAIN ck.chunks = 1..Cardinality(DOMAIN ck.chunks)
    /\ ck.complete => ck.count = Cardinality(DOMAIN ck.chunks)

OpenCheckpoint ==
    LET r == extraction.region
        ck == IF Readable(Prepared(r)) THEN Prepared(r) ELSE NewCheckpoint(r)
        n == Cardinality(DOMAIN ck.chunks)
    IN
    /\ extraction.phase = "open"
    /\ checkpoint' = [checkpoint EXCEPT ![r] = [ck EXCEPT !.count = n]]
    /\ extraction' = [extraction EXCEPT
          !.phase = IF ck.complete THEN "done" ELSE "scan",
          !.rows = [i \in 1..n |-> ck.chunks[i]]]
    /\ ExtractionVarsOnly

(* The scan starts at the beginning of the PBF again; polygons that are    *)
(* there already are passed over.                                          *)
Unseen ==
    LET source == SourceRows(extraction.region)
        new(i) == \A j \in DOMAIN extraction.rows : extraction.rows[j].id # source[i].id
    IN  {i \in DOMAIN source : new(i)}

NextRow == SourceRows(extraction.region)[CHOOSE i \in Unseen : \A j \in Unseen : i <= j]

Extended(f, k, x) == [i \in DOMAIN f \cup {k} |-> IF i = k THEN x ELSE f[i]]

(* append: the chunk file first, its metadata in a second write.           *)
AppendChunk ==
    LET r == extraction.region
        n == Len(extraction.rows) + 1
    IN
    /\ extraction.phase = "scan" /\ Unseen # {}
    /\ extraction' = [extraction EXCEPT !.rows = Append(@, NextRow), !.phase = "append"]
    /\ checkpoint' = [checkpoint EXCEPT ![r] =
                        [@ EXCEPT !.chunks = Extended(checkpoint[r].chunks, n, NextRow)]]
    /\ ExtractionVarsOnly

AppendMetadata ==
    LET r == extraction.region IN
    /\ extraction.phase = "append"
    /\ extraction' = [extraction EXCEPT !.phase = "scan"]
    /\ checkpoint' = [checkpoint EXCEPT ![r] =
                        [@ EXCEPT !.complete = FALSE, !.count = Len(extraction.rows)]]
    /\ ExtractionVarsOnly

MarkComplete ==
    LET r == extraction.region IN
    /\ extraction.phase = "scan" /\ Unseen = {}
    /\ extraction' = [extraction EXCEPT !.phase = "done"]
    /\ checkpoint' = [checkpoint EXCEPT ![r].complete = TRUE]
    /\ ExtractionVarsOnly

(* The polygons not appended yet when the scan raises: the next one when   *)
(* its chunk could not be written, the last one again when its metadata    *)
(* could not, since append had not returned.                               *)
PendingRows ==
    CASE extraction.phase = "append" -> {extraction.rows[Len(extraction.rows)]}
      [] extraction.phase = "scan" /\ Unseen # {} -> {NextRow}
      [] OTHER -> {}

(* `except BaseException`: what is pending is appended before the error    *)
(* goes on; either write of that append may fail as well.                  *)
ExtractionFails ==
    LET r == extraction.region
        n == Len(extraction.rows) + 1
    IN
    /\ extraction.phase \in {"open", "scan", "append"}
    /\ extraction' = [extraction EXCEPT !.phase = "failed"]
    /\ \/ UNCHANGED checkpoint
       \/ \E row \in PendingRows : \E count \in {checkpoint[r].count, n} :
             checkpoint' = [checkpoint EXCEPT ![r] =
                              [@ EXCEPT !.chunks = Extended(checkpoint[r].chunks, n, row),
                                        !.count = count]]
    /\ ExtractionVarsOnly

ExtractionStep == OpenCheckpoint \/ AppendChunk \/ AppendMetadata \/ MarkComplete

-----------------------------------------------------------------------------
(* The main thread, region by region (_process_plan).                      *)

Done == at > Len(RegionSeq)
Here == RegionSeq[at]

QueriesOnly == UNCHANGED <<indexVars, pbf, extraction, runs, outcome>>
MainOnly == QueriesOnly /\ UNCHANGED cacheVars

(* upload_region_batches: one commit with the tables as they are on disk.  *)
Committed(stems) ==
    [r \in Regions |-> IF r \in Range(stems)
                       THEN [content |-> tables[r][1], reconciled |-> manifest[r].reconciled]
                       ELSE hub[r]]

SkipRegion ==
    /\ pc = "process" /\ ~Done /\ plan[at] = "skip"
    /\ at' = at + 1
    /\ UNCHANGED <<checkpoint, fetched, tables, manifest, hub, pc, plan, listVars, work>>
    /\ MainOnly

QueuePublish ==
    /\ pc = "process" /\ ~Done /\ plan[at] = "publish" /\ Len(pending) < BatchSize
    /\ pending' = Append(pending, Here) /\ at' = at + 1
    /\ UNCHANGED <<checkpoint, fetched, tables, manifest, hub, pc, plan, extracted,
                   provisional, work>>
    /\ MainOnly

QueueReconcile ==
    /\ pc = "process" /\ ~Done /\ plan[at] = "reconcile"
    /\ provisional' = Append(provisional, Here) /\ extracted' = Append(extracted, Here)
    /\ at' = at + 1
    /\ UNCHANGED <<checkpoint, fetched, tables, manifest, hub, pc, plan, pending, work>>
    /\ MainOnly

(* _flush_pending_publishes: a full batch, before an extraction, at the end.*)
FlushPending ==
    /\ pc = "process" /\ pending # <<>>
    /\ IF Done THEN TRUE ELSE Len(pending) >= BatchSize \/ plan[at] = "extract"
    /\ hub' = Committed(pending) /\ pending' = <<>>
    /\ UNCHANGED <<checkpoint, fetched, tables, manifest, pc, plan, at, extracted,
                   provisional, work>>
    /\ MainOnly

TakeExtraction ==
    /\ pc = "process" /\ ~Done /\ plan[at] = "extract" /\ pending = <<>>
    /\ extraction.region = Here /\ extraction.phase = "done"
    /\ work' = [NoWork EXCEPT !.region = Here, !.found = Range(extraction.rows)]
    /\ extraction' = NextExtraction(plan, at)
    /\ pc' = "load"
    /\ UNCHANGED <<indexVars, cacheVars, fileVars, plan, at, listVars, outcome, runs>>

(* The region's inputs, its fetch checkpoint (emptied when it is of other  *)
(* inputs) and the first lookup of all its titles, by_titles in two halves.*)
OpenFetchCheckpoint(r, polygons) ==
    IF fetched[r].input = <<polygons>> THEN fetched[r]
    ELSE [EmptyFetched EXCEPT !.input = <<polygons>>]

Refs(polygons) == {p.ref : p \in WithRef(polygons)}

LoadMergeInputs ==
    LET r == work.region
        polygons == MergedPolygons(r, work.found)
        ck == OpenFetchCheckpoint(r, work.found)
        known == {p \in WithRef(polygons) : p.id \in DOMAIN ck.direct
                                             /\ ck.direct[p.id].ref = p.ref}
    IN
    /\ pc = "load" /\ (WithRef(polygons) = {} \/ ~QueryRaises)
    /\ fetched' = [fetched EXCEPT ![r] = ck]
    /\ work' = [work EXCEPT
          !.polygons = polygons,
          !.queries = [t \in Refs(polygons) |-> Query(t)],
          !.results = [i \in {p.id : p \in known} |-> ck.direct[i]],
          !.reconciled = WithRef(polygons) = {}]
    /\ pc' = "match"
    /\ UNCHANGED <<checkpoint, tables, manifest, hub, plan, at, listVars>>
    /\ MainOnly

QueriesRaise == \E t \in DOMAIN work.queries : MaterializeRaises(t, work.queries[t])

Answered(t) == Materialized(t, work.queries[t]).title

MatchTitles ==
    /\ pc = "match" /\ ~QueriesRaise
    /\ work' = [work EXCEPT !.matches = [t \in DOMAIN work.queries |-> Answered(t)],
                            !.queries = <<>>]
    /\ FillCaches(work.queries)
    /\ pc' = "enrich"
    /\ UNCHANGED <<checkpoint, fetched, tables, manifest, hub, plan, at, listVars>>
    /\ QueriesOnly

NoDoc == [origin |-> "none", title |-> NoRef]
DeferredError == [origin |-> "error", title |-> NoRef]

Fetched(t) == IF t \in Pages THEN DirectDoc(t) ELSE NoDoc

(* enrich_wikipedia_refs for one polygon, recorded in input order: a match *)
(* is reused, a miss is fetched.  While the index is not complete a failed *)
(* fetch is deferred; a polygon with a deferred error is not checkpointed. *)
EnrichOne ==
    pc = "enrich" /\ \E p \in WithRef(work.polygons) :
    \E doc \in IF work.matches[p.ref] # NoMatch THEN {V1Doc(work.matches[p.ref])}
               ELSE {Fetched(p.ref)} \cup (IF IsReady THEN {} ELSE {DeferredError}) :
        /\ p.id \notin DOMAIN work.results
        /\ \A q \in WithRef(work.polygons) : q.id < p.id => q.id \in DOMAIN work.results
        /\ work' = [work EXCEPT !.results = Extended(@, p.id, [ref |-> p.ref, doc |-> doc])]
        /\ fetched' = IF doc = DeferredError THEN fetched
                      ELSE [fetched EXCEPT ![work.region].direct =
                              Extended(@, p.id, [ref |-> p.ref, doc |-> doc])]
        /\ UNCHANGED <<checkpoint, tables, manifest, hub, pc, plan, at, listVars>>
        /\ MainOnly

(* speculative_direct_results: a second lookup of what had no match; a     *)
(* deferred error without a match by now is raised.                        *)
EnrichmentFinished ==
    pc = "enrich" /\ \A p \in WithRef(work.polygons) : p.id \in DOMAIN work.results

Unmatched == {t \in Refs(work.polygons) : work.matches[t] = NoMatch}

QueryAgain ==
    /\ EnrichmentFinished /\ (Unmatched = {} \/ ~QueryRaises)
    /\ work' = [work EXCEPT !.queries = [t \in Unmatched |-> Query(t)]]
    /\ pc' = "rematch"
    /\ UNCHANGED <<checkpoint, fetched, tables, manifest, hub, plan, at, listVars>>
    /\ MainOnly

SecondMatch(t) == IF t \in DOMAIN work.queries THEN Answered(t) ELSE work.matches[t]

DocFor(p) ==
    LET result == work.results[p.id].doc IN
    CASE SecondMatch(p.ref) # NoMatch -> V1Doc(SecondMatch(p.ref))
      [] SecondMatch(p.ref) = NoMatch /\ result.title = p.ref -> result
      [] OTHER -> NoDoc

(* deduplicate_documents, deduplicate_links: rows of one identity are one. *)
DocsOf(links) == {l[2] : l \in links}

(* The links of the polygons that docOf, a function on them, finds a       *)
(* document for.                                                           *)
LinksTo(docOf) == {<<p.id, docOf[p]>> : p \in {q \in DOMAIN docOf : docOf[q] # NoDoc}}

EnrichmentRaises ==
    \/ QueriesRaise
    \/ /\ ~QueriesRaise
       /\ \E p \in WithRef(work.polygons) :
             SecondMatch(p.ref) = NoMatch /\ work.results[p.id].doc = DeferredError

Speculate ==
    LET direct == WithRef(work.polygons)
        links == LinksTo([p \in direct |-> DocFor(p)])
    IN
    /\ pc = "rematch" /\ ~EnrichmentRaises
    /\ work' = [NoWork EXCEPT
          !.region = work.region, !.found = work.found, !.reconciled = work.reconciled,
          !.content = Content(work.polygons, DocsOf(links), links, {}, {})]
    /\ FillCaches(work.queries)
    /\ pc' = "sections"
    /\ UNCHANGED <<checkpoint, fetched, tables, manifest, hub, plan, at, listVars>>
    /\ QueriesOnly

(* prepare_merge_sections copies V1's sections over the region's own table *)
(* before anything else is written.                                        *)
CopySections ==
    /\ pc = "sections"
    /\ tables' = IF work.mode = "reconcile" THEN tables
                 ELSE [tables EXCEPT ![work.region][3] = Sidecar]
    /\ pc' = "fetch-sections"
    /\ UNCHANGED <<checkpoint, fetched, manifest, hub, plan, at, listVars, work>>
    /\ MainOnly

(* The sections of the documents that have none yet are fetched.           *)
BuildSections ==
    /\ pc = "fetch-sections"
    /\ pc' = "write"
    /\ UNCHANGED <<checkpoint, fetched, tables, manifest, hub, plan, at, listVars, work>>
    /\ MainOnly

(* A plausible slip: every merged region counts as finished.               *)
DeferredNever == FALSE

(* After a merge, a region with Wikipedia tags among the polygons of its   *)
(* PBF waits for the index (_has_wikipedia_refs); another one is finished. *)
Deferred == work.mode = "merge" /\ WithRef(work.found) # {}

(* write_v2_region: the tables are staged, replaced, hashed; the manifest  *)
(* entry follows.                                                          *)
WriteTables ==
    /\ pc = "write"
    /\ tables' = [tables EXCEPT ![work.region] = [i \in DOMAIN Tables |-> Written(work.content)]]
    /\ pc' = "manifest"
    /\ UNCHANGED <<checkpoint, fetched, manifest, hub, plan, at, listVars, work>>
    /\ MainOnly

WriteManifest ==
    /\ pc = "manifest"
    /\ manifest' = [manifest EXCEPT ![work.region] = Entry(work.content, work.reconciled)]
    /\ extracted' = IF work.mode = "merge" THEN Append(extracted, work.region) ELSE extracted
    /\ IF Deferred
       THEN /\ provisional' = Append(provisional, work.region)
            /\ pc' = "process" /\ at' = at + 1 /\ work' = NoWork
       ELSE /\ pc' = "clear"
            /\ UNCHANGED <<provisional, at, work>>
    /\ UNCHANGED <<checkpoint, fetched, tables, hub, plan, pending>>
    /\ MainOnly

ClearCheckpoints ==
    /\ pc = "clear"
    /\ checkpoint' = [checkpoint EXCEPT ![work.region] = NoCheckpoint]
    /\ fetched' = [fetched EXCEPT ![work.region] = EmptyFetched]
    /\ pc' = IF work.mode = "merge" THEN "process" ELSE "reconcile"
    /\ at' = at + 1 /\ work' = NoWork
    /\ UNCHANGED <<tables, manifest, hub, plan, listVars>>
    /\ MainOnly

-----------------------------------------------------------------------------
(* _finalize_regions.                                                      *)

WaitUntilReady ==
    /\ pc = "process" /\ Done /\ pending = <<>> /\ IsReady
    /\ pc' = "reconcile" /\ at' = 1
    /\ UNCHANGED <<checkpoint, fetched, tables, manifest, hub, plan, listVars, work>>
    /\ MainOnly

(* The titles V1 holds now; unknown to the properties when the index still *)
(* has rows of shards that are gone (StaleRowsRemoved).                    *)
V1Titles == {TitleAt[s][v1[s]][g] : s \in EffectivePaths, g \in 1..Groups}
SeenTitles == IF StaleRowsRemoved THEN V1Titles ELSE {"unknown"}

(* The index is settled by now: by_titles in one step.                     *)
FinalAnswer(t) == Materialized(t, Query(t))
FinalMatch(t) == FinalAnswer(t).title

(* A plausible slip: the region's own documents come before the index.     *)
ReconciledDocOwnFirst(p, docs) ==
    CASE \E d \in docs : d.title = p.ref -> CHOOSE d \in docs : d.title = p.ref
      [] ~(\E d \in docs : d.title = p.ref) /\ FinalMatch(p.ref) # NoMatch ->
            V1Doc(FinalMatch(p.ref))
      [] OTHER -> Fetched(p.ref)

(* reconcile_v2_region: tag links are dropped and resolved again, from the *)
(* index, else from the documents of the region, else from Wikipedia;      *)
(* fetched documents that no link needs any more are dropped.              *)
ReconciledDoc(p, docs) ==
    CASE FinalMatch(p.ref) # NoMatch -> V1Doc(FinalMatch(p.ref))
      [] FinalMatch(p.ref) = NoMatch /\ \E d \in docs : d.title = p.ref ->
            CHOOSE d \in docs : d.title = p.ref
      [] OTHER -> Fetched(p.ref)

ReconciliationRaises(polygons) ==
    \E t \in Refs(polygons) : QueryRaises \/ MaterializeRaises(t, Query(t))

ReconcileRegion ==
    LET r == provisional[at]
        old == tables[r][1].content
        links == LinksTo([p \in WithRef(old.polygons) |-> ReconciledDoc(p, old.docs)])
        linked == DocsOf(links)
        early == {t \in Refs(old.polygons) : FinalAnswer(t).early}
    IN
    /\ pc = "reconcile" /\ at <= Len(provisional)
    /\ ~ReconciliationRaises(old.polygons)
    /\ fetched' = [fetched EXCEPT ![r] = OpenFetchCheckpoint(r, old.polygons)]
    /\ work' = [NoWork EXCEPT
          !.region = r, !.mode = "reconcile", !.reconciled = TRUE,
          !.content = Content(old.polygons,
                              linked \cup {d \in old.docs : d.origin = "v1"},
                              links, SeenTitles, early)]
    /\ FillCaches([t \in Refs(old.polygons) |-> Query(t)])
    /\ pc' = "sections"
    /\ UNCHANGED <<checkpoint, tables, manifest, hub, plan, at, listVars>>
    /\ QueriesOnly

ReconciledAll ==
    /\ pc = "reconcile" /\ at > Len(provisional)
    /\ pc' = "publish" /\ at' = 1
    /\ UNCHANGED <<checkpoint, fetched, tables, manifest, hub, plan, listVars, work>>
    /\ MainOnly

PublishBatch ==
    LET last == IF at + BatchSize - 1 < Len(extracted) THEN at + BatchSize - 1
                ELSE Len(extracted)
    IN
    /\ pc = "publish" /\ at <= Len(extracted)
    /\ hub' = Committed(SubSeq(extracted, at, last))
    /\ at' = last + 1
    /\ UNCHANGED <<checkpoint, fetched, tables, manifest, pc, plan, listVars, work>>
    /\ MainOnly

(* Maps, card, Trackio snapshot, the metadata commit: the run is complete. *)
WriteMetadata ==
    /\ pc = "publish" /\ at > Len(extracted)
    /\ pc' = "cleanup" /\ outcome' = "complete"
    /\ UNCHANGED <<indexVars, cacheVars, fileVars, extraction, plan, at, listVars, work, runs>>

-----------------------------------------------------------------------------
(* Failure, shutdown and crash.                                            *)

(* A call that failed: an upload, a fetch, a write (rolled back), a lookup *)
(* or a wait on a dead index, the prefetched extraction.                   *)
MustFail ==
    \/ pc = "load" /\ QueryRaises /\ WithRef(MergedPolygons(work.region, work.found)) # {}
    \/ pc = "match" /\ QueriesRaise
    \/ EnrichmentFinished /\ QueryRaises /\ Unmatched # {}
    \/ pc = "rematch" /\ EnrichmentRaises
    \/ /\ pc = "process" /\ ~Done /\ plan[at] = "extract" /\ pending = <<>>
       /\ extraction.phase = "failed"
    \/ pc = "process" /\ Done /\ pending = <<>> /\ index \in {"failed", "stopped"}
    \/ /\ pc = "reconcile" /\ at <= Len(provisional)
       /\ ReconciliationRaises(tables[provisional[at]][1].content.polygons)

(* The indexing thread empties the row cache while a row of it is in use.  *)
CacheRace ==
    /\ pc \in {"match", "rematch"} /\ index \in {"stale", "files", "scan"}
    /\ \E t \in DOMAIN work.queries : work.queries[t].row # NoRow

MayFail ==
    \/ pc = "process" /\ pending # <<>>
    \/ CacheRace
    \/ pc = "enrich" /\ IsReady
    \/ pc \in {"sections", "fetch-sections", "write", "manifest", "publish"}
    \/ pc = "reconcile" /\ at <= Len(provisional)

RunFails ==
    /\ MustFail \/ MayFail
    /\ pc' = "cleanup" /\ outcome' = "none"
    /\ UNCHANGED <<indexVars, cacheVars, fileVars, extraction, plan, at, listVars, work, runs>>

(* _cleanup: a queued extraction is cancelled, a running one is waited for;*)
(* then the index is told to stop.                                         *)
Cleanup ==
    /\ pc = "cleanup"
    /\ extraction.phase \in {"idle", "open", "done", "failed"}
    /\ extraction' = IdleExtraction
    /\ stop' = TRUE
    /\ pc' = "closing" /\ work' = NoWork
    /\ UNCHANGED <<v1, rows, fileState, progress, rowCount, index, position, cacheVars, fileVars,
                   plan, at, listVars, outcome, runs>>

(* The index thread has ended, or is left to finish a transaction while    *)
(* the process exits.                                                      *)
EndRun ==
    /\ pc = "closing"
    /\ pc' = "idle" /\ ForgetIndex
    /\ plan' = <<>> /\ at' = 1
    /\ extracted' = <<>> /\ provisional' = <<>> /\ pending' = <<>>
    /\ UNCHANGED <<fileVars, extraction, work, outcome, runs>>

ForgetMemory ==
    /\ pc' = "idle" /\ ForgetIndex
    /\ plan' = <<>> /\ at' = 1 /\ work' = NoWork /\ outcome' = "none"
    /\ extracted' = <<>> /\ provisional' = <<>> /\ pending' = <<>>
    /\ extraction' = IdleExtraction
    /\ UNCHANGED <<pbf, manifest, hub, fetched, runs>>

Crash == pc # "idle" /\ ForgetMemory /\ UNCHANGED <<checkpoint, tables>>

(* Killed while the old tables are set aside (the first k are away) or     *)
(* while the staged ones take their place (the first k are there).         *)
CrashReplacing ==
    /\ pc = "write"
    /\ \E k \in 1..Len(Tables) :
          \/ tables' = [tables EXCEPT ![work.region] =
                 [i \in DOMAIN Tables |-> IF i <= k THEN Missing ELSE @[i]]]
          \/ tables' = [tables EXCEPT ![work.region] =
                 [i \in DOMAIN Tables |-> IF i <= k THEN Written(work.content) ELSE Missing]]
    /\ ForgetMemory /\ UNCHANGED checkpoint

(* Killed while the chunk files are deleted, in any order, before their    *)
(* metadata.                                                               *)
CrashClearing ==
    /\ pc = "clear"
    /\ \E kept \in SUBSET DOMAIN checkpoint[work.region].chunks :
          checkpoint' = [checkpoint EXCEPT ![work.region].chunks = [i \in kept |-> @[i]]]
    /\ ForgetMemory /\ UNCHANGED tables

Outside ==
    /\ pc = "idle"
    /\ \/ /\ \E s \in Shards : V1Changes(s)
          /\ UNCHANGED pbf
       \/ /\ \E r \in Regions : pbf[r] < Len(PbfRows[r]) /\ pbf' = [pbf EXCEPT ![r] = @ + 1]
          /\ UNCHANGED <<indexVars, cacheVars>>
    /\ UNCHANGED <<checkpoint, fetched, tables, manifest, hub, extraction, mainVars, runs>>

(* No more runs are explored. *)
AllRunsDone == pc = "idle" /\ runs = MaxRuns /\ UNCHANGED vars

(* merge_v2_region, and reconcile_v2_region from its sections on.          *)
MergeStep ==
    \/ LoadMergeInputs \/ MatchTitles \/ EnrichOne \/ QueryAgain \/ Speculate
    \/ CopySections \/ BuildSections \/ WriteTables \/ WriteManifest \/ ClearCheckpoints

MainStep ==
    \/ SkipRegion \/ QueuePublish \/ QueueReconcile \/ FlushPending \/ TakeExtraction
    \/ MergeStep
    \/ WaitUntilReady \/ ReconcileRegion \/ ReconciledAll \/ PublishBatch \/ WriteMetadata
    \/ Cleanup \/ EndRun

IndexThread == IndexStep /\ UNCHANGED <<fileVars, extraction, mainVars, runs>>
IndexFailure == IndexFails /\ UNCHANGED <<fileVars, extraction, mainVars, runs>>

Next ==
    \/ BeginRun \/ MainStep \/ RunFails
    \/ ExtractionStep \/ ExtractionFails
    \/ IndexThread \/ IndexFailure
    \/ Crash \/ CrashReplacing \/ CrashClearing \/ Outside \/ AllRunsDone

Spec == Init /\ [][Next]_vars

-----------------------------------------------------------------------------
(* Files, checkpoints, lists and the manifest keep their shape.            *)
TypeOK ==
    /\ IndexTypeOK
    /\ \A r \in Regions :
          /\ pbf[r] \in DOMAIN PbfRows[r]
          /\ checkpoint[r].source \in 0..Len(PbfRows[r])
          /\ DOMAIN checkpoint[r].chunks \subseteq Nat
          /\ DOMAIN tables[r] = DOMAIN Tables
          /\ manifest[r] = NoEntry \/ manifest[r].reconciled \in BOOLEAN
          /\ hub[r] = NoEntry \/ hub[r].reconciled \in BOOLEAN
    /\ Range(extracted) \cup Range(provisional) \cup Range(pending) \subseteq Regions
    /\ runs \in 0..MaxRuns

(* What the prefetch thread hands over is the current PBF's polygons, all  *)
(* of them and in order, a polygon repeated only next to itself, however   *)
(* many earlier extractions of this or of an older PBF failed or were      *)
(* killed inside a chunk, its metadata, the last append of a failing scan  *)
(* or the deletion of the checkpoint (ExtractionCheckpoint,                *)
(* extract_v2_pbf).                                                        *)
ExtractionExact ==
    extraction.phase = "done" =>
        LET handed == extraction.rows
            source == SourceRows(extraction.region)
        IN  /\ Range(handed) = Range(source)
            /\ \A i, j \in DOMAIN handed : \A k, l \in DOMAIN source :
                  i <= j /\ handed[i] = source[k] /\ handed[j] = source[l] => k <= l

LinksOf(c, p) == {l \in c.links : l[1] = p.id}

(* In a region whose manifest entry says it is reconciled, every Wikipedia *)
(* tag is linked to the V1 document of its title when V1 has one, to one   *)
(* copy of the page of that title otherwise, and to nothing else: a row    *)
(* the half-built index gave for a shard that had changed, a page fetched  *)
(* before its shard was indexed, and a stale checkpoint leave no link      *)
(* behind (reconcile_v2_region).  The one exception is a title that the    *)
(* caches of by_titles still answer from a reference read before the index *)
(* was complete.                                                           *)
OnlyEarlyAnswersInexact ==
    \A r \in Regions :
        LET c == manifest[r].content.content
            exact(p) ==
                IF p.ref \in c.seen
                THEN LinksOf(c, p) = {<<p.id, V1Doc(p.ref)>>}
                ELSE /\ Cardinality(LinksOf(c, p)) <= 1
                     /\ \A l \in LinksOf(c, p) : l[2].title = p.ref
                     /\ p.ref \in Pages => LinksOf(c, p) # {}
        IN  manifest[r].reconciled /\ c.seen # {"unknown"} =>
              /\ \A p \in WithRef(c.polygons) : exact(p) \/ p.ref \in c.early
              /\ \A l \in c.links : l[2] \in c.docs

(* A region on the Hub is reconciled, unless the only tags it has are on   *)
(* V1 polygons its PBF no longer holds (_process_extraction,               *)
(* _publish_regions).                                                      *)
PublishedReconciled ==
    \A r \in Regions :
        hub[r] # NoEntry /\ ~hub[r].reconciled =>
            WithRef(hub[r].content.content.polygons) \subseteq V1Polygons[r]

(* merge_v2_region: "The runner reconciles those regions after the shared  *)
(* V1 index is complete, so no provisional artifact is published as final  *)
(* data."                                                                  *)
NoProvisionalPublished == \A r \in Regions : hub[r] # NoEntry => hub[r].reconciled

(* A run that ends normally leaves every region on the Hub, installed and  *)
(* matching its manifest entry (run_v2_sync).                              *)
CompleteRunCovers ==
    outcome = "complete" =>
        \A r \in Regions :
            /\ hub[r] # NoEntry /\ manifest[r] # NoEntry
            /\ \A i \in DOMAIN Tables : tables[r][i] = manifest[r].content

=============================================================================
