----------------------------- MODULE Containment -----------------------------
(***************************************************************************)
(* The retirement of regions that lie inside another one (pipeline/        *)
(* containment_migration, _audit, _policy), for one rule: a parent and its *)
(* children.  A push run first prepares the rule (audit, merge of the      *)
(* children into the parent's tables, quarantine of the originals,         *)
(* installation, manifests, the retirement manifest, removal of the        *)
(* children's files), then reads the Hub's inventory and enqueues one      *)
(* commit that adds the parent and deletes the children, then processes    *)
(* and publishes regions one after the other.  A run may be killed between *)
(* any two file operations; a run without push skips the preparation.      *)
(*                                                                         *)
(* Data abstraction: an identity is a member of Keys and a row records     *)
(* when it was extracted and which region its polygon_id names.  The five  *)
(* tables that augmentation writes are all merged alike, and               *)
(* wikidata/facts stands for them; of the two tables whose hashes an       *)
(* augmentation entry keeps, the document table stays as it is once a      *)
(* region has one (read_source_path), and the hash of the polygons stands  *)
(* for both.  The Hub has files of a region or none.  The upload queue is  *)
(* a FIFO of commits (UploadQueue has its steps).                          *)
(***************************************************************************)
EXTENDS Naturals, Sequences, FiniteSets, SequencesExt, Functions

CONSTANTS Parent,      \* the stem of the rule that is kept
          Children,    \* its children, the sequence of their sorted stems
          Keys,        \* identities
          MaxEdits,    \* bound: times a region is processed again
          MaxRuns,     \* bound: runs
          MaxKills     \* bound: kills

ASSUME ConstantsAssumption ==
    /\ Children \in Seq(Range(Children)) /\ Children # <<>> /\ Parent \notin Range(Children)
    /\ IsFiniteSet(Keys)
    /\ MaxEdits \in Nat /\ MaxRuns \in Nat /\ MaxKills \in Nat

ChildSet == Range(Children)
Regions  == {Parent} \cup ChildSet

\* TABLE_CONTRACTS, in their order
Contracts == <<"polygons", "polygon_articles", "facts">>
Subdirs   == Range(Contracts)

Row    == [extracted : 0..MaxEdits, of : Regions]
Rows   == UNION {[ks -> Row] : ks \in SUBSET Keys}
Tables == [Subdirs -> Rows]
Torn   == <<"torn", "copy">>     \* a copy that was interrupted

VARIABLES
    live,        \* disk: processed/<subdir>/<stem>.parquet; <<>> or <<rows>>
    sound,       \* the tables of a region are readable, without duplicates, of one schema
    quarantine,  \* disk: quarantine/containment-v1; <<>>, <<rows>> or Torn
    retired,     \* disk: containment_retirements.json
    processed,   \* disk: processed_pbfs.json; <<>> or <<statistics>> of each region
    core,        \* disk: core_hashes of the augmentation manifest; <<>> or <<polygons>>
    owed,        \* ghost: what of a region is older than its polygon table
    queue,       \* disk: the upload jobs to be delivered
    hub,         \* the regions of which the Hub has files
    pc,          \* the run: its step
    push,        \* the run: --push
    region,      \* the run: the region it processes
    staged,      \* the run: the tables merged or extracted; <<>> or <<tables>>
    at,          \* the run: contract and copy at hand
    present,     \* the run: the children at hand, to be removed or to be deleted on the Hub
    failed,      \* the run: jobs at the head of the queue whose upload failed
    clean,       \* the last run drained a queue that was empty when it started
    clock, runs, kills

disk == <<live, sound, quarantine, retired, processed, core, owed>>
mem  == <<push, region, staged, at, present, failed, clean>>
vars == <<disk, queue, hub, pc, mem, clock, runs, kills>>

------------------------------------------------------------------------------
(* Contents *)

\* What a PBF of region r gives, extracted now, for the identities in ks.
Extracted(r, ks, now) == [d \in Subdirs |-> [k \in ks |-> [extracted |-> now, of |-> r]]]

TablesOf(r) == [d \in Subdirs |-> live[r][d][1]]
HasFiles(r) == \A d \in Subdirs : live[r][d] # <<>>

\* The statistics that the processed manifest records of a region: how many
\* polygons it has.
ManifestStats(tables) == Cardinality(DOMAIN tables["polygons"])

\* core_hashes: the polygon table as it was hashed.
CoreHashes(tables) == tables["polygons"]

\* Mutant: the parent's row is kept although the child's is newer.
CanonicalParentFirst(parent, child) == [IF parent = <<>> THEN child ELSE parent[1]
                                           EXCEPT !.of = Parent]

\* _canonical_polygon_row: the newest snapshot under the parent's provenance.
\* parent is <<>> or <<the parent's row>>.
CanonicalPolygonRow(parent, child) ==
    LET newest == IF parent = <<>> THEN child
                  ELSE IF child.extracted > parent[1].extracted THEN child ELSE parent[1]
    IN  [newest EXCEPT !.of = Parent]

RowAt(rows, k) == IF k \in DOMAIN rows THEN <<rows[k]>> ELSE <<>>

\* _merge_child_polygon_rows
MergePolygons(rows, child) ==
    [k \in DOMAIN rows \cup DOMAIN child |->
        IF k \in DOMAIN child THEN CanonicalPolygonRow(RowAt(rows, k), child[k]) ELSE rows[k]]

\* _remap_link: a link of the child names the polygon of the merged table.
RemapLink(row, k, polygons) == [row EXCEPT !.of = polygons[k].of]

\* _append_child_rows: identities the table has are skipped.
AppendRows(rows, child, subdir, polygons) ==
    [k \in DOMAIN rows \cup DOMAIN child |->
        IF k \in DOMAIN rows THEN rows[k]
        ELSE IF subdir = "polygon_articles" THEN RemapLink(child[k], k, polygons)
        ELSE child[k]]

\* _merge_polygon_rows, _merged_contract_rows over the children in their order.
\* after[n] is the parent's table with the first n children merged into it.
MergedPolygons(children) ==
    LET after[n \in 0..Len(children)] ==
            IF n = 0 THEN TablesOf(Parent)["polygons"]
            ELSE MergePolygons(after[n - 1], TablesOf(children[n])["polygons"])
    IN  after[Len(children)]

MergedRows(subdir, children, polygons) ==
    LET after[n \in 0..Len(children)] ==
            IF n = 0 THEN TablesOf(Parent)[subdir]
            ELSE AppendRows(after[n - 1], TablesOf(children[n])[subdir], subdir, polygons)
    IN  after[Len(children)]

\* stage_rule
StagedTables(children) ==
    LET polygons == MergedPolygons(children)
    IN  [d \in Subdirs |->
            IF d = "polygons" THEN polygons ELSE MergedRows(d, children, polygons)]

------------------------------------------------------------------------------

Init ==
    /\ \E present0 \in SUBSET ChildSet, keys \in [Regions -> (SUBSET Keys) \ {{}}] :
          /\ live = [r \in Regions |-> [d \in Subdirs |->
                        IF r \in ChildSet \ present0 THEN <<>>
                        ELSE <<Extracted(r, keys[r], 0)[d]>>]]
          /\ processed = [r \in Regions |-> IF r \in ChildSet \ present0 THEN <<>>
                                ELSE <<ManifestStats(Extracted(r, keys[r], 0))>>]
          /\ core = [r \in Regions |-> IF r \in ChildSet \ present0 THEN <<>>
                                ELSE <<CoreHashes(Extracted(r, keys[r], 0))>>]
          /\ hub = {Parent} \cup present0
    /\ sound \in [Regions -> BOOLEAN]
    /\ quarantine = [r \in Regions |-> [d \in Subdirs |-> <<>>]]
    /\ retired = {} /\ owed = [r \in Regions |-> {}] /\ queue = <<>>
    /\ pc = "down" /\ push = FALSE /\ region = Parent /\ staged = <<>> /\ at = <<1, 1>>
    /\ present = {} /\ failed = 0 /\ clean = FALSE
    /\ clock = 0 /\ runs = 0 /\ kills = 0

------------------------------------------------------------------------------
(* prepare_safe_rules, prepare_local_rule *)

Begin(p) ==
    /\ pc = "down" /\ runs < MaxRuns
    /\ push' = p
    /\ pc' = IF p THEN "prepare" ELSE "run"
    /\ clean' = FALSE /\ failed' = 0 /\ present' = {}
    /\ runs' = runs + 1
    /\ UNCHANGED <<disk, queue, hub, region, staged, at, clock, kills>>

\* _pending_rule: the children that are not retired.
Pending ==
    LET kept[n \in 0..Len(Children)] ==
            IF n = 0 THEN <<>>
            ELSE IF Children[n] \in retired THEN kept[n - 1]
            ELSE Append(kept[n - 1], Children[n])
    IN  kept[Len(Children)]

\* _has_required_files
HasRequiredFiles == \A r \in {Parent} \cup Range(Pending) : HasFiles(r)

\* _audit_child: a table of the child or of the parent that cannot be read, has
\* duplicate identities or another schema blocks; identities the parent lacks do not.
AuditedClean(c) == sound[c] /\ sound[Parent]

\* audit_rule: what blocks one child blocks the rule.
SafeToStage == \A c \in Range(Pending) : AuditedClean(c)

\* Nothing is pending, a file is missing, or the audit blocks the rule.
SkipRule ==
    /\ pc = "prepare"
    /\ Pending = <<>> \/ ~HasRequiredFiles \/ ~SafeToStage
    /\ pc' = "plan"
    /\ UNCHANGED <<disk, queue, hub, mem, clock, runs, kills>>

\* _remap_link finds the polygon of every link that is new to the parent.
LinksNamed(children) ==
    \A c \in Range(children) :
        DOMAIN TablesOf(c)["polygon_articles"] \ DOMAIN TablesOf(Parent)["polygon_articles"]
            \subseteq DOMAIN MergedPolygons(children)

\* Ghost: a table whose polygons have no facts yet is merged, or a merge that was cut
\* short is merged again.
Lags == \/ "merge" \in owed[Parent]
        \/ \E c \in Range(Pending) : "facts" \in owed[c]

StageRule ==
    /\ pc = "prepare"
    /\ Pending # <<>> /\ HasRequiredFiles /\ SafeToStage /\ LinksNamed(Pending)
    /\ staged' = <<StagedTables(Pending)>>
    /\ owed' = [owed EXCEPT ![Parent] = IF Lags THEN @ \cup {"facts"} ELSE @]
    /\ pc' = "copy" /\ at' = <<1, 1>>
    /\ UNCHANGED <<live, sound, quarantine, retired, processed, core, queue, hub, push, region,
                   present, failed, clean, clock, runs, kills>>

\* A link of a child names no polygon: KeyError, and the run ends.
StageRaises ==
    /\ pc = "prepare"
    /\ Pending # <<>> /\ HasRequiredFiles /\ SafeToStage /\ ~LinksNamed(Pending)
    /\ pc' = "down" /\ push' = FALSE
    /\ UNCHANGED <<disk, queue, hub, region, staged, at, present, failed, clean, clock, runs,
                   kills>>

\* The files of a contract in the order in which they are quarantined.
Inputs == <<Parent>> \o Pending

\* _copy_once: nothing is done if the copy exists.
CopyOnce ==
    LET d == Contracts[at[1]]
        r == Inputs[at[2]]
    IN  /\ pc = "copy"
        /\ quarantine' = IF quarantine[r][d] # <<>> THEN quarantine
                         ELSE [quarantine EXCEPT ![r][d] = live[r][d]]
        /\ IF at[2] < Len(Inputs) THEN at' = <<at[1], at[2] + 1>> /\ UNCHANGED pc
                                  ELSE pc' = "install" /\ UNCHANGED at
        /\ UNCHANGED <<live, sound, retired, processed, core, owed, queue, hub, push, region,
                       staged, present, failed, clean, clock, runs, kills>>

\* _install_file: one table of the parent is replaced.
InstallFile ==
    LET d == Contracts[at[1]]
    IN  /\ pc = "install"
        /\ live' = [live EXCEPT ![Parent][d] = <<staged[1][d]>>]
        /\ owed' = [owed EXCEPT ![Parent] =
                        IF d = "facts" THEN @ \ {"merge"} ELSE @ \cup {"merge"}]
        /\ IF at[1] < Len(Contracts) THEN pc' = "copy" /\ at' = <<at[1] + 1, 1>>
                                     ELSE pc' = "processed" /\ UNCHANGED at
        /\ UNCHANGED <<sound, quarantine, retired, processed, core, queue, hub, push, region,
                       staged, present, failed, clean, clock, runs, kills>>

\* _update_processed_manifest: the children's entries go, the parent's is updated.
UpdateProcessedManifest ==
    /\ pc = "processed"
    /\ processed' = [r \in Regions |->
           IF r \in Range(Pending) THEN <<>>
           ELSE IF r = Parent /\ processed[r] # <<>> THEN <<ManifestStats(staged[1])>>
           ELSE processed[r]]
    /\ owed' = [owed EXCEPT ![Parent] = @ \ {"entry"}]
    /\ pc' = "augmented"
    /\ UNCHANGED <<live, sound, quarantine, retired, core, queue, hub, mem, clock, runs, kills>>

\* Mutant: the children's entries go, the parent's keeps the hashes it had.
UpdateAugmentationChildrenOnly ==
    /\ pc = "augmented"
    /\ core' = [r \in Regions |-> IF r \in Range(Pending) THEN <<>> ELSE core[r]]
    /\ owed' = [owed EXCEPT ![Parent] = @ \ {"hash"}]
    /\ pc' = "record"
    /\ UNCHANGED <<live, sound, quarantine, retired, processed, queue, hub, mem, clock, runs,
                   kills>>

\* _update_augmentation_manifest: the hashes of the merged tables, whatever the ones
\* before said of the parent's facts.
UpdateAugmentationManifest ==
    /\ pc = "augmented"
    /\ core' = [r \in Regions |->
           IF r \in Range(Pending) THEN <<>>
           ELSE IF r = Parent /\ core[r] # <<>> THEN <<CoreHashes(staged[1])>>
           ELSE core[r]]
    /\ owed' = [owed EXCEPT ![Parent] = @ \ {"hash"}]
    /\ pc' = "record"
    /\ UNCHANGED <<live, sound, quarantine, retired, processed, queue, hub, mem, clock, runs,
                   kills>>

\* _persist_prepared_rule: the children are retired, their files are still there.
PersistPreparedRule ==
    /\ pc = "record"
    /\ retired' = retired \cup Range(Pending)
    /\ present' = Range(Pending)
    /\ pc' = "remove"
    /\ UNCHANGED <<live, sound, quarantine, processed, core, owed, queue, hub, push, region, staged,
                   at, failed, clean, clock, runs, kills>>

\* _remove_active_children: child by child, one file at a time.
RemoveFile ==
    /\ pc = "remove"
    /\ \E i \in DOMAIN Children, j \in DOMAIN Contracts :
          /\ Children[i] \in present /\ live[Children[i]][Contracts[j]] # <<>>
          /\ \A m \in 1..i, n \in DOMAIN Contracts :
                m < i \/ n < j => live[Children[m]][Contracts[n]] = <<>> \/ Children[m] \notin present
          /\ live' = [live EXCEPT ![Children[i]][Contracts[j]] = <<>>]
    /\ UNCHANGED <<sound, quarantine, retired, processed, core, owed, queue, hub, pc, mem, clock,
                   runs, kills>>

Removed ==
    /\ pc = "remove"
    /\ \A c \in present, d \in Subdirs : live[c][d] = <<>>
    /\ pc' = "plan" /\ staged' = <<>> /\ present' = {}
    /\ UNCHANGED <<disk, queue, hub, push, region, at, failed, clean, clock, runs, kills>>

------------------------------------------------------------------------------
(* Remote reconciliation, the upload queue, the regions *)

\* Mutant: only the children that have local files are looked for.
RemotePresentLocally == {c \in retired \cap hub : HasFiles(c)}

\* _containment_publications_for_remote: the retired children the inventory shows.
RemotePresent == retired \cap hub

\* _active_pbfs
Active == Regions \ retired

\* _validate_core_state, _resolve_augmentation_status: the polygons, the links and the
\* processed entry of a region are all there or all missing, and an augmented region
\* has its tables.
Consistent(r) ==
    LET have == {live[r]["polygons"] # <<>>, live[r]["polygon_articles"] # <<>>,
                 processed[r] # <<>>}
    IN  /\ have \in {{TRUE}, {FALSE}}
        /\ core[r] # <<>> => live[r]["facts"] # <<>>

\* prepare_remote_reconciliation reads the inventory; the queue is opened later.
FetchInventory ==
    /\ pc = "plan" /\ \A r \in Active : Consistent(r)
    /\ present' = RemotePresent
    /\ clean' = (queue = <<>>)
    /\ pc' = "open"
    /\ UNCHANGED <<disk, queue, hub, push, region, staged, at, failed, clock, runs, kills>>

\* A region in between, which a kill left, is refused, and the run ends.
PlanRaises ==
    /\ pc = "plan" /\ \E r \in Active : ~Consistent(r)
    /\ pc' = "down" /\ push' = FALSE
    /\ UNCHANGED <<disk, queue, hub, region, staged, at, present, failed, clean, clock, runs,
                   kills>>

\* assemble_containment_retirement_upload: the parent's files, the retirement
\* manifest, and the deletion of the children, in one commit.
RetirementJob == [adds |-> Parent, deletes |-> present, manifest |-> TRUE]

\* enqueue_containment_retirement, after the jobs of earlier runs were resumed.
EnqueueRetirement ==
    /\ pc = "open"
    /\ queue' = IF present = {} THEN queue ELSE Append(queue, RetirementJob)
    /\ pc' = "run"
    /\ UNCHANGED <<disk, hub, mem, clock, runs, kills>>

\* assemble_region_upload: files of one region.
RegionJob(r) == [adds |-> r, deletes |-> {}, manifest |-> FALSE]

\* A PBF is extracted, and the first of its tables replaced (_replace_persistence_files).
PersistPolygons(r, ks, s) ==
    /\ pc = "run" /\ r \in Active /\ clock < MaxEdits
    /\ clock' = clock + 1
    /\ staged' = <<Extracted(r, ks, clock + 1)>>
    /\ region' = r
    /\ live' = [live EXCEPT ![r]["polygons"] = <<Extracted(r, ks, clock + 1)["polygons"]>>]
    /\ sound' = [sound EXCEPT ![r] = s]
    /\ owed' = [owed EXCEPT ![r] = {"links", "entry", "facts", "hash"}]
    /\ pc' = "links"
    /\ UNCHANGED <<quarantine, retired, processed, core, queue, hub, push, at, present, failed,
                   clean, runs, kills>>

PersistLinks ==
    /\ pc = "links"
    /\ live' = [live EXCEPT ![region]["polygon_articles"] = <<staged[1]["polygon_articles"]>>]
    /\ owed' = [owed EXCEPT ![region] = @ \ {"links"}]
    /\ pc' = "entry"
    /\ UNCHANGED <<sound, quarantine, retired, processed, core, queue, hub, mem, clock, runs, kills>>

\* _write_manifest_entry
WriteManifestEntry ==
    /\ pc = "entry"
    /\ processed' = [processed EXCEPT ![region] = <<ManifestStats(staged[1])>>]
    /\ owed' = [owed EXCEPT ![region] = @ \ {"entry"}]
    /\ pc' = "facts"
    /\ UNCHANGED <<live, sound, quarantine, retired, core, queue, hub, mem, clock, runs, kills>>

\* augmentation_is_current: the polygons are the ones that were hashed.
AugmentationIsCurrent(r) == core[r] = live[r]["polygons"] /\ live[r]["facts"] # <<>>

\* A region that has its core and whose augmentation is not current (_action_for_stem).
AugmentRegion(r) ==
    /\ pc = "run" /\ r \in Active /\ ~AugmentationIsCurrent(r)
    /\ processed[r] # <<>> /\ live[r]["polygons"] # <<>> /\ live[r]["polygon_articles"] # <<>>
    /\ region' = r /\ pc' = "facts"
    /\ UNCHANGED <<disk, queue, hub, push, staged, at, present, failed, clean, clock, runs, kills>>

\* write_sidecars: facts of the polygons as they are.
WriteSidecars ==
    /\ pc = "facts"
    /\ live' = [live EXCEPT ![region]["facts"] =
           <<[k \in DOMAIN live[region]["polygons"][1] |-> [extracted |-> clock, of |-> region]]>>]
    /\ owed' = [owed EXCEPT ![region] = @ \ {"facts", "merge"}]
    /\ pc' = "hashes"
    /\ UNCHANGED <<sound, quarantine, retired, processed, core, queue, hub, mem, clock, runs, kills>>

\* update_augmentation_manifest
WriteAugmentationEntry ==
    /\ pc = "hashes"
    /\ core' = [core EXCEPT ![region] = live[region]["polygons"]]
    /\ owed' = [owed EXCEPT ![region] = @ \ {"hash"}]
    /\ pc' = "publish"
    /\ UNCHANGED <<live, sound, quarantine, retired, processed, queue, hub, mem, clock, runs, kills>>

\* A push run enqueues the region's publication.
PublishRegion ==
    /\ pc = "publish"
    /\ queue' = IF push THEN Append(queue, RegionJob(region)) ELSE queue
    /\ pc' = "run" /\ region' = Parent /\ staged' = <<>>
    /\ UNCHANGED <<disk, hub, push, at, present, failed, clean, clock, runs, kills>>

\* _validate_upload_safety: region files are deleted only with the retirement manifest.
UploadSafe(job) == job.deletes # {} => job.manifest

\* upload_files: one commit; deletions of absent paths are dropped.
Committed(job) == (hub \ job.deletes) \cup {job.adds}

\* The job the worker takes next: the ones before it failed and stay on disk.
Working   == pc \in {"links", "entry", "facts", "hashes", "publish"}
WorkerHas == (Working \/ pc \in {"open", "run"}) /\ push /\ failed < Len(queue)
NextJob   == queue[failed + 1]

Deliver ==
    /\ WorkerHas /\ UploadSafe(NextJob)
    /\ hub' = Committed(NextJob)
    /\ queue' = RemoveAt(queue, failed + 1)
    /\ UNCHANGED <<disk, pc, mem, clock, runs, kills>>

\* The attempts are used up, possibly by a commit that was made and reported as failed;
\* the worker goes on with the next job.
DeliverFails(committed) ==
    /\ WorkerHas
    /\ committed => UploadSafe(NextJob)
    /\ hub' = IF committed THEN Committed(NextJob) ELSE hub
    /\ failed' = failed + 1
    /\ UNCHANGED <<disk, queue, pc, push, region, staged, at, present, clean, clock, runs, kills>>

\* The queue is drained, and failures are reported.
Finish ==
    /\ pc = "run"
    /\ ~push \/ failed = Len(queue)
    /\ clean' = (clean /\ push /\ failed = 0)
    /\ pc' = "down" /\ push' = FALSE /\ failed' = 0 /\ present' = {}
    /\ UNCHANGED <<disk, queue, hub, region, staged, at, clock, runs, kills>>

\* A kill, or an exception that ends the run; a copy at hand may be left torn.
Kill(torn) ==
    /\ pc # "down" /\ kills < MaxKills
    /\ torn => /\ pc = "copy"
               /\ quarantine[Inputs[at[2]]][Contracts[at[1]]] = <<>>
    /\ quarantine' = IF torn THEN [quarantine EXCEPT ![Inputs[at[2]]][Contracts[at[1]]] = Torn]
                     ELSE quarantine
    /\ kills' = kills + 1
    /\ pc' = "down" /\ push' = FALSE /\ region' = Parent /\ staged' = <<>> /\ at' = <<1, 1>>
    /\ present' = {} /\ failed' = 0 /\ clean' = FALSE
    /\ UNCHANGED <<live, sound, retired, processed, core, owed, queue, hub, clock, runs>>

Prepare ==
    \/ SkipRule \/ StageRule \/ StageRaises \/ CopyOnce \/ InstallFile \/ UpdateProcessedManifest
    \/ UpdateAugmentationManifest \/ PersistPreparedRule \/ RemoveFile \/ Removed

Process ==
    \/ \E r \in Regions, ks \in (SUBSET Keys) \ {{}}, s \in BOOLEAN : PersistPolygons(r, ks, s)
    \/ PersistLinks \/ WriteManifestEntry \/ \E r \in Regions : AugmentRegion(r)
    \/ WriteSidecars \/ WriteAugmentationEntry \/ PublishRegion

Next ==
    \/ \E p \in BOOLEAN : Begin(p)
    \/ Prepare \/ FetchInventory \/ PlanRaises \/ EnqueueRetirement \/ Process
    \/ Deliver \/ Finish \/ \E committed \in BOOLEAN : DeliverFails(committed)
    \/ \E torn \in BOOLEAN : Kill(torn)

Spec == Init /\ [][Next]_vars

------------------------------------------------------------------------------
(* Properties *)

Maybe(S) == {<<>>} \cup [1..1 -> S]     \* <<>> or <<a member of S>>

\* A commit adds one region, and deletes children with the retirement manifest.
Job == [adds : Regions, deletes : SUBSET ChildSet, manifest : BOOLEAN]

\* Files, manifests, jobs and the run's own state keep their shape.
TypeOK ==
    /\ live \in [Regions -> [Subdirs -> Maybe(Rows)]]
    /\ sound \in [Regions -> BOOLEAN]
    /\ quarantine \in [Regions -> [Subdirs -> Maybe(Rows) \cup {Torn}]]
    /\ retired \subseteq ChildSet
    /\ processed \in [Regions -> Maybe(0..Cardinality(Keys))]
    /\ core \in [Regions -> Maybe(Rows)]
    /\ owed \in [Regions -> SUBSET {"links", "entry", "facts", "hash", "merge"}]
    /\ queue \in Seq(Job)
    /\ hub \subseteq Regions /\ region \in Regions
    /\ pc \in {"down", "prepare", "copy", "install", "processed", "augmented", "record",
               "remove", "plan", "open", "run", "links", "entry", "facts", "hashes", "publish"}
    /\ push \in BOOLEAN /\ clean \in BOOLEAN
    /\ staged \in Maybe(Tables)
    /\ at \in (1..Len(Contracts)) \X (1..Len(Children) + 1)
    /\ present \subseteq ChildSet /\ failed \in 0..Len(queue)
    /\ clock \in 0..MaxEdits /\ runs \in 0..MaxRuns /\ kills \in 0..MaxKills

\* Every row of the child's table is in the parent's: the polygon at least as new,
\* and the link of a polygon naming the row that the parent's polygon table has.  A
\* link may name no polygon if its child was killed before its links were replaced.
Covered(c, d) ==
    \A k \in DOMAIN live[c][d][1] :
        /\ k \in DOMAIN live[Parent][d][1]
        /\ d = "polygons" => live[Parent][d][1][k].extracted >= live[c][d][1][k].extracted
        /\ d = "polygon_articles" =>
               \/ "links" \in owed[c]
               \/ /\ k \in DOMAIN live[Parent]["polygons"][1]
                  /\ live[Parent][d][1][k].of = live[Parent]["polygons"][1][k].of

\* A file of a child is removed only when the parent's table covers it and the child
\* is recorded as retired, whatever was killed, processed again or half installed
\* before (stage_rule, _quarantine_and_install, _remove_active_children).
RemovalLossless ==
    [][\A c \in ChildSet, d \in Subdirs :
          (live[c][d] # <<>> /\ live'[c][d] = <<>>) => c \in retired /\ Covered(c, d)]_vars

\* Once the children are retired the parent's entries in both manifests describe its
\* tables as they are and every polygon, merged ones included, has its facts
\* (_update_pipeline_manifests before _persist_prepared_rule).  What is behind is
\* behind only where a later processing of the parent has not come to it, or was
\* killed before it; the facts also where such a table, or a half installed merge, was
\* merged: _update_augmentation_manifest then marks them current.
OnlyCutShortStale ==
    retired # {} =>
        /\ "entry" \notin owed[Parent] => processed[Parent] = <<ManifestStats(TablesOf(Parent))>>
        /\ "hash" \notin owed[Parent] => core[Parent] = <<CoreHashes(TablesOf(Parent))>>
        /\ "facts" \notin owed[Parent] =>
               DOMAIN live[Parent]["polygons"][1] \subseteq DOMAIN live[Parent]["facts"][1]

\* After a push run that started with nothing queued and whose uploads all succeeded
\* no retired child is left on the Hub (_containment_publications_for_remote,
\* _active_pbfs, enqueue_containment_retirement).
CleanRunRetires == (pc = "down" /\ clean) => retired \cap hub = {}

\* Not kept by the code: a region that counts as augmented has the facts of all its
\* polygons.  The merge records the hashes of the merged polygons although the facts
\* of a region that was killed before its augmentation are missing.
CurrentMeansAugmented ==
    pc = "down" => \A r \in Active : AugmentationIsCurrent(r) =>
        DOMAIN live[r]["polygons"][1] \subseteq DOMAIN live[r]["facts"][1]

\* Not kept by the code: the quarantine holds what a removed file held.  _copy_once
\* keeps a copy that a kill tore, and one of a child that was processed again since.
QuarantineKeepsOriginals ==
    [][\A c \in ChildSet, d \in Subdirs :
          (live[c][d] # <<>> /\ live'[c][d] = <<>>) => quarantine[c][d] = live[c][d]]_vars

\* Not kept by the code: after a clean run no retired child has active files.  A kill
\* after _persist_prepared_rule leaves them: _pending_rule drops the retired children
\* before the branch of prepare_local_rule that would remove their files.
RetiredFilesRemoved ==
    (pc = "down" /\ clean) => \A c \in retired, d \in Subdirs : live[c][d] = <<>>
==============================================================================
