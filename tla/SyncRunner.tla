------------------------------ MODULE SyncRunner ------------------------------
(***************************************************************************)
(* One `sync-dir --push` run after another over the same data root: the    *)
(* plan (pipeline/sync_planner.py, sync_planning.py, sync_reconciliation   *)
(* .py, hf/reconciliation.py), its execution by the main thread with one   *)
(* extraction thread ahead of it (pipeline/sync_runner.py) and the region  *)
(* callbacks (cli/sync_application.py).  The upload queue appears as what  *)
(* UploadQueue guarantees of it: a durable, retried, per-region ordered    *)
(* set of jobs; the pending-publications file as what PublicationIntent    *)
(* guarantees of a single writer.                                          *)
(*                                                                         *)
(* Data abstraction: a region has two parts, which are published apart:    *)
(* "core" is its polygons table, "rest" its link table and its sidecars.   *)
(* Its local content is always "current"; what the Hub or a queued job     *)
(* holds of a part is the same content, an "old" one or none.  The shared  *)
(* manifests are left to the metadata refresh of PublicationIntent.        *)
(* Regions are numbers: alphabetical order is <.                           *)
(***************************************************************************)
EXTENDS Naturals, FiniteSets, FiniteSetsExt, Sequences, SequencesExt

CONSTANTS Regions,
          MaxLeft     \* bound: uploads an earlier run left when a run starts

ASSUME RegionsAssumption ==
    Regions \subseteq Nat \ {0} /\ IsFiniteSet(Regions) /\ MaxLeft \in Nat

Phases  == {"recovery", "augment", "process"}
Parts   == {"core", "rest"}
Content == [Parts -> {"none", "old", "current"}]
Whole   == [part \in Parts |-> "current"]

\* What the data root holds of a region: "partial" is tables without an entry in
\* processed_pbfs.json; current: its augmentation matches its tables; damaged:
\* the integrity audit finds something to repair; legacy: the link table is not
\* canonical.
Local == [core : {"none", "partial", "complete"},
          current : BOOLEAN, damaged : BOOLEAN, legacy : BOOLEAN]

VARIABLES
    local,      \* disk: the regions
    pending,    \* disk: pending publications
    jobs,       \* disk: queued uploads per region, in the order of submission
    hub,        \* the Hub: what it holds of each region
    pc, phase,  \* main thread: the step, the phase of run_sync
    cur,        \* main thread: the region at hand, 0 for none
    todo,       \* main thread: the regions left in each phase
    owed,       \* main thread: the pending stems, as read when planning
    absent,     \* main thread: the regions whose core was not on the Hub when planning
    recovered,  \* main thread: the region at hand is in _recovered_stems
    future,     \* main thread: the region whose extraction was submitted last, or 0
    extracted,  \* main thread: the region whose extraction is being persisted, or 0
    pool,       \* extraction thread: extractions submitted and not finished
    results,    \* extraction thread: finished extractions
    errors,     \* extraction thread: failed extractions
    tried,      \* upload worker: per region, how many jobs used up their attempts
    changed,    \* history: the parts of each region that this run changed
    exposed     \* history: regions changed by a run that stopped before it submitted
                \* them, or with an upload delivered past one that had used up its
                \* attempts, and not submitted whole since

disk     == <<local, pending>>
mainVars == <<phase, cur, todo, owed, absent, recovered>>
poolVars == <<future, extracted, pool, results, errors>>
upload   == <<jobs, tried>>
history  == <<changed, exposed>>
vars     == <<disk, jobs, hub, pc, mainVars, poolVars, tried, changed, exposed>>

NewRegion == [core |-> "none", current |-> FALSE, damaged |-> FALSE, legacy |-> FALSE]

\* A region is new, or an earlier release has processed and published it.
Init ==
    /\ local \in [Regions -> {NewRegion} \cup [core : {"complete"}, current : BOOLEAN,
                                               damaged : BOOLEAN, legacy : BOOLEAN]]
    /\ pending = {}
    /\ jobs = [r \in Regions |-> <<>>]
    /\ hub = [r \in Regions |-> IF local[r] = NewRegion THEN [part \in Parts |-> "none"] ELSE Whole]
    /\ pc = "down" /\ phase = "recovery" /\ cur = 0
    /\ todo = [p \in Phases |-> {}]
    /\ owed = {} /\ absent = {} /\ recovered = FALSE
    /\ future = 0 /\ extracted = 0 /\ pool = {} /\ results = {} /\ errors = {}
    /\ tried = [r \in Regions |-> 0]
    /\ changed = [r \in Regions |-> {}]
    /\ exposed = {}

Outdated(content, parts) ==
    [part \in Parts |-> IF part \in parts /\ content[part] = "current" THEN "old" ELSE content[part]]

\* These parts of the region are new: what the Hub and the queued jobs hold is old.
Supersede(r, parts) ==
    /\ hub' = [hub EXCEPT ![r] = Outdated(@, parts)]
    /\ jobs' = [jobs EXCEPT ![r] = [i \in DOMAIN @ |-> Outdated(@[i], parts)]]
    /\ changed' = [changed EXCEPT ![r] = @ \cup parts]
    /\ UNCHANGED <<tried, exposed>>

------------------------------------------------------------------------------
(* Planning *)

\* ReconciliationPlanner: expected paths the Hub does not have, and regions to
\* augment.  Only the presence of a path is looked at.
Gaps(input) ==
    {r \in input : local[r].core = "complete" /\
        ((\E part \in Parts : hub[r][part] = "none") \/ ~local[r].current)}

\* _action_for_stem with the recovery stems of plan_sync_states_with_recovery:
\* unless forced, every region with a current augmentation.  "publish" is left to
\* regions that are none of these.
ActionForStem(r, force, pendingStems) ==
    LET recovery == ~force \/ local[r].legacy IN
    IF force \/ local[r].core # "complete" THEN "process"
    ELSE IF ~local[r].current THEN "augment"
    ELSE IF recovery THEN "recovery"
    ELSE IF r \in pendingStems THEN "publish"
    ELSE "complete"

\* The command is started; the reconciliation refuses a region with tables and no
\* manifest entry.  The queue resumes every job on disk.  (The containment rules
\* prepared before that are in Containment.)
Start(input, force) ==
    /\ pc = "down"
    /\ MapThenSumSet(LAMBDA r : Len(jobs[r]), Regions) <= MaxLeft
    /\ \A r \in input : local[r].core # "partial"
    /\ owed' = pending \cup Gaps(input)
    /\ absent' = {r \in input : \E part \in Parts : hub[r][part] = "none"}
    /\ todo' = [p \in Phases |-> {r \in input : ActionForStem(r, force, owed') = p}]
    /\ pc' = "loop" /\ phase' = "recovery"
    /\ UNCHANGED <<disk, upload, hub, cur, recovered, poolVars, history>>

------------------------------------------------------------------------------
(* Phases of run_sync *)

\* Recovery is done: the first extraction starts, then the backlog is augmented.
StartPrefetch ==
    /\ pc = "loop" /\ phase = "recovery" /\ todo["recovery"] = {}
    /\ phase' = "augment"
    /\ IF todo["process"] = {} THEN UNCHANGED poolVars
       ELSE /\ future' = Min(todo["process"])
            /\ pool' = pool \cup {future'}
            /\ UNCHANGED <<extracted, results, errors>>
    /\ UNCHANGED <<disk, hub, pc, cur, todo, owed, absent, recovered, upload, history>>

AugmentDone ==
    /\ pc = "loop" /\ phase = "augment" /\ todo["augment"] = {}
    /\ phase' = "process"
    /\ UNCHANGED <<disk, hub, pc, cur, todo, owed, absent, recovered, poolVars, upload, history>>

\* _run_process_phase: future.result(), then the next extraction is submitted.
AwaitExtraction ==
    /\ pc = "loop" /\ phase = "process" /\ todo["process"] # {}
    /\ future \in results
    /\ cur' = Min(todo["process"]) /\ recovered' = FALSE
    /\ extracted' = future
    /\ results' = results \ {future}
    /\ LET rest == todo["process"] \ {cur'} IN
       /\ future' = IF rest = {} THEN 0 ELSE Min(rest)
       /\ pool' = IF rest = {} THEN pool ELSE pool \cup {future'}
    /\ pc' = "persist"
    /\ UNCHANGED <<disk, hub, phase, todo, owed, absent, errors, upload, history>>

\* The region at hand, if it was changed and not submitted.
Abandoned == {r \in Regions : r = cur /\ changed[r] # {}}

\* An exception leaves the phases, and what they had at hand goes.
Unwind ==
    /\ pc' = "abort" /\ cur' = 0 /\ recovered' = FALSE /\ extracted' = 0
    /\ todo' = [p \in Phases |-> {}] /\ owed' = {} /\ absent' = {}
    /\ exposed' = exposed \cup Abandoned
    /\ UNCHANGED changed

\* future.result() raises what the extraction raised.
AwaitFails ==
    /\ pc = "loop" /\ phase = "process" /\ todo["process"] # {}
    /\ future \in errors
    /\ Unwind
    /\ UNCHANGED <<disk, hub, phase, future, pool, results, errors, upload>>

ProcessDone ==
    /\ pc = "loop" /\ phase = "process" /\ todo["process"] = {}
    /\ pc' = "close"
    /\ UNCHANGED <<disk, hub, mainVars, poolVars, upload, history>>

------------------------------------------------------------------------------
(* One region *)

\* process_extracted_pbf installs the tables of the PBF that was extracted; a
\* recorded augmentation no longer matches them.
Persist ==
    /\ pc = "persist"
    /\ local' = [local EXCEPT ![extracted].core = IF @ = "none" THEN "partial" ELSE @,
                              ![extracted].current = FALSE, ![extracted].legacy = TRUE]
    /\ Supersede(extracted, Parts)
    /\ pc' = "manifest"
    /\ UNCHANGED <<pending, mainVars, poolVars>>

\* Its manifest entry; some lookups may have failed.
PersistManifest(incomplete) ==
    /\ pc = "manifest"
    /\ local' = [local EXCEPT ![extracted].core = "complete",
                              ![extracted].damaged = incomplete]
    /\ extracted' = 0
    /\ pc' = "augment"
    /\ UNCHANGED <<pending, hub, mainVars, future, pool, results, errors, upload, history>>

BacklogAugment ==
    /\ pc = "loop" /\ phase = "augment" /\ todo["augment"] # {}
    /\ cur' = Min(todo["augment"]) /\ recovered' = FALSE
    /\ pc' = "augment"
    /\ UNCHANGED <<disk, hub, phase, todo, owed, absent, poolVars, upload, history>>

\* augment_region: sidecars and manifest entry, which makes the region current.
Augment ==
    /\ pc = "augment"
    /\ local' = [local EXCEPT ![cur].current = TRUE]
    /\ Supersede(cur, {"rest"})
    /\ pc' = "migrate"
    /\ UNCHANGED <<pending, mainVars, poolVars>>

\* Recovery: audit_wikidata_integrity of the next candidate.
Audit ==
    /\ pc = "loop" /\ phase = "recovery" /\ todo["recovery"] # {}
    /\ cur' = Min(todo["recovery"]) /\ recovered' = FALSE
    /\ pc' = IF local[cur'].damaged THEN "repair" ELSE "migrate"
    /\ UNCHANGED <<disk, hub, phase, todo, owed, absent, poolVars, upload, history>>

\* _audit_augmentation, after the region was augmented.
AuditAugmented ==
    /\ pc = "audit"
    /\ pc' = IF local[cur].damaged THEN "repair" ELSE "complete"
    /\ UNCHANGED <<disk, hub, mainVars, poolVars, upload, history>>

\* repair_wikidata_region commits repaired tables, or finds nothing to change and
\* only stores the receipt.
Repair(changes) ==
    /\ pc = "repair"
    /\ local' = [local EXCEPT ![cur].damaged = FALSE]
    /\ recovered' = changes
    /\ IF changes THEN Supersede(cur, Parts) ELSE UNCHANGED <<hub, upload, history>>
    /\ pc' = IF phase = "recovery" THEN "migrate" ELSE "complete"
    /\ UNCHANGED <<pending, phase, cur, todo, owed, absent, poolVars>>

\* A legacy link table is migrated; the transaction also records the region as
\* pending.  A recovery candidate that is neither repaired, migrated nor owed is
\* left (recover_region returns None); one that is migrated counts as recovered.
MigrateLinks ==
    /\ pc = "migrate"
    /\ IF local[cur].legacy
       THEN /\ local' = [local EXCEPT ![cur].legacy = FALSE]
            /\ pending' = pending \cup {cur}
            /\ Supersede(cur, {"rest"})
       ELSE UNCHANGED <<local, pending, hub, upload, history>>
    /\ IF phase # "recovery"
       THEN pc' = "audit" /\ UNCHANGED <<cur, todo, recovered>>
       ELSE IF recovered \/ local[cur].legacy \/ cur \in owed
       THEN pc' = "complete" /\ recovered' = (recovered \/ local[cur].legacy) /\ UNCHANGED <<cur, todo>>
       ELSE /\ pc' = "loop" /\ cur' = 0
            /\ todo' = [todo EXCEPT !["recovery"] = @ \ {cur}]
            /\ UNCHANGED recovered
    /\ UNCHANGED <<phase, owed, absent, poolVars>>

\* on_complete: _prepare_publication records the publication intent.
Complete ==
    /\ pc = "complete"
    /\ pending' = pending \cup {cur}
    /\ pc' = "submit"
    /\ UNCHANGED <<local, hub, mainVars, poolVars, upload, history>>

\* Mutant: only a processed region, or one that the Hub lacks, is published whole.
SubmittedForgettingRecovery ==
    [part \in Parts |->
        IF part = "rest" \/ phase = "process" \/ cur \in absent THEN "current" ELSE "none"]

\* _ensure_publication_core: the core goes along when this run processed or
\* recovered the region, or when the plan found it missing on the Hub.
Submitted ==
    [part \in Parts |->
        IF part = "rest" \/ phase = "process" \/ recovered \/ cur \in absent THEN "current"
        ELSE "none"]

\* _maybe_submit: the upload is durable when submit returns.
Submit ==
    /\ pc = "submit"
    /\ jobs' = [jobs EXCEPT ![cur] = Append(@, Submitted)]
    /\ exposed' = IF Submitted = Whole THEN exposed \ {cur} ELSE exposed
    /\ todo' = [todo EXCEPT ![phase] = @ \ {cur}]
    /\ pc' = "loop" /\ cur' = 0 /\ recovered' = FALSE
    /\ UNCHANGED <<disk, hub, phase, owed, absent, poolVars, tried, changed>>

\* An audit, a repair, a migration or a write raises.
Raise ==
    /\ pc \in {"persist", "manifest", "augment", "audit", "repair", "migrate", "complete",
               "submit"} \/ (pc = "loop" /\ phase = "recovery" /\ todo["recovery"] # {})
    /\ Unwind
    /\ UNCHANGED <<disk, hub, phase, future, pool, results, errors, upload>>

------------------------------------------------------------------------------
(* The end of a run *)

ProcessEnds ==
    /\ pc' = "down" /\ phase' = "recovery" /\ cur' = 0
    /\ todo' = [p \in Phases |-> {}] /\ owed' = {} /\ absent' = {} /\ recovered' = FALSE
    /\ future' = 0 /\ extracted' = 0 /\ pool' = {} /\ results' = {} /\ errors' = {}
    /\ tried' = [r \in Regions |-> 0] /\ changed' = [r \in Regions |-> {}]
    /\ exposed' = exposed \cup Abandoned
    /\ UNCHANGED <<disk, jobs, hub>>

\* executor.shutdown waits for the extraction, close_and_wait for the worker.
Close ==
    /\ pc \in {"close", "abort"}
    /\ pool = {}
    /\ \A r \in Regions : tried[r] = Len(jobs[r])
    /\ IF pc = "close" /\ \A r \in Regions : tried[r] = 0
       THEN /\ pc' = "success"
            /\ UNCHANGED <<disk, jobs, hub, mainVars, poolVars, tried, history>>
       ELSE ProcessEnds

Exit  == pc = "success" /\ ProcessEnds
Crash == pc # "down" /\ ProcessEnds

------------------------------------------------------------------------------
(* The other threads *)

\* Mutant: an extraction that fails never resolves its future.
ExtractSwallowing(r, ok) ==
    /\ r \in pool
    /\ pool' = pool \ {r}
    /\ results' = IF ok THEN results \cup {r} ELSE results
    /\ UNCHANGED <<disk, hub, pc, mainVars, future, extracted, errors, upload, history>>

Extract(r, ok) ==
    /\ r \in pool
    /\ pool' = pool \ {r}
    /\ results' = IF ok THEN results \cup {r} ELSE results
    /\ errors' = IF ok THEN errors ELSE errors \cup {r}
    /\ UNCHANGED <<disk, hub, pc, mainVars, future, extracted, upload, history>>

\* The job the worker is at: it goes through a region's jobs in their order.
Waiting(r) == pc # "down" /\ tried[r] < Len(jobs[r])
NextJob(r) == tried[r] + 1

\* What the Hub holds once the job's commit is made.
Committed(r) ==
    LET job == jobs[r][NextJob(r)] IN
    [hub EXCEPT ![r] = [part \in Parts |-> IF job[part] = "none" THEN @[part] ELSE job[part]]]

\* The commit succeeds, and post_upload_publication_cleanup retires the pending
\* stem, whether the job held the core or not.
Deliver(r) ==
    /\ Waiting(r)
    /\ hub' = Committed(r)
    /\ jobs' = [jobs EXCEPT ![r] = RemoveAt(@, NextJob(r))]
    /\ pending' = pending \ {r}
    /\ exposed' = IF tried[r] > 0 THEN exposed \cup {r} ELSE exposed
    /\ UNCHANGED <<local, pc, mainVars, poolVars, tried, changed>>

\* Mutant: a job that used up its attempts is dropped.
DeliverFailsDropping(r, landed) ==
    /\ Waiting(r)
    /\ hub' = IF landed THEN Committed(r) ELSE hub
    /\ jobs' = [jobs EXCEPT ![r] = RemoveAt(@, NextJob(r))]
    /\ UNCHANGED <<disk, pc, mainVars, poolVars, tried, history>>

\* A job that used up its attempts stays on disk for the next run; its commit may
\* have been made, with the answer lost or the cleanup failing.
DeliverFails(r, landed) ==
    /\ Waiting(r)
    /\ hub' = IF landed THEN Committed(r) ELSE hub
    /\ tried' = [tried EXCEPT ![r] = @ + 1]
    /\ UNCHANGED <<disk, jobs, pc, mainVars, poolVars, history>>

Main ==
    \/ StartPrefetch \/ AugmentDone \/ AwaitExtraction \/ AwaitFails \/ ProcessDone
    \/ Persist \/ (\E b \in BOOLEAN : PersistManifest(b)) \/ BacklogAugment \/ Augment
    \/ Audit \/ AuditAugmented \/ (\E b \in BOOLEAN : Repair(b)) \/ MigrateLinks
    \/ Complete \/ Submit \/ Close \/ Exit

Extraction == \E r \in Regions, ok \in BOOLEAN : Extract(r, ok)
Worker     == \E r \in Regions : Deliver(r) \/ \E landed \in BOOLEAN : DeliverFails(r, landed)

Next ==
    \/ \E input \in (SUBSET Regions) \ {{}}, force \in BOOLEAN : Start(input, force)
    \/ Main \/ Raise \/ Crash \/ Extraction \/ Worker

Spec == Init /\ [][Next]_vars

\* Each thread of the process goes on while it can.
FairSpec == Spec /\ WF_vars(Main) /\ WF_vars(Extraction) /\ WF_vars(Worker)

------------------------------------------------------------------------------
(* Properties *)

\* Every variable keeps its type, and the worker never counts more jobs than there
\* are on disk.
TypeOK ==
    /\ local \in [Regions -> Local]
    /\ {pending, owed, absent, exposed} \subseteq SUBSET Regions
    /\ changed \in [Regions -> SUBSET Parts]
    /\ \A r \in Regions : jobs[r] \in Seq(Content) /\ Len(jobs[r]) <= MaxLeft + 1
    /\ \A r \in Regions : tried[r] \in 0..Len(jobs[r])
    /\ hub \in [Regions -> Content]
    /\ pc \in {"down", "loop", "persist", "manifest", "augment", "audit", "repair", "migrate",
               "complete", "submit", "close", "abort", "success"}
    /\ phase \in Phases
    /\ {cur, future, extracted} \subseteq Regions \cup {0}
    /\ todo \in [Phases -> SUBSET Regions]
    /\ {pool, results, errors} \subseteq SUBSET Regions
    /\ recovered \in BOOLEAN

\* A run that reports success has brought to the Hub the final content of every
\* part of every region it changed, in whatever order repairs, migrations, uploads
\* of earlier runs and failures came, and although most uploads leave the core out
\* (SyncApplication.run: rc = 0 and no failures).
CleanRunPublishes ==
    pc = "success" => \A r \in Regions : \A part \in changed[r] : hub[r][part] = "current"

\* A run ends: no wait of the main thread for the extraction thread or for the
\* worker is forever, whatever raises.
RunEnds == pc # "down" ~> pc = "down"

\* The Hub is behind a finalized region, and no later run would notice.
Unnoticed(r) ==
    /\ local[r].core = "complete" /\ local[r].current
    /\ ~local[r].damaged /\ ~local[r].legacy
    /\ (\E part \in Parts : hub[r][part] = "old") /\ r \notin pending /\ jobs[r] = <<>>
    /\ r # cur

\* Reconciliation compares presence only, so a region rewritten and not uploaded is
\* lost sight of (docs/architecture.md: "repaired only when its remote objects are
\* missing").  That takes a run that stopped with this very region at hand, after
\* it was changed and before it was submitted, or an upload that the next run
\* repeats after a newer one; no late upload, no upload that leaves the core out
\* and no other order of runs has that effect.  A region stays exposed until it is
\* submitted whole: what retires its intent meanwhile may be an upload without its
\* core.
OnlyExposedUnnoticed ==
    \A r \in Regions : Unnoticed(r) => r \in exposed

\* An interrupted run can be started again over the same input
\* (docs/architecture.md: "The command-line workflows are safe to stop and
\* restart").
RestartAccepted == pc = "down" => \A r \in Regions : local[r].core # "partial"
==============================================================================
