-------------------------- MODULE PublicationIntent --------------------------
(***************************************************************************)
(* What is still owed to the Hub: manifests/pending_migration_publications *)
(* .json (pipeline/pending_publications.py) and the two commands that keep *)
(* it, unified sync (cli/sync_application.py, cli/sync_publication.py) and *)
(* the processed directory (hf/core_publication.py).  The file holds the   *)
(* stems whose publication is pending and the marker: the stems for which  *)
(* the assets of the whole repository (card, statistics, maps) are owed.   *)
(* It is read, changed and replaced by the main thread and by the upload   *)
(* worker; the process may be killed between any two steps.                *)
(*                                                                         *)
(* Each command has a durable queue of its own; here a queue is the        *)
(* at-least-once outbox that UploadQueue implements (DurableOutbox).       *)
(***************************************************************************)
EXTENDS Naturals, FiniteSets

CONSTANTS Stems,       \* regions
          Migratable,  \* regions that may still have a legacy link table
          MaxJobs      \* bound: jobs ever submitted

ASSUME ConstantsAssumption ==
    /\ IsFiniteSet(Stems)
    /\ Migratable \subseteq Stems
    /\ MaxJobs \in Nat

Threads  == {"main", "worker"}
Envelope == [stems : SUBSET Stems, marker : SUBSET Stems]   \* marker {}: no marker
Job      == [id : 0..MaxJobs, stem : Stems, command : {"sync", "core"}]

VARIABLES
    file,      \* disk: the envelope
    lock,      \* _ENVELOPE_LOCK: the thread that holds it, or "free"
    loaded,    \* per thread: the stems (main: or the marker) it read before it locked
    env,       \* per thread: the envelope it read under the lock
    queued,    \* disk: jobs in the two commands' upload queues
    local,     \* disk: regions with finalized artifacts
    legacy,    \* disk: regions whose link table is of the legacy schema
    present,   \* Hub: regions that were ever committed
    stale,     \* Hub: regions committed since the repository's assets were
    command,   \* the running command
    input,     \* the regions it was given
    main,      \* main thread: where it is
    plan,      \* main thread: regions still to complete
    cur,       \* main thread: the region at hand (a set of at most one)
    staged,    \* main thread: the envelope staged by a link migration
    deferred,  \* main thread: regions this run recorded in the marker
    submitted, \* main thread: regions this run submitted
    failed,    \* some upload of this run failed
    jobs,      \* jobs this process has still to upload
    worker,    \* worker thread: where it is
    job,       \* worker thread: its job (a set of at most one)
    ids,       \* jobs ever submitted
    intended,  \* history: regions added as pending and not yet submitted
    overtaken  \* history: regions with a job in the other command's queue when
               \*          the marker was last cleared

fileVars == <<file, lock, loaded, env>>
disk     == <<queued, local, legacy>>
hub      == <<present, stale>>
runVars  == <<command, input, plan, cur, staged, deferred, submitted>>
work     == <<failed, jobs, worker, job>>
history  == <<ids, intended, overtaken>>
vars     == <<fileVars, disk, hub, main, runVars, work, history>>

Init ==
    /\ file = [stems |-> {}, marker |-> {}]
    /\ lock = "free"
    /\ loaded = [t \in Threads |-> {}]
    /\ env = [t \in Threads |-> file]
    /\ queued = {}
    /\ local \in SUBSET Stems
    /\ legacy \in SUBSET (local \cap Migratable)
    /\ present \in SUBSET local
    /\ stale = {}
    /\ command = "none" /\ input = {} /\ main = "down"
    /\ plan = {} /\ cur = {} /\ staged = file /\ deferred = {} /\ submitted = {}
    /\ failed = FALSE /\ jobs = {} /\ worker = "none" /\ job = {}
    /\ ids = 0 /\ intended = {} /\ overtaken = {}

------------------------------------------------------------------------------
(* The envelope *)

\* Mutant: the envelope is read and written without the lock.
AcquireUnlocked(t) ==
    /\ env' = [env EXCEPT ![t] = file]
    /\ UNCHANGED lock

\* Every writer of pending_publications.py takes the lock and reads the file.
Acquire(t) ==
    /\ lock = "free"
    /\ lock' = t
    /\ env' = [env EXCEPT ![t] = file]

\* It replaces the file by what it read, one field changed, and unlocks.
SaveStems(t, stems) ==
    /\ file' = [env[t] EXCEPT !.stems = stems]
    /\ lock' = "free"

SaveMarker(t, marker) ==
    /\ file' = [env[t] EXCEPT !.marker = marker]
    /\ lock' = "free"

------------------------------------------------------------------------------
(* The start of a command *)

\* What a plan of unified sync must publish: input regions that are pending,
\* that the Hub lacks, or whose link table has to be migrated.
Owed == file.stems \cup (local \ present) \cup legacy

\* prepare_sync_plan, or the list of PBFs of process-dir; then the queue resumes
\* the jobs the command left behind.
Start(c) ==
    /\ main = "down"
    /\ input' \in SUBSET Stems
    /\ plan' \in SUBSET input'
    /\ c = "sync" => input' \cap Owed \subseteq plan'
    /\ command' = c
    /\ main' = "run"
    /\ jobs' = {j \in queued : j.command = c}
    /\ worker' = "get"
    /\ UNCHANGED <<fileVars, disk, hub, cur, staged, deferred, submitted, failed, job,
                   history>>

------------------------------------------------------------------------------
(* One region: on_complete, then build_upload_files, then submit *)

\* _stage_pending_publication: the migration of a link table reads the envelope
\* and stages its successor.
StageLinks(r) ==
    /\ main = "run" /\ command = "sync"
    /\ r \in plan \cap legacy
    /\ staged' = [stems |-> file.stems \cup {r}, marker |-> file.marker \cup {r}]
    /\ cur' = {r}
    /\ main' = "replaceLinks"
    /\ UNCHANGED <<fileVars, disk, hub, command, input, plan, deferred, submitted, work, history>>

\* The transaction moves the staged envelope into place, and takes no lock.
ReplaceLinks ==
    /\ main = "replaceLinks"
    /\ file' = staged
    /\ legacy' = legacy \ cur
    /\ main' = "run"
    /\ cur' = {}
    /\ UNCHANGED <<lock, loaded, env, queued, local, hub, command, input, plan, staged, deferred,
                   submitted, work, history>>

\* The region is processed, augmented or repaired.  Sync then adds it as
\* pending: add_pending_publications loads the stems before it saves them.
Complete(r) ==
    /\ main = "run"
    /\ r \in plan \ legacy
    /\ plan' = plan \ {r}
    /\ cur' = {r}
    /\ local' = local \cup {r}
    /\ IF command = "sync"
       THEN /\ loaded' = [loaded EXCEPT !["main"] = file.stems]
            /\ main' = "addRead"
       ELSE /\ main' = "markLoad"
            /\ UNCHANGED loaded
    /\ UNCHANGED <<file, lock, env, queued, legacy, hub, command, input, staged, deferred, submitted,
                   work, history>>

AddRead ==
    /\ main = "addRead"
    /\ Acquire("main")
    /\ main' = "addWrite"
    /\ UNCHANGED <<file, loaded, disk, hub, runVars, work, history>>

AddWrite ==
    /\ main = "addWrite"
    /\ SaveStems("main", loaded["main"] \cup cur)
    /\ intended' = intended \cup cur
    /\ main' = "markLoad"
    /\ UNCHANGED <<loaded, env, disk, hub, runVars, work, ids, overtaken>>

\* _record_deferred_metadata: merge what the file records with this run's regions.
MarkLoad ==
    /\ main = "markLoad"
    /\ deferred' = deferred \cup cur
    /\ loaded' = [loaded EXCEPT !["main"] = file.marker \cup deferred']
    /\ main' = "markRead"
    /\ UNCHANGED <<file, lock, env, disk, hub, command, input, plan, cur, staged, submitted, work,
                   history>>

MarkRead ==
    /\ main = "markRead"
    /\ Acquire("main")
    /\ main' = "markWrite"
    /\ UNCHANGED <<file, loaded, disk, hub, runVars, work, history>>

MarkWrite ==
    /\ main = "markWrite"
    /\ SaveMarker("main", loaded["main"])
    /\ main' = "submit"
    /\ UNCHANGED <<loaded, env, disk, hub, runVars, work, history>>

\* The job is durable when submit returns.
Submit ==
    /\ main = "submit"
    /\ ids < MaxJobs
    /\ ids' = ids + 1
    /\ \E r \in cur :
          /\ queued' = queued \cup {[id |-> ids, stem |-> r, command |-> command]}
          /\ jobs' = jobs \cup {[id |-> ids, stem |-> r, command |-> command]}
    /\ submitted' = submitted \cup cur
    /\ intended' = intended \ cur
    /\ cur' = {}
    /\ main' = "run"
    /\ UNCHANGED <<fileVars, local, legacy, hub, command, input, plan, staged, deferred, failed,
                   worker, job, overtaken>>

------------------------------------------------------------------------------
(* The end of a command *)

ProcessEnds ==
    /\ main' = "down" /\ command' = "none"
    /\ lock' = "free"
    /\ loaded' = [t \in Threads |-> {}]
    /\ env' = [t \in Threads |-> [stems |-> {}, marker |-> {}]]
    /\ input' = {} /\ plan' = {} /\ cur' = {} /\ deferred' = {} /\ submitted' = {}
    /\ staged' = [stems |-> {}, marker |-> {}]
    /\ failed' = FALSE /\ jobs' = {} /\ worker' = "none" /\ job' = {}
    /\ UNCHANGED <<disk, history>>

Crash ==
    /\ main # "down"
    /\ ProcessEnds
    /\ UNCHANGED <<file, hub>>

\* An exception out of the plan: the lock, if held, is released; the queue drains.
Abort ==
    /\ main \in {"run", "replaceLinks", "addRead", "addWrite", "markLoad", "markRead",
                 "markWrite", "submit"}
    /\ main' = "abort"
    /\ lock' = IF lock = "main" THEN "free" ELSE lock
    /\ UNCHANGED <<file, loaded, env, disk, hub, runVars, work, history>>

PlanDone ==
    /\ main = "run"
    /\ plan = {}
    /\ main' = "close"
    /\ UNCHANGED <<fileVars, disk, hub, runVars, work, history>>

\* Sync refreshes whenever something is recorded, was submitted, or is missing
\* on the Hub (repair); process-dir only if this run published every recorded
\* region.
RefreshRequired(repair) ==
    IF command = "sync"
    THEN repair \/ file.marker # {} \/ submitted # {}
    ELSE submitted # {} /\ file.marker \subseteq submitted

\* Mutant: failed uploads do not stop the refresh.
DrainedWithFailures(repair) ==
    /\ main \in {"close", "abort"}
    /\ jobs = {} /\ worker = "get"
    /\ IF main = "close" /\ RefreshRequired(repair)
       THEN /\ main' = "refresh"
            /\ UNCHANGED <<fileVars, disk, runVars, work, history>>
       ELSE ProcessEnds /\ UNCHANGED file
    /\ UNCHANGED hub

\* close_and_wait returns when the worker has gone through every job.
Drained(repair) ==
    /\ main \in {"close", "abort"}
    /\ jobs = {} /\ worker = "get"
    /\ IF main = "close" /\ ~failed /\ RefreshRequired(repair)
       THEN /\ main' = "refresh"
            /\ UNCHANGED <<fileVars, disk, runVars, work, history>>
       ELSE ProcessEnds /\ UNCHANGED file
    /\ UNCHANGED hub

\* The regions that wait in the queue of the other command.
OtherQueued == {j.stem : j \in {k \in queued : k.command # command}}

\* The repository's assets are built from the local files and committed.
Refresh ==
    /\ main = "refresh"
    /\ stale' = {}
    /\ IF file.marker = {}
       THEN main' = "done" /\ overtaken' = OtherQueued
       ELSE main' = "clearRead" /\ UNCHANGED overtaken
    /\ UNCHANGED <<fileVars, disk, present, runVars, work, ids, intended>>

RefreshFails ==
    /\ main = "refresh"
    /\ ProcessEnds
    /\ UNCHANGED <<file, hub>>

ClearRead ==
    /\ main = "clearRead"
    /\ Acquire("main")
    /\ main' = "clearWrite"
    /\ UNCHANGED <<file, loaded, disk, hub, runVars, work, history>>

ClearWrite ==
    /\ main = "clearWrite"
    /\ SaveMarker("main", {})
    /\ overtaken' = OtherQueued
    /\ main' = "done"
    /\ UNCHANGED <<loaded, env, disk, hub, runVars, work, ids, intended>>

Exit ==
    /\ main = "done"
    /\ ProcessEnds
    /\ UNCHANGED <<file, hub>>

------------------------------------------------------------------------------
(* The upload worker: execute_upload_job, then the queue deletes the job *)

Get(j) ==
    /\ worker = "get"
    /\ j \in jobs
    /\ jobs' = jobs \ {j}
    /\ job' = {j}
    /\ worker' = "upload"
    /\ UNCHANGED <<fileVars, disk, hub, main, runVars, failed, history>>

JobStems == {j.stem : j \in job}

Commit == /\ present' = present \cup JobStems
          /\ stale' = stale \cup JobStems

\* Sync then retires the pending stem, if the job also deleted the region's
\* legacy articles: remove_pending_publications loads the stems.
Upload(paired) ==
    /\ worker = "upload"
    /\ Commit
    /\ paired => command = "sync"
    /\ worker' = IF paired THEN "removeRead" ELSE "delete"
    /\ loaded' = IF paired THEN [loaded EXCEPT !["worker"] = file.stems] ELSE loaded
    /\ UNCHANGED <<file, lock, env, disk, main, runVars, failed, jobs, job, history>>

\* Attempts are exhausted, before or after a commit; the job stays on disk.
UploadFails(committed) ==
    /\ worker = "upload"
    /\ IF committed THEN Commit ELSE UNCHANGED hub
    /\ failed' = TRUE
    /\ job' = {}
    /\ worker' = "get"
    /\ UNCHANGED <<fileVars, disk, main, runVars, jobs, history>>

RemoveRead ==
    /\ worker = "removeRead"
    /\ Acquire("worker")
    /\ worker' = "removeWrite"
    /\ UNCHANGED <<file, loaded, disk, hub, main, runVars, failed, jobs, job, history>>

RemoveWrite ==
    /\ worker = "removeWrite"
    /\ SaveStems("worker", loaded["worker"] \ JobStems)
    /\ worker' = "delete"
    /\ UNCHANGED <<loaded, env, disk, hub, main, runVars, failed, jobs, job, history>>

Delete ==
    /\ worker = "delete"
    /\ queued' = queued \ job
    /\ job' = {}
    /\ worker' = "get"
    /\ UNCHANGED <<fileVars, local, legacy, hub, main, runVars, failed, jobs, history>>

------------------------------------------------------------------------------
Next ==
    \/ \E c \in {"sync", "core"} : Start(c)
    \/ \E r \in Stems : StageLinks(r) \/ Complete(r)
    \/ ReplaceLinks \/ AddRead \/ AddWrite \/ MarkLoad \/ MarkRead \/ MarkWrite \/ Submit
    \/ Abort \/ PlanDone \/ Refresh \/ RefreshFails \/ ClearRead \/ ClearWrite
    \/ Exit \/ Crash
    \/ \E j \in jobs : Get(j)
    \/ \E b \in BOOLEAN : Upload(b) \/ UploadFails(b) \/ Drained(b)
    \/ RemoveRead \/ RemoveWrite \/ Delete

Spec == Init /\ [][Next]_vars

------------------------------------------------------------------------------
(* Properties *)

\* Every variable keeps its type, and the lock is held only by a thread inside
\* its read-modify-write.
TypeOK ==
    /\ file \in Envelope /\ staged \in Envelope
    /\ env \in [Threads -> Envelope]
    /\ loaded \in [Threads -> SUBSET Stems]
    /\ lock \in Threads \cup {"free"}
    /\ lock = "main" <=> main \in {"addWrite", "markWrite", "clearWrite"}
    /\ lock = "worker" <=> worker = "removeWrite"
    /\ queued \subseteq Job /\ jobs \subseteq queued /\ job \subseteq queued
    /\ \A S \in {local, legacy, present, stale, input, plan, cur, deferred, submitted, intended,
                 overtaken} : S \subseteq Stems
    /\ ids \in 0..MaxJobs

\* Whatever crashes, fails or races, and however the two commands alternate on
\* one data root: a region that waits in an upload queue, or that was committed
\* since the repository's assets were, is named by the durable marker, so that
\* some later run refreshes the assets.  The one exception is a region whose job
\* waited in the queue of the other command when the marker was last cleared:
\* either command drains its own queue only and clears the marker of both
\* (_record_deferred_metadata before submit; clear after a clean drain).
OnlyOvertakenUnrecorded ==
    stale \cup {j.stem : j \in queued} \subseteq file.marker \cup overtaken

\* When the assets of the whole repository are built, every recorded region is on
\* the Hub: for process-dir all that the marker names, for unified sync those of
\* them it was given (docs/architecture.md: the refresh runs only when "the run
\* published each recorded region"; sync never compares the marker with its
\* input, so a recorded region outside the input may be described unpublished).
OnlyRegionsNotGivenUnpublished ==
    main = "refresh" =>
        file.marker \ present \subseteq IF command = "sync" THEN Stems \ input ELSE {}

\* A region added as pending stays pending until its job is durable
\* (pending_publications.py: no "fresh read" is "overwritten by another's stale
\* one").
AddedIntentKept == intended \subseteq file.stems
==============================================================================
