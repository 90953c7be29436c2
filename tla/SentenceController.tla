-------------------------- MODULE SentenceController --------------------------
(***************************************************************************)
(* The resumable controller of Grid5000 sentence-splitting jobs            *)
(* (grid5000/sentence_controller*.py): a durable ledger, one OAR job per   *)
(* attempt of a batch in a remote directory of its own, the import of its  *)
(* result, the publication of the batch and the cleanup.  The controller   *)
(* may crash, be interrupted with Ctrl-C, lose its connection at any       *)
(* command, and be started again from another checkout.                    *)
(*                                                                         *)
(* Data abstraction: the sentence tables of a batch are the set of source  *)
(* commits whose code split its rows ({}: no tables; every batch has       *)
(* rows), and so are its checkpoints, the rows a job has split so far.  A  *)
(* checkpoint names its source, model and batch size, not the commit that  *)
(* wrote it.  A sentence manifest is the set of batches it lists.          *)
(***************************************************************************)
EXTENDS Naturals, Sequences, FiniteSets

CONSTANTS LastBatch,    \* batches are 1..LastBatch, in the order of the plan
          MaxAttempts,  \* bound: attempts of one batch
          MaxRetried,   \* bound: batches with more than one attempt
          MaxCommit     \* bound: checkouts the operator may use

ASSUME ConstantsAssumption ==
    /\ LastBatch \in Nat \ {0} /\ MaxAttempts \in Nat \ {0} /\ MaxCommit \in Nat \ {0}
    /\ MaxRetried \in Nat

Batches  == 1..LastBatch
Attempts == 1..MaxAttempts
Commits  == 1..MaxCommit

\* error: the last attempt ended without a valid receipt, or otherwise.
Batch == [state : {"planned", "submitted", "running", "failed", "ready_to_publish",
                   "published", "cancelled"},
          attempt : 0..MaxAttempts, job : Nat, error : {"none", "receipt", "other"}]

\* An OAR job; its id is its position in the sequence of all of them.
Job == [batch : Batches, attempt : Attempts, state : {"active", "terminated", "error"}]

\* A remote job directory: what was staged into it, and what the job left.
Directory == [present : BOOLEAN, manifest : SUBSET Batches, commit : 0..MaxCommit,
              rows : SUBSET Commits, receipt : {"none", "failed", "succeeded"}]
NoDirectory ==
    [present |-> FALSE, manifest |-> {}, commit |-> 0, rows |-> {}, receipt |-> "none"]

VARIABLES
    ledger,     \* disk: the batches
    commit,     \* disk: the ledger's source commit, 0 before there is a ledger
    cleanup,    \* disk: the ledger's cleanup_state is "complete"
    manifest,   \* disk: the local sentence manifest
    tables,     \* disk: per batch its sentence tables
    readme,     \* disk: the protected README is the one of the baseline
    checkpoints,\* disk: per batch the checkpoints imported so far
    salvaged,   \* history: per batch the commits in its checkpoints when an attempt failed
    remote,     \* Grid5000: job directories
    jobs,       \* Grid5000: the OAR jobs submitted so far
    hub,        \* the Hub: manifest and tables
    checkout,   \* controller: its source commit
    pc, cur,    \* controller: the step and the batch at hand
    received    \* controller: the result it has downloaded

cache == <<checkpoints, salvaged>>
disk == <<ledger, commit, cleanup, manifest, tables, readme, cache>>
grid == <<remote, jobs>>
vars == <<disk, grid, hub, checkout, pc, cur, received>>

Init ==
    /\ ledger = [b \in Batches |->
           [state |-> "planned", attempt |-> 0, job |-> 0, error |-> "none"]]
    /\ commit = 0 /\ cleanup = FALSE
    /\ manifest = {} /\ tables = [b \in Batches |-> {}] /\ readme = TRUE
    /\ checkpoints = tables /\ salvaged = tables
    /\ remote = [d \in Batches \X Attempts |-> NoDirectory]
    /\ jobs = <<>>
    /\ hub = [manifest |-> {}, tables |-> tables]
    /\ checkout = 0 /\ pc = "down" /\ cur = 1 /\ received = NoDirectory

\* The record of the batch at hand, and its directory.
Now       == ledger[cur]
JobRoot   == <<cur, Now.attempt>>
Record(r) == ledger' = [ledger EXCEPT ![cur] = r]
\* The process ends and its memory goes.
Stop      == pc' = "down" /\ cur' = 1 /\ checkout' = 0 /\ received' = NoDirectory
Active(b) == ledger[b].state \in {"submitted", "running"}

------------------------------------------------------------------------------
(* initialize *)

\* Mutant: any run without a published batch may change its source.
MigrationSafeUnpublished == \A b \in Batches : ledger[b].state # "published"

\* is_source_commit_migration_safe
MigrationSafe ==
    \A b \in Batches :
        \/ ledger[b].state = "planned" /\ ledger[b].job = 0
        \/ ledger[b].state = "failed" /\ (ledger[b].job = 0 \/ ledger[b].error = "receipt")

\* Bounds: a run that could submit a batch once more than MaxAttempts, or retry more
\* than MaxRetried batches, does not start.
AttemptsLeft == \A b \in Batches : ledger[b].state = "failed" => ledger[b].attempt < MaxAttempts
RetriesLeft ==
    Cardinality({b \in Batches : ledger[b].attempt > 1 \/ ledger[b].state = "failed"}) <= MaxRetried

\* A new ledger, or the one on disk if it is of this checkout or may change to it.
Start(c) ==
    /\ pc = "down" /\ AttemptsLeft /\ RetriesLeft
    /\ commit \in {0, c} \/ MigrationSafe
    /\ commit' = c /\ checkout' = c
    /\ pc' = "loop" /\ cur' = 1
    /\ UNCHANGED <<ledger, cleanup, manifest, tables, readme, cache, grid, hub, received>>

------------------------------------------------------------------------------
(* _process_batch *)

NextBatch ==
    /\ pc = "loop" /\ cur <= LastBatch
    /\ Now.state = "published"
    /\ cur' = cur + 1
    /\ UNCHANGED <<disk, grid, hub, checkout, pc, received>>

Resume ==
    /\ pc = "loop" /\ cur <= LastBatch
    /\ \/ Now.state = "ready_to_publish" /\ pc' = "publish"
       \/ Active(cur) /\ Now.job # 0 /\ pc' = "poll"
    /\ UNCHANGED <<disk, grid, hub, checkout, cur, received>>

\* "refusing duplicate submission", or an unsupported state.
Refuse ==
    /\ pc = "loop" /\ cur <= LastBatch
    /\ Now.state = "cancelled" \/ (Active(cur) /\ Now.job = 0)
    /\ Stop
    /\ UNCHANGED <<disk, grid, hub>>

------------------------------------------------------------------------------
(* _submit_batch *)

BeginSubmit ==
    /\ pc = "loop" /\ cur <= LastBatch
    /\ Now.state \in {"planned", "failed"}
    /\ Record([state |-> "submitted", attempt |-> Now.attempt + 1, job |-> 0, error |-> "none"])
    /\ pc' = "stage"
    /\ UNCHANGED <<commit, cleanup, manifest, tables, readme, cache, grid, hub, checkout, cur, received>>

\* _stage_batch and the upload: code, sources, local manifest, and the checkpoints
\* of earlier attempts (_stage_checkpoint_trees).
StageBatch ==
    /\ pc = "stage"
    /\ remote' = [remote EXCEPT ![JobRoot] =
           [present |-> TRUE, manifest |-> manifest, commit |-> checkout,
            rows |-> checkpoints[cur], receipt |-> "none"]]
    /\ pc' = "oarsub"
    /\ UNCHANGED <<disk, jobs, hub, checkout, cur, received>>

\* oarsub queues the job; its answer is still on the way.
Oarsub ==
    /\ pc = "oarsub"
    /\ jobs' = Append(jobs, [batch |-> cur, attempt |-> Now.attempt, state |-> "active"])
    /\ pc' = "record"
    /\ UNCHANGED <<disk, remote, hub, checkout, cur, received>>

RecordJob ==
    /\ pc = "record"
    /\ Record([Now EXCEPT !.state = "running", !.job = Len(jobs)])
    /\ pc' = "recheck"
    /\ UNCHANGED <<commit, cleanup, manifest, tables, readme, cache, grid, hub, checkout, cur, received>>

\* The policy check after the submission.
Recheck ==
    /\ pc = "recheck"
    /\ pc' = "poll"
    /\ UNCHANGED <<disk, grid, hub, checkout, cur, received>>

\* A command fails.  After a timeout the record stays as it is
\* (_record_submission_failure).
SubmissionFails(timeout) ==
    /\ pc \in {"stage", "oarsub", "record", "recheck"}
    /\ IF timeout THEN UNCHANGED ledger
                  ELSE Record([Now EXCEPT !.state = "failed", !.error = "other"])
    /\ Stop
    /\ UNCHANGED <<commit, cleanup, manifest, tables, readme, cache, grid, hub>>

------------------------------------------------------------------------------
(* _reconcile_batch, _retrieve_batch *)

JobState == jobs[Now.job].state

\* Mutant: only a terminated job is fetched.
PollTerminated ==
    /\ pc = "poll" /\ JobState = "terminated"
    /\ pc' = "retrieve"
    /\ UNCHANGED <<disk, grid, hub, checkout, cur, received>>

\* oarstat reports that the recorded job is over.  Any other answer, "unknown" for a
\* failed command included, is asked for again, without end.
Poll ==
    /\ pc = "poll" /\ JobState \in {"terminated", "error"}
    /\ pc' = "retrieve"
    /\ UNCHANGED <<disk, grid, hub, checkout, cur, received>>

\* _validate_receipt
ValidReceipt(d) == d.receipt # "none" /\ d.commit = checkout

Retrieve ==
    /\ pc = "retrieve"
    /\ received' = remote[JobRoot]
    /\ pc' = IF /\ JobState = "terminated"
                /\ ValidReceipt(received') /\ received'.receipt = "succeeded"
             THEN "install" ELSE "discard"
    /\ UNCHANGED <<disk, grid, hub, checkout, cur>>

\* Mutant: the directory goes before the failure is on record.
MarkFailedLater ==
    /\ pc = "discard"
    /\ remote' = [remote EXCEPT ![JobRoot] = NoDirectory]
    /\ pc' = "cleanup"
    /\ UNCHANGED <<disk, jobs, hub, checkout, cur, received>>

\* _import_checkpoints merges the checkpoints of the result into the local ones.
ImportCheckpoints == checkpoints' = [checkpoints EXCEPT ![cur] = @ \cup received.rows]

\* Its checkpoints are imported, then the batch is on record as failed.
MarkFailed ==
    /\ pc = "discard"
    /\ ImportCheckpoints
    /\ salvaged' = [salvaged EXCEPT ![cur] = @ \cup checkpoints'[cur]]
    /\ Record([Now EXCEPT !.state = "failed",
                          !.error = IF ValidReceipt(received) THEN "other" ELSE "receipt"])
    /\ pc' = "cleanup"
    /\ received' = NoDirectory
    /\ UNCHANGED <<commit, cleanup, manifest, tables, readme, grid, hub, checkout, cur>>

\* The manifest that only adds this batch, then the tables, then the checkpoints and
\* the ledger.
InstallManifest ==
    /\ pc = "install"
    /\ manifest \subseteq received.manifest \cup {cur}
    /\ manifest' = received.manifest \cup {cur}
    /\ pc' = "tables"
    /\ UNCHANGED <<ledger, commit, cleanup, tables, readme, cache, grid, hub, checkout, cur, received>>

InstallTables ==
    /\ pc = "tables"
    /\ tables' = [tables EXCEPT ![cur] = received.rows]
    /\ pc' = "ready"
    /\ UNCHANGED <<ledger, commit, cleanup, manifest, readme, cache, grid, hub, checkout, cur, received>>

Ready ==
    /\ pc = "ready"
    /\ ImportCheckpoints
    /\ Record([Now EXCEPT !.state = "ready_to_publish"])
    /\ pc' = "publish"
    /\ received' = NoDirectory
    /\ UNCHANGED <<commit, cleanup, manifest, tables, readme, salvaged, grid, hub, checkout, cur>>

\* Mutant: a result that cannot be imported is given up.
RetrieveRaisesDiscarding ==
    /\ pc \in {"retrieve", "install", "tables", "ready", "discard"}
    /\ Record([Now EXCEPT !.state = "failed", !.error = "other"])
    /\ pc' = "cleanup"
    /\ UNCHANGED <<commit, cleanup, manifest, tables, readme, cache, grid, hub, checkout, cur, received>>

\* The download, a validation or the import raises; the batch stays as it is, its
\* checkpoints may be imported already.
RetrieveRaises ==
    /\ pc \in {"retrieve", "install", "tables", "ready", "discard"}
    /\ UNCHANGED checkpoints \/ (pc \in {"ready", "discard"} /\ ImportCheckpoints)
    /\ Stop
    /\ UNCHANGED <<ledger, commit, cleanup, manifest, tables, readme, salvaged, grid, hub>>

------------------------------------------------------------------------------
(* _publish_batch *)

\* _assert_baseline
BaselineChanged ==
    /\ pc = "publish" /\ ~readme
    /\ Record([Now EXCEPT !.error = "other"])
    /\ Stop
    /\ UNCHANGED <<commit, cleanup, manifest, tables, readme, cache, grid, hub>>

\* Mutant: the manifest goes in a commit of its own.
CommitManifestFirst == hub' = [hub EXCEPT !.manifest = manifest]

\* One commit: the tables of the batch and the manifest.
CommitBatch == hub' = [manifest |-> manifest, tables |-> [hub.tables EXCEPT ![cur] = tables[cur]]]

Publish ==
    /\ pc = "publish" /\ readme
    /\ CommitBatch
    /\ pc' = "verify"
    /\ UNCHANGED <<disk, grid, checkout, cur, received>>

\* The upload or its verification fails: the batch stays ready to publish.
PublishFails(committed) ==
    /\ \/ pc = "publish" /\ readme /\ (IF committed THEN CommitBatch ELSE UNCHANGED hub)
       \/ pc = "verify" /\ UNCHANGED hub
    /\ Record([Now EXCEPT !.error = "other"])
    /\ Stop
    /\ UNCHANGED <<commit, cleanup, manifest, tables, readme, cache, grid>>

RecordPublished ==
    /\ pc = "verify"
    /\ Record([Now EXCEPT !.state = "published", !.error = "none"])
    /\ pc' = "cleanup"
    /\ UNCHANGED <<commit, cleanup, manifest, tables, readme, cache, grid, hub, checkout, cur, received>>

------------------------------------------------------------------------------
(* Cleanup and the end of a run *)

\* _cleanup_remote_job; a failed batch ends the run.
CleanupRemoteJob ==
    /\ pc = "cleanup"
    /\ remote' = [remote EXCEPT ![JobRoot] = NoDirectory]
    /\ IF Now.state = "published" THEN pc' = "loop" /\ UNCHANGED <<checkout, cur, received>> ELSE Stop
    /\ UNCHANGED <<disk, jobs, hub>>

CleanupFails ==
    /\ pc \in {"cleanup", "finalize"}
    /\ Stop
    /\ UNCHANGED <<disk, grid, hub>>

\* All batches are published: a last policy check, then the run's namespace goes.
BeginFinalize ==
    /\ pc = "loop" /\ cur > LastBatch
    /\ IF cleanup THEN Stop ELSE pc' = "finalize" /\ UNCHANGED <<checkout, cur, received>>
    /\ UNCHANGED <<disk, grid, hub>>

Finalize ==
    /\ pc = "finalize"
    /\ remote' = [d \in Batches \X Attempts |-> NoDirectory]
    /\ pc' = "finalized"
    /\ UNCHANGED <<disk, jobs, hub, checkout, cur, received>>

RecordCleanup ==
    /\ pc = "finalized"
    /\ cleanup' = TRUE
    /\ Stop
    /\ UNCHANGED <<ledger, commit, manifest, tables, readme, cache, grid, hub>>

\* Ctrl-C: a known job is deleted (if that works), an active batch is cancelled.
Interrupt(deleted) ==
    /\ pc # "down"
    /\ IF cur <= LastBatch /\ Active(cur)
       THEN /\ Record([Now EXCEPT !.state = "cancelled", !.error = "other"])
            /\ jobs' = IF deleted /\ Now.job # 0 /\ JobState = "active"
                       THEN [jobs EXCEPT ![Now.job].state = "error"] ELSE jobs
       ELSE UNCHANGED <<ledger, jobs>>
    /\ Stop
    /\ UNCHANGED <<commit, cleanup, manifest, tables, readme, cache, remote, hub>>

Crash ==
    /\ pc # "down"
    /\ Stop
    /\ UNCHANGED <<disk, grid, hub>>

------------------------------------------------------------------------------
(* The environment *)

\* run_sentence_job on the reserved node ends, with or without a receipt; it may have
\* split rows of its own, and takes the staged ones as they are.
JobEnds(j, state, receipt, split) ==
    LET root == <<jobs[j].batch, jobs[j].attempt>>
        rows == remote[root].rows \cup (IF split THEN {remote[root].commit} ELSE {})
    IN  /\ jobs[j].state = "active"
        /\ receipt = "succeeded" => rows # {}
        /\ jobs' = [jobs EXCEPT ![j].state = state]
        /\ remote' = IF remote[root].present
                     THEN [remote EXCEPT ![root] = [@ EXCEPT !.receipt = receipt, !.rows = rows]]
                     ELSE remote
        /\ UNCHANGED <<disk, hub, checkout, pc, cur, received>>

\* Another command renders the README, or the operator restores it.
RewriteReadme ==
    /\ pc = "down"
    /\ readme' = ~readme
    /\ UNCHANGED <<ledger, commit, cleanup, manifest, tables, cache, grid, hub, checkout, pc, cur, received>>

Controller ==
    \/ NextBatch \/ Resume \/ Refuse \/ BeginSubmit \/ StageBatch \/ Oarsub \/ RecordJob
    \/ Recheck \/ Retrieve \/ MarkFailed \/ InstallManifest \/ InstallTables \/ Ready
    \/ BaselineChanged \/ Publish \/ RecordPublished \/ CleanupRemoteJob \/ BeginFinalize
    \/ Finalize \/ RecordCleanup

Failure ==
    \/ RetrieveRaises \/ CleanupFails \/ Crash
    \/ \E b \in BOOLEAN : SubmissionFails(b) \/ PublishFails(b) \/ Interrupt(b)

Node == \E j \in DOMAIN jobs, s \in {"terminated", "error"}, r \in {"none", "failed", "succeeded"},
           w \in BOOLEAN : JobEnds(j, s, r, w)

Next == (\E c \in Commits : Start(c)) \/ Controller \/ Poll \/ Failure \/ Node \/ RewriteReadme

Spec == Init /\ [][Next]_vars

\* A started controller goes on, and a reservation ends with its walltime.  That
\* oarstat ever reports the end is not assumed.
FairSpec == Spec /\ WF_vars(Controller) /\ WF_vars(Node)

------------------------------------------------------------------------------
(* Properties *)

LedgerTypeOK ==
    /\ ledger \in [Batches -> Batch]
    /\ \A b \in Batches : ledger[b].state \in {"planned", "submitted"} => ledger[b].job = 0
GridTypeOK ==
    /\ remote \in [Batches \X Attempts -> Directory] /\ received \in Directory
    /\ jobs \in Seq(Job)
DataTypeOK ==
    /\ commit \in 0..MaxCommit /\ checkout \in 0..MaxCommit
    /\ cleanup \in BOOLEAN /\ readme \in BOOLEAN
    /\ manifest \subseteq Batches
    /\ tables \in [Batches -> SUBSET Commits]
    /\ hub \in [manifest : SUBSET Batches, tables : [Batches -> SUBSET Commits]]
CacheTypeOK ==
    /\ checkpoints \in [Batches -> SUBSET Commits] /\ salvaged \in [Batches -> SUBSET Commits]
ControlTypeOK ==
    /\ pc \in {"down", "loop", "stage", "oarsub", "record", "recheck", "poll", "retrieve",
               "install", "tables", "ready", "discard", "publish", "verify", "cleanup",
               "finalize", "finalized"}
    /\ cur \in 1..LastBatch + 1

\* Every variable keeps its type, and a batch just submitted has no job on record.
TypeOK == LedgerTypeOK /\ GridTypeOK /\ DataTypeOK /\ CacheTypeOK /\ ControlTypeOK

\* A batch that the ledger shows as running can be resumed: its job is the job of
\* its current attempt and the directory with the result is there, wherever the
\* controller was stopped (docs: no "false state `running`").
RunningIsReal ==
    \A b \in Batches : ledger[b].state = "running" =>
        /\ ledger[b].job \in DOMAIN jobs
        /\ jobs[ledger[b].job].batch = b /\ jobs[ledger[b].job].attempt = ledger[b].attempt
        /\ remote[<<b, ledger[b].attempt>>].present

\* What a run publishes comes from the source commit in its ledger, whatever
\* checkouts it was resumed from, but for rows in the checkpoints of an attempt that
\* failed: those the next job takes over, whichever commit it is from
\* (is_source_commit_migration_safe, _validate_receipt, _import_partial).
OnlySalvagedRowsForeign ==
    \A b \in Batches :
        ledger[b].state = "published" => hub.tables[b] \subseteq {commit} \cup salvaged[b]

\* The manifest on the Hub lists only batches whose tables are there too, after
\* any failed upload or interrupted import.
HubManifestBacked == \A b \in hub.manifest : hub.tables[b] # {}

KeepsResults ==
    \A j \in DOMAIN jobs :
        LET b == jobs[j].batch
            d == <<b, jobs[j].attempt>>
        IN  /\ jobs[j].state = "terminated" /\ ledger[b].job = j
            /\ remote[d].receipt = "succeeded" /\ remote[d].commit = commit
            /\ ~remote'[d].present
            => ledger[b].state = "published"

\* The result of a successful job is not removed before the batch is published
\* (docs: download "before it removes anything remotely").
ResultKept == [][KeepsResults]_vars

\* A run ends or waits for oarstat to report the end of its job, and it ends if
\* oarstat reports that, however the job ended (_reconcile_batch polls without end).
RunEnds ==
    /\ pc # "down" ~> pc \in {"down", "poll"}
    /\ WF_vars(Poll) => (pc # "down" ~> pc = "down")

\* Never two reservations at a time (docs/grid5000-sentence-splitting.md: "The
\* controller makes one `host=1/gpu=1` reservation at a time").
OneReservation ==
    \A j, k \in DOMAIN jobs : jobs[j].state = "active" /\ jobs[k].state = "active" => j = k
==============================================================================
