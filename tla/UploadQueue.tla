----------------------------- MODULE UploadQueue -----------------------------
(***************************************************************************)
(* The durable background publication queue (hf/upload_queue.py) and its   *)
(* state directory (hf/_upload_state.py), with the process that owns it:   *)
(* the main thread opens the queue, resumes what earlier processes left,   *)
(* submits regional jobs and closes; one worker thread verifies, uploads   *)
(* with retries and deletes.  A process may be killed between any two      *)
(* steps; what is on disk and on the Hub survives, the rest does not.      *)
(*                                                                         *)
(* Data abstraction: a job publishes one region.  "sha" stands for the     *)
(* content hash of what it publishes and is the version number of that     *)
(* content; a job that removes the region has sha Missing and no snapshot. *)
(***************************************************************************)
EXTENDS Naturals, Sequences, FiniteSets

CONSTANTS Regions,        \* regional extracts (stems)
          NoRegion,       \* the region of the shutdown pill
          MaxPending,     \* queue.Queue(max_pending)
          Attempts,       \* upload attempts per job
          MaxSequence,    \* bound: sequences ever allocated
          MaxVersion,     \* bound: versions of a region's local files
          MaxMalformed    \* bound: unreadable envelopes ever found (0 or 1)

ASSUME ConstantsAssumption ==
    /\ NoRegion \notin Regions
    /\ MaxPending \in Nat \ {0}
    /\ Attempts \in Nat \ {0}
    /\ MaxSequence \in Nat
    /\ MaxVersion \in Nat \ {0}
    /\ MaxMalformed \in {0, 1}

Missing   == 0                  \* no such file
Garbled   == MaxVersion + 1     \* partial or altered bytes: no recorded hash
Version   == 1..MaxVersion
Content   == 0..MaxVersion + 1
Sequence  == 1..MaxSequence

\* One envelope, and one job in memory: the two carry the same fields.
Job  == [sequence : Sequence, region : Regions, sha : 0..MaxVersion]
Pill == [sequence |-> 0, region |-> NoRegion, sha |-> Missing]

VARIABLES
    highwater,  \* disk: .highwater
    envelopes,  \* disk: the current-contract envelopes
    legacy,     \* disk: regions with an envelope of the legacy contract
    malformed,  \* disk: number of envelopes that cannot be read
    snapshot,   \* disk: content under snapshots/<sequence>
    canonical,  \* disk: content of each region's own files
    remote,     \* Hub: content of each region
    main,       \* main thread: where it is
    origin,     \* main thread: who submits ("upgrade", "containment", "region")
    current,    \* main thread: the job being persisted
    todo,       \* main thread: legacy envelopes still to upgrade
    found,      \* main thread: envelopes still to enqueue
    nextSequence, \* UploadStateStore._next_sequence
    jobs,       \* queue.Queue contents
    aborted,    \* retries were cancelled
    failures,   \* sequences this process reported as failed
    worker,     \* worker thread: where it is
    job,        \* worker thread: the job it holds
    attempt,    \* worker thread: 1..Attempts
    accepted,   \* history: every envelope ever written
    delivered,  \* history: every job ever committed to the Hub
    applied,    \* history: sequence last committed for each region
    reported    \* history: every sequence some process reported as failed

disk    == <<highwater, envelopes, legacy, malformed, snapshot, canonical>>
mainVars   == <<main, origin, current, todo, found, nextSequence>>
shared  == <<jobs, aborted, failures>>
workerVars == <<worker, job, attempt>>
history == <<accepted, delivered, applied, reported>>
vars    == <<disk, remote, mainVars, shared, workerVars, history>>

------------------------------------------------------------------------------
(* Helpers *)

SequencesOf(S) == {e.sequence : e \in S}

\* The largest sequence a state directory shows, and the next one to use.  The
\* file .highwater is only ever replaced whole, so it is never found malformed.
Largest(S) == CHOOSE n \in S : \A m \in S : m <= n
\* Mutant: the scan of the envelopes alone.
NextSequenceFromScan == Largest({0} \cup SequencesOf(envelopes)) + 1
NextSequenceFromStateDir ==
    Largest({highwater, 0} \cup SequencesOf(envelopes)) + 1

\* Mutant: the sort reversed.
LastFound == CHOOSE e \in found : \A f \in found : f.sequence <= e.sequence
FirstFound == CHOOSE e \in found : \A f \in found : e.sequence <= f.sequence

\* The main thread holds no job of its own any more.
HandedOver == origin' = "region" /\ current' = Pill

Report(s) == /\ failures' = failures \cup {s}
             /\ reported' = reported \cup {s}


------------------------------------------------------------------------------
(* Init: an installation with local files, perhaps envelopes of the legacy *)
(* contract, perhaps an unreadable one, and nothing published yet.         *)
Init ==
    /\ highwater = 0
    /\ envelopes = {}
    /\ legacy \in SUBSET Regions
    /\ malformed \in 0..MaxMalformed
    /\ snapshot = [s \in Sequence |-> Missing]
    /\ canonical = [r \in Regions |-> 1]
    /\ remote = [r \in Regions |-> Missing]
    /\ main = "down" /\ origin = "region" /\ current = Pill /\ todo = {} /\ found = {} /\ nextSequence = 1
    /\ jobs = <<>> /\ aborted = FALSE /\ failures = {}
    /\ worker = "none" /\ job = Pill /\ attempt = 1
    /\ accepted = {} /\ delivered = {} /\ reported = {}
    /\ applied = [r \in Regions |-> 0]

------------------------------------------------------------------------------
(* Opening the queue *)

\* BackgroundUploadQueue(): scan the state directory, start the worker.
\* Bound: a process opens only if every legacy envelope can still get a sequence.
Open ==
    /\ main = "down"
    /\ NextSequenceFromStateDir + Cardinality(legacy) <= MaxSequence + 1
    /\ main' = "resume"
    /\ nextSequence' = NextSequenceFromStateDir
    /\ worker' = "get"
    /\ UNCHANGED <<disk, remote, origin, current, todo, found, shared, job, attempt, history>>

\* resume_pending classifies every envelope before it changes anything; one
\* that cannot be read makes it raise, with the worker already running.
Classify ==
    /\ main = "resume"
    /\ IF malformed > 0
       THEN /\ main' = "raised"
            /\ UNCHANGED <<todo, found>>
       ELSE /\ main' = "upgrade"
            /\ todo' = legacy
            /\ found' = envelopes
    /\ UNCHANGED <<disk, remote, origin, current, nextSequence, shared, workerVars, history>>

\* Mutant: a job that does not validate is dropped without a report.
RestoreSilently ==
    /\ main = "upgrade"
    /\ todo = {}
    /\ \E invalid \in SUBSET found : found' = found \ invalid
    /\ main' = "enqueue"
    /\ UNCHANGED <<disk, remote, origin, current, todo, nextSequence, shared, workerVars, history>>

\* All legacy envelopes were tried: rebuild the jobs; one whose recorded paths
\* do not validate is reported and stays on disk.
Restore ==
    /\ main = "upgrade"
    /\ todo = {}
    /\ \E invalid \in SUBSET found :
        /\ found' = found \ invalid
        /\ failures' = failures \cup SequencesOf(invalid)
        /\ reported' = reported \cup SequencesOf(invalid)
    /\ main' = "enqueue"
    /\ UNCHANGED <<disk, remote, origin, current, todo, nextSequence, jobs, aborted,
                   workerVars, accepted, delivered, applied>>

\* Resumed jobs are put in sequence order; put blocks while the queue is full.
EnqueueResumed ==
    /\ main = "enqueue"
    /\ found # {}
    /\ Len(jobs) < MaxPending
    /\ jobs' = Append(jobs, FirstFound)
    /\ found' = found \ {FirstFound}
    /\ UNCHANGED <<disk, remote, main, origin, current, todo, nextSequence, aborted, failures,
                   workerVars, history>>

ResumeDone ==
    /\ main = "enqueue"
    /\ found = {}
    /\ main' = "containment"
    /\ UNCHANGED <<disk, remote, origin, current, todo, found, nextSequence, shared,
                   workerVars, history>>

------------------------------------------------------------------------------
(* Persisting one job: allocate a sequence, copy, write the envelope *)

\* Where a submission's exception goes.  An upgrade is reported and the next
\* one is tried; a containment submission raises out of the opening code; a
\* regional one ends in the run's cleanup, which cancels retries and closes.
Raise(from, s) ==
    \/ /\ from = "upgrade"
       /\ Report(s)
       /\ main' = "upgrade"
       /\ UNCHANGED aborted
    \/ /\ from = "containment"
       /\ main' = "raised"
       /\ UNCHANGED <<failures, reported, aborted>>
    \/ /\ from = "region"
       /\ main' = "pill"
       /\ aborted' = TRUE
       /\ UNCHANGED <<failures, reported>>

\* _allocate_sequence: the number is taken in memory, then written to .highwater
\* (which may fail).  Then the copy starts: its bytes are partial until it ends.
Allocate(from, r, removal) ==
    /\ nextSequence <= MaxSequence
    /\ nextSequence' = nextSequence + 1
    /\ \/ /\ highwater' = nextSequence
          /\ origin' = from
          /\ current' = [sequence |-> nextSequence, region |-> r, sha |-> Missing]
          /\ snapshot' = IF removal THEN snapshot
                         ELSE [snapshot EXCEPT ![nextSequence] = Garbled]
          /\ main' = IF removal THEN "write" ELSE "copy"
          /\ UNCHANGED <<failures, reported, aborted>>
       \/ /\ Raise(from, nextSequence)
          /\ UNCHANGED <<highwater, snapshot, origin, current>>
    /\ UNCHANGED <<envelopes, legacy, malformed, canonical, remote, found, jobs,
                   workerVars, accepted, delivered, applied>>

BeginUpgrade(r) ==
    /\ main = "upgrade"
    /\ r \in todo
    /\ todo' = todo \ {r}
    /\ Allocate("upgrade", r, FALSE)

\* enqueue_containment_retirement: deletes of a region contained in another.
BeginContainment(r) ==
    /\ main = "containment"
    /\ Allocate("containment", r, TRUE)
    /\ UNCHANGED todo

NoContainment ==
    /\ main = "containment"
    /\ main' = "running"
    /\ UNCHANGED <<disk, remote, origin, current, todo, found, nextSequence, shared,
                   workerVars, history>>

\* submit: the queue is open while the main thread runs.
BeginSubmit(r) ==
    /\ main = "running"
    /\ Allocate("region", r, FALSE)
    /\ UNCHANGED todo

\* _independent_copy, then the hash of the copy.
Copy ==
    /\ main = "copy"
    /\ snapshot' = [snapshot EXCEPT ![current.sequence] = canonical[current.region]]
    /\ current' = [current EXCEPT !.sha = canonical[current.region]]
    /\ main' = "write"
    /\ UNCHANGED <<highwater, envelopes, legacy, malformed, canonical, remote, origin, todo,
                   found, nextSequence, shared, workerVars, history>>

WriteEnvelope ==
    /\ main = "write"
    /\ envelopes' = envelopes \cup {current}
    /\ accepted' = accepted \cup {current}
    /\ main' = IF origin = "upgrade" THEN "unlinkLegacy" ELSE "put"
    /\ UNCHANGED <<highwater, legacy, malformed, snapshot, canonical, remote, origin, current,
                   todo, found, nextSequence, shared, workerVars, delivered, applied, reported>>

\* The new envelope is durable before the legacy one goes.
UnlinkLegacy ==
    /\ main = "unlinkLegacy"
    /\ legacy' = legacy \ {current.region}
    /\ found' = found \cup {current}
    /\ main' = "upgrade"
    /\ HandedOver
    /\ UNCHANGED <<highwater, envelopes, malformed, snapshot, canonical, remote,
                   todo, nextSequence, shared, workerVars, history>>

Put ==
    /\ main = "put"
    /\ Len(jobs) < MaxPending
    /\ jobs' = Append(jobs, current)
    /\ main' = "running"
    /\ HandedOver
    /\ UNCHANGED <<disk, remote, todo, found, nextSequence, aborted, failures,
                   workerVars, history>>

\* A copy, a write or an unlink fails.  A submission removes what it made; an
\* upgrade leaves it.
PersistFails ==
    /\ main \in {"copy", "write", "unlinkLegacy"}
    /\ Raise(origin, current.sequence)
    /\ snapshot' = IF origin = "upgrade" THEN snapshot
                   ELSE [snapshot EXCEPT ![current.sequence] = Missing]
    /\ HandedOver
    /\ UNCHANGED <<highwater, envelopes, legacy, malformed, canonical, remote,
                   todo, found, nextSequence, jobs, workerVars, accepted, delivered, applied>>

\* The operator's interrupt ends a blocking put: that of the opening code raises
\* out of it, that of a regional submission ends in the run's cleanup.
Interrupt ==
    /\ \/ /\ main = "enqueue" \/ (main = "put" /\ origin = "containment")
          /\ main' = "raised"
          /\ UNCHANGED aborted
       \/ /\ main = "put" /\ origin = "region"
          /\ main' = "pill"
          /\ aborted' = TRUE
    /\ UNCHANGED <<disk, remote, origin, current, todo, found, nextSequence, jobs, failures,
                   workerVars, history>>

------------------------------------------------------------------------------
(* The run, its end, and the end of the process *)

\* The run rewrites a region's own files (a repair, a migration, a new extract).
Rewrite(r) ==
    /\ main = "running"
    /\ canonical[r] < MaxVersion
    /\ canonical' = [canonical EXCEPT ![r] = @ + 1]
    /\ UNCHANGED <<highwater, envelopes, legacy, malformed, snapshot, remote, mainVars, shared,
                   workerVars, history>>

\* _close_uploads after a finished plan, or after an exception anywhere in it.
Close(abort) ==
    /\ main = "running"
    /\ main' = "pill"
    /\ aborted' = abort
    /\ UNCHANGED <<disk, remote, origin, current, todo, found, nextSequence, jobs, failures,
                   workerVars, history>>

PutPill ==
    /\ main = "pill"
    /\ Len(jobs) < MaxPending
    /\ jobs' = Append(jobs, Pill)
    /\ main' = "join"
    /\ UNCHANGED <<disk, remote, origin, current, todo, found, nextSequence, aborted, failures,
                   workerVars, history>>

Join ==
    /\ main = "join"
    /\ worker = "dead"
    /\ main' = "drained"
    /\ UNCHANGED <<disk, remote, origin, current, todo, found, nextSequence, shared,
                   workerVars, history>>

ProcessEnds ==
    /\ main' = "down" /\ origin' = "region" /\ current' = Pill /\ todo' = {} /\ found' = {} /\ nextSequence' = 1
    /\ jobs' = <<>> /\ aborted' = FALSE /\ failures' = {}
    /\ worker' = "none" /\ job' = Pill /\ attempt' = 1
    /\ UNCHANGED <<disk, remote, history>>

\* The interpreter waits for the non-daemon worker before the process exits.
Exit == main \in {"drained", "raised"} /\ worker = "dead" /\ ProcessEnds

Crash == main # "down" /\ ProcessEnds

\* Outside the program: a snapshot is altered while no process runs.
Tamper(s) ==
    /\ main = "down"
    /\ snapshot[s] \in Version
    /\ snapshot' = [snapshot EXCEPT ![s] = Garbled]
    /\ UNCHANGED <<highwater, envelopes, legacy, malformed, canonical, remote, mainVars, shared,
                   workerVars, history>>

------------------------------------------------------------------------------
(* The worker thread *)

Get ==
    /\ worker = "get"
    /\ jobs # <<>>
    /\ jobs' = Tail(jobs)
    /\ job' = Head(jobs)
    /\ attempt' = 1
    /\ worker' = IF Head(jobs) = Pill THEN "dead" ELSE "verify"
    /\ UNCHANGED <<disk, remote, mainVars, aborted, failures, history>>

\* Mutant: the snapshot's presence is checked, not its hash.
SnapshotPresent == job.sha = Missing \/ snapshot[job.sequence] # Missing

SnapshotIntact == job.sha = Missing \/ snapshot[job.sequence] = job.sha

\* Mutant: an exception ends the worker.
WorkerDies == /\ Report(job.sequence)
              /\ worker' = "dead"

\* _worker's except clause: record the failure and go on with the next job.
Fail == /\ Report(job.sequence)
        /\ worker' = "get"

Verify ==
    /\ worker = "verify"
    /\ IF SnapshotIntact
       THEN worker' = "attempt" /\ UNCHANGED <<failures, reported>>
       ELSE Fail
    /\ UNCHANGED <<disk, remote, mainVars, jobs, aborted, job, attempt, accepted, delivered,
                   applied>>

\* One Hub commit: adds come from the snapshot, removals need no file.
Commit ==
    /\ remote' = [remote EXCEPT ![job.region] =
                     IF job.sha = Missing THEN Missing ELSE snapshot[job.sequence]]
    /\ applied' = [applied EXCEPT ![job.region] = job.sequence]
    /\ delivered' = delivered \cup {job}

UploadSucceeds ==
    /\ worker = "attempt"
    /\ Commit
    /\ worker' = "unlink"
    /\ UNCHANGED <<disk, mainVars, shared, job, attempt, accepted, reported>>

\* The upload raises: before the commit, or after it (a lost answer, a failing
\* cleanup).  Only a transient error with attempts left is tried again.
UploadFails(transient, committed) ==
    /\ worker = "attempt"
    /\ IF committed THEN Commit ELSE UNCHANGED <<remote, applied, delivered>>
    /\ IF transient /\ attempt < Attempts
       THEN worker' = "wait" /\ UNCHANGED <<failures, reported>>
       ELSE Fail
    /\ UNCHANGED <<disk, mainVars, jobs, aborted, job, attempt, accepted>>

\* wait_for_retry_or_cancel: a cancelled wait re-raises the error.
WaitEnds ==
    /\ worker = "wait"
    /\ IF aborted
       THEN Fail /\ UNCHANGED attempt
       ELSE /\ worker' = "attempt"
            /\ attempt' = attempt + 1
            /\ UNCHANGED <<failures, reported>>
    /\ UNCHANGED <<disk, remote, mainVars, jobs, aborted, job, accepted, delivered, applied>>

\* Mutant: the snapshot goes first.
RmtreeFirst ==
    /\ worker = "unlink"
    /\ snapshot' = [snapshot EXCEPT ![job.sequence] = Missing]
    /\ worker' = "rmtree"
    /\ UNCHANGED <<highwater, envelopes, legacy, malformed, canonical, remote, mainVars, shared,
                   job, attempt, history>>

\* delete: first the envelope, then the snapshot.
Unlink ==
    /\ worker = "unlink"
    /\ envelopes' = envelopes \ {job}
    /\ worker' = "rmtree"
    /\ UNCHANGED <<highwater, legacy, malformed, snapshot, canonical, remote, mainVars, shared,
                   job, attempt, history>>

\* Mutant: the error is swallowed.
UnlinkFailsSilently ==
    /\ worker = "unlink"
    /\ worker' = "get"
    /\ UNCHANGED <<disk, remote, mainVars, shared, job, attempt, history>>

UnlinkFails ==
    /\ worker = "unlink"
    /\ Fail
    /\ UNCHANGED <<disk, remote, mainVars, jobs, aborted, job, attempt, accepted, delivered,
                   applied>>

Rmtree ==
    /\ worker = "rmtree"
    /\ snapshot' = [snapshot EXCEPT ![job.sequence] = Missing]
    /\ worker' = "get"
    /\ UNCHANGED <<highwater, envelopes, legacy, malformed, canonical, remote, mainVars, shared,
                   job, attempt, history>>

------------------------------------------------------------------------------
MainStep ==
    \/ Open \/ Classify \/ Restore \/ EnqueueResumed \/ ResumeDone \/ NoContainment
    \/ \E r \in Regions : BeginUpgrade(r) \/ BeginContainment(r) \/ BeginSubmit(r) \/ Rewrite(r)
    \/ Copy \/ WriteEnvelope \/ UnlinkLegacy \/ Put \/ PersistFails
    \/ \E abort \in BOOLEAN : Close(abort)
    \/ PutPill \/ Join \/ Exit

WorkerStep ==
    \/ Get \/ Verify \/ UploadSucceeds
    \/ \E transient, committed \in BOOLEAN : UploadFails(transient, committed)
    \/ WaitEnds \/ Unlink \/ UnlinkFails \/ Rmtree

Next == MainStep \/ WorkerStep \/ Interrupt \/ Crash \/ \E s \in Sequence : Tamper(s)

Spec == Init /\ [][Next]_vars

\* Both threads keep being scheduled; nothing is assumed of interrupts and
\* crashes, and the outcome of a Hub call stays open.
Fairness == /\ WF_vars(MainStep /\ main # "down")
            /\ WF_vars(WorkerStep)
FairSpec == Spec /\ Fairness
------------------------------------------------------------------------------
(* Properties *)

DiskTypeOK ==
    /\ highwater \in 0..MaxSequence
    /\ envelopes \subseteq Job
    /\ legacy \subseteq Regions
    /\ malformed \in 0..MaxMalformed
    /\ snapshot \in [Sequence -> Content]
    /\ canonical \in [Regions -> Version]

MainTypeOK ==
    /\ main \in {"down", "resume", "raised", "upgrade", "enqueue", "containment", "running",
                 "copy", "write", "unlinkLegacy", "put", "pill", "join", "drained"}
    /\ origin \in {"upgrade", "containment", "region"}
    /\ current \in Job \cup {Pill}
    /\ todo \subseteq Regions
    /\ found \subseteq Job
    /\ nextSequence \in 1..MaxSequence + 1

WorkerTypeOK ==
    /\ jobs \in Seq(Job \cup {Pill})
    /\ aborted \in BOOLEAN
    /\ failures \subseteq Sequence
    /\ worker \in {"none", "get", "verify", "attempt", "wait", "unlink", "rmtree", "dead"}
    /\ job \in Job \cup {Pill}
    /\ attempt \in 1..Attempts

HubTypeOK ==
    /\ remote \in [Regions -> Content]
    /\ accepted \subseteq Job
    /\ delivered \subseteq Job
    /\ applied \in [Regions -> 0..MaxSequence]
    /\ reported \subseteq Sequence

\* Every variable keeps its type; an upload is tried at most Attempts times.
TypeOK == DiskTypeOK /\ MainTypeOK /\ WorkerTypeOK /\ HubTypeOK

\* A sequence names one job for ever: no two envelopes that were ever written
\* share one, and a running process never allocates a number that an envelope,
\* a finished job or a half-written snapshot of an earlier process already has
\* (_allocate_sequence, .highwater, next_sequence_from_state_dir).
SequenceNamesOneJob ==
    /\ \A e, f \in accepted : e.sequence = f.sequence => e = f
    /\ main # "down" => /\ \A e \in accepted : e.sequence < nextSequence
                        /\ \A s \in Sequence : snapshot[s] # Missing => s < nextSequence

\* An envelope on disk always finds its snapshot: the one recorded, or one that
\* was altered from outside; never a missing one, at any crash point
\* (persist, cleanup_failed_submission, delete).
EnvelopeHasSnapshot ==
    \A e \in envelopes : e.sha # Missing => snapshot[e.sequence] \in {e.sha, Garbled}

\* When close_and_wait returns, everything the state directory still holds was
\* reported as failed by this very process; only an aborted run may also leave
\* the one job it was interrupted on.  SyncApplication.run publishes for the
\* whole repository on the strength of this.
DrainedMeansDelivered ==
    main = "drained" =>
        /\ \A e \in envelopes : e.sequence \in failures \/ (aborted /\ e = current)
        /\ failures = {} => legacy = {}

\* Within one process, jobs reach the worker in sequence order, resumed ones
\* before new ones (_ordered_pending_jobs, queue.Queue).
JobsInOrder ==
    /\ \A m, n \in DOMAIN jobs :
           m < n => /\ jobs[m] # Pill
                    /\ jobs[n] # Pill => jobs[m].sequence < jobs[n].sequence
    /\ \A n \in DOMAIN jobs : jobs[n] # Pill => job.sequence < jobs[n].sequence
    /\ \A e \in found : /\ job.sequence < e.sequence
                        /\ \A n \in DOMAIN jobs : jobs[n].sequence < e.sequence

\* A commit replaces a region's newer job by an older one only if some process
\* had reported the older one as failed: neither a crash, a retry nor a resume
\* alone reorders what the Hub shows.
OnlyReportedJobsRegress ==
    [][\A r \in Regions : applied'[r] < applied[r] => applied'[r] \in reported]_vars

\* No blocking call of the main thread blocks for ever: neither a put on the
\* full queue nor the join in close_and_wait, whatever the uploads do and
\* although no interrupt comes to end it.
BlockingCallsReturn ==
    \A p \in {"enqueue", "put", "pill", "join"} : main = p ~> main # p

\* The queue is an at-least-once outbox.
Outbox == INSTANCE DurableOutbox WITH pending <- envelopes

\* Every step of the queue, its crashes and its restarts is a step of the
\* outbox: nothing accepted is dropped before it was delivered, and what
\* becomes public is what was recorded when the job was submitted.
ImplementsOutbox == Outbox!Spec
==============================================================================
