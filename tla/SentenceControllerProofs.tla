----------------------- MODULE SentenceControllerProofs -----------------------
(***************************************************************************)
(* Proofs about the Grid5000 sentence controller, for any number of        *)
(* batches, attempts and checkouts.  The inductive invariant IInv ties the *)
(* durable ledger to what the controller is doing (StepInv), to the jobs   *)
(* and directories on Grid5000 (JobInv, ResultInv), to the commits each    *)
(* table, checkpoint and directory holds rows of (ContentInv, CacheInv)    *)
(* and to what the manifests list (ManifestInv).                           *)
(***************************************************************************)
EXTENDS SentenceController, SequenceTheorems, TLAPS

\* What the ledger says of the batch at hand, wherever the controller is; every
\* batch before it is published.
StepInv ==
    /\ pc # "down" => checkout = commit /\ commit \in Commits
    /\ pc \in {"stage", "oarsub", "record"} => cur \in Batches /\ Now.state = "submitted"
    /\ pc \in {"recheck", "poll", "retrieve", "install", "tables", "ready", "discard"}
           => cur \in Batches /\ Now.state = "running"
    /\ pc \in {"publish", "verify"} => cur \in Batches /\ Now.state = "ready_to_publish"
    /\ pc = "cleanup" => cur \in Batches /\ Now.state \in {"failed", "published"}
    /\ pc \in {"finalize", "finalized"} => cur = LastBatch + 1
    /\ pc # "down" => \A b \in Batches : b < cur => ledger[b].state = "published"

\* Attempts are counted from the first submission and stay within the bound.
AttemptInv ==
    /\ \A b \in Batches : IF ledger[b].state = "planned" THEN ledger[b].attempt = 0
                                                         ELSE ledger[b].attempt \in Attempts
    /\ pc # "down" => \A b \in Batches :
           ledger[b].state = "failed" /\ ~(b = cur /\ pc = "cleanup")
           => ledger[b].attempt < MaxAttempts

\* Each attempt of a batch has at most one job, which ran in its directory.
JobInv ==
    /\ \A d \in Batches \X Attempts : ~remote[d].present => remote[d] = NoDirectory
    /\ \A j \in DOMAIN jobs : jobs[j].attempt <= ledger[jobs[j].batch].attempt
    /\ \A i, j \in DOMAIN jobs :
           jobs[i].batch = jobs[j].batch /\ jobs[i].attempt = jobs[j].attempt => i = j
    /\ pc \in {"stage", "oarsub"} => \A j \in DOMAIN jobs :
           jobs[j].batch = cur => jobs[j].attempt < Now.attempt
    /\ pc \in {"oarsub", "record"} => remote[JobRoot].present
    /\ pc = "record" => /\ Len(jobs) \in DOMAIN jobs
                        /\ jobs[Len(jobs)].batch = cur
                        /\ jobs[Len(jobs)].attempt = Now.attempt
    /\ RunningIsReal

\* Rows of batch b are split by the ledger's commit or salvaged from a failed attempt.
Accounted(rows, b) == rows # {} /\ rows \subseteq {commit} \cup salvaged[b]

\* Which commits the tables at hand, the imported and the published ones are from.
ContentInv ==
    /\ \A b \in Batches : ledger[b].state # "planned" => commit \in Commits
    /\ pc \in {"install", "tables", "ready"} => Accounted(received.rows, cur)
    /\ pc = "ready" => Accounted(tables[cur], cur)
    /\ \A b \in Batches : ledger[b].state = "ready_to_publish" => Accounted(tables[b], b)
    /\ pc = "verify" => Accounted(hub.tables[cur], cur)
    /\ \A b \in Batches : ledger[b].state = "published" => Accounted(hub.tables[b], b)

\* What the checkpoints of a batch that may be submitted again hold is salvaged, and
\* a directory holds what was staged and what its own commit split.
CacheInv ==
    /\ \A b \in Batches : ledger[b].state \in {"planned", "submitted", "failed"}
           => checkpoints[b] \subseteq salvaged[b]
    /\ pc = "recheck" => checkpoints[cur] \subseteq salvaged[cur]
    /\ \A d \in Batches \X Attempts :
           /\ remote[d].rows \subseteq {remote[d].commit} \cup salvaged[d[1]]
           /\ remote[d].receipt = "succeeded" => remote[d].rows # {}
           /\ remote[d].present => remote[d].commit \in Commits

\* A manifest lists a batch only when all batches before it are published.
ManifestInv ==
    /\ \A b \in manifest : \A c \in Batches : c < b => ledger[c].state = "published"
    /\ \A d \in Batches \X Attempts : \A b \in remote[d].manifest : b <= d[1]
    /\ pc = "install" => \A b \in received.manifest : b <= cur
    /\ HubManifestBacked

\* A result is given up only when its job is over and it is no success.
ResultInv ==
    /\ pc \in {"retrieve", "discard"} => JobState # "active"
    /\ pc = "discard" \/ (pc = "cleanup" /\ Now.state = "failed") =>
           /\ Now.job \in DOMAIN jobs
           /\ jobs[Now.job].batch = cur /\ jobs[Now.job].attempt = Now.attempt
           /\ JobState # "active"
           /\ ~(/\ JobState = "terminated" /\ remote[JobRoot].receipt = "succeeded"
                /\ remote[JobRoot].commit = commit)

IInv == /\ TypeOK /\ StepInv /\ AttemptInv /\ JobInv /\ ContentInv /\ CacheInv /\ ManifestInv
        /\ ResultInv

------------------------------------------------------------------------------
(* What the actions with a Boolean choice do, without the choice *)

\* A failed submission leaves the ledger or records the failure.
SubmissionFailure ==
    /\ pc \in {"stage", "oarsub", "record", "recheck"}
    /\ \/ ledger' = ledger
       \/ ledger' = [ledger EXCEPT ![cur] = [Now EXCEPT !.state = "failed", !.error = "other"]]
    /\ pc' = "down" /\ cur' = 1 /\ checkout' = 0 /\ received' = NoDirectory
    /\ UNCHANGED <<commit, cleanup, manifest, tables, readme, checkpoints, salvaged, remote, jobs, hub>>

\* A failed submission leaves the ledger alone or records the failure
\* (_record_submission_failure).
LEMMA SubmissionFailsCases ==
    ASSUME NEW t \in BOOLEAN, SubmissionFails(t) PROVE SubmissionFailure
  BY Zenon DEF SubmissionFailure, SubmissionFails, Record, Stop, grid, cache

\* A failed publication may have reached the Hub, and is recorded as an error.
PublicationFailure ==
    /\ pc \in {"publish", "verify"}
    /\ hub' = hub \/ (pc = "publish" /\ CommitBatch)
    /\ ledger' = [ledger EXCEPT ![cur] = [Now EXCEPT !.error = "other"]]
    /\ pc' = "down" /\ cur' = 1 /\ checkout' = 0 /\ received' = NoDirectory
    /\ UNCHANGED <<commit, cleanup, manifest, tables, readme, checkpoints, salvaged, remote, jobs>>

\* A failed publication may or may not have reached the Hub; the batch stays
\* ready to publish (_publish_batch).
LEMMA PublishFailsCases ==
    ASSUME NEW t \in BOOLEAN, PublishFails(t) PROVE PublicationFailure
  BY Zenon DEF PublicationFailure, PublishFails, Record, Stop, grid, cache

\* Ctrl-C cancels the batch at hand if it is active, and may delete its job.
Interruption ==
    /\ \/ ledger' = ledger /\ jobs' = jobs
       \/ /\ cur <= LastBatch /\ Now.state \in {"submitted", "running"}
          /\ ledger' = [ledger EXCEPT ![cur] =
                           [Now EXCEPT !.state = "cancelled", !.error = "other"]]
          /\ \/ jobs' = jobs
             \/ /\ Now.job # 0 /\ JobState = "active"
                /\ jobs' = [jobs EXCEPT ![Now.job].state = "error"]
    /\ pc' = "down" /\ cur' = 1 /\ checkout' = 0 /\ received' = NoDirectory
    /\ UNCHANGED <<commit, cleanup, manifest, tables, readme, checkpoints, salvaged, remote, hub>>

\* Ctrl-C cancels an active batch and deletes its job, or leaves both alone.
LEMMA InterruptCases ==
    ASSUME NEW t \in BOOLEAN, Interrupt(t) PROVE Interruption
  BY Zenon DEF Interruption, Interrupt, Record, Stop, Active, Now, cache

\* Either way attempts and jobs stay on record, and only the batch at hand, which
\* was active, gets another state.
LedgerGivesUp(state) ==
    /\ ledger' \in [Batches -> Batch]
    /\ \A b \in Batches : /\ ledger'[b].attempt = ledger[b].attempt
                          /\ ledger'[b].job = ledger[b].job
                          /\ \/ ledger'[b].state = ledger[b].state
                             \/ /\ b = cur /\ ledger[b].state \in {"submitted", "running"}
                                /\ ledger'[b].state = state

\* A failed submission changes the record of the batch at hand only.
LEMMA LedgerAfterSubmissionFails ==
    ASSUME IInv, SubmissionFailure PROVE LedgerGivesUp("failed")
<1>1. /\ ledger \in [Batches -> Batch]
      /\ cur \in Batches /\ ledger[cur].state \in {"submitted", "running"}
  BY DEF IInv, TypeOK, LedgerTypeOK, ControlTypeOK, StepInv, SubmissionFailure, Now
<1>2. CASE ledger' = ledger BY <1>1, <1>2 DEF LedgerGivesUp
<1>3. CASE ledger' = [ledger EXCEPT ![cur] = [Now EXCEPT !.state = "failed", !.error = "other"]]
  BY <1>1, <1>3 DEF LedgerGivesUp, Now, Batch
<1>4. QED BY <1>2, <1>3 DEF SubmissionFailure

\* Ctrl-C changes the record of the batch at hand only.
LEMMA LedgerAfterInterrupt ==
    ASSUME IInv, Interruption PROVE LedgerGivesUp("cancelled")
<1>1. CASE ledger' = ledger
  BY <1>1 DEF LedgerGivesUp, IInv, TypeOK, LedgerTypeOK
<1>2. CASE /\ cur <= LastBatch /\ Now.state \in {"submitted", "running"}
           /\ ledger' = [ledger EXCEPT ![cur] =
                            [Now EXCEPT !.state = "cancelled", !.error = "other"]]
  <2>1. ledger \in [Batches -> Batch] /\ cur \in Batches
    BY <1>2, ConstantsAssumption DEF IInv, TypeOK, LedgerTypeOK, ControlTypeOK, Batches
  <2>2. QED BY <1>2, <2>1 DEF LedgerGivesUp, Now, Batch
<1>3. QED BY <1>1, <1>2 DEF Interruption

------------------------------------------------------------------------------
(* What happens to jobs and directories *)

\* Jobs keep their identity, and a job that is over stays as it ended.
JobsKept ==
    /\ jobs' \in Seq(Job) /\ Len(jobs') = Len(jobs)
    /\ \A j \in DOMAIN jobs : /\ jobs'[j].batch = jobs[j].batch
                              /\ jobs'[j].attempt = jobs[j].attempt
                              /\ jobs[j].state # "active" => jobs'[j].state = jobs[j].state

\* A job whose state changes stays in its place with its batch and attempt.
LEMMA JobChanges ==
    ASSUME jobs \in Seq(Job), NEW k \in DOMAIN jobs, NEW s \in {"terminated", "error"},
           jobs[k].state = "active", jobs' = [jobs EXCEPT ![k].state = s]
    PROVE  JobsKept
<1>1. jobs[k] \in Job /\ k \in 1..Len(jobs) OBVIOUS
<1>2. [jobs[k] EXCEPT !.state = s] \in Job BY <1>1 DEF Job
<1>3. jobs' = [jobs EXCEPT ![k] = [jobs[k] EXCEPT !.state = s]] OBVIOUS
<1>4. jobs' \in Seq(Job) /\ Len(jobs') = Len(jobs) BY <1>1, <1>2, <1>3, ExceptSeq
<1>5. QED BY <1>1, <1>4 DEF JobsKept, Job

\* The same jobs stay in their places.
LEMMA JobsUnchanged ==
    ASSUME jobs \in Seq(Job), jobs' = jobs PROVE JobsKept
  BY DEF JobsKept

\* Directories stay, but for the receipt that a job leaves.
DirectoriesKept ==
    /\ remote' \in [Batches \X Attempts -> Directory]
    /\ \A d \in Batches \X Attempts : /\ remote'[d].present = remote[d].present
                                      /\ remote'[d].manifest = remote[d].manifest
                                      /\ remote'[d].commit = remote[d].commit
                                      /\ ~remote[d].present => remote'[d] = remote[d]

\* A directory's rows are the staged ones and those of its own commit, and a
\* successful job leaves some.
RowsKept ==
    \A d \in Batches \X Attempts :
        /\ remote'[d].rows \subseteq remote[d].rows \cup {remote[d].commit}
        /\ remote'[d].receipt = "succeeded" => remote'[d].rows # {}

\* A job that ends keeps its identity, and a directory its staged content.
LEMMA JobEndsKeeps ==
    ASSUME IInv, NEW k \in DOMAIN jobs, NEW s \in {"terminated", "error"},
           NEW r \in {"none", "failed", "succeeded"}, NEW w \in BOOLEAN, JobEnds(k, s, r, w)
    PROVE  /\ JobsKept /\ DirectoriesKept /\ RowsKept /\ jobs[k].state = "active"
           /\ \A d \in Batches \X Attempts :
                  d # <<jobs[k].batch, jobs[k].attempt>> => remote'[d] = remote[d]
           /\ UNCHANGED <<ledger, commit, cleanup, manifest, tables, readme, checkpoints,
                          salvaged, hub, checkout, pc, cur, received>>
<1>1. jobs \in Seq(Job) /\ remote \in [Batches \X Attempts -> Directory]
  BY DEF IInv, TypeOK, GridTypeOK
<1>2. /\ jobs[k].state = "active" /\ jobs' = [jobs EXCEPT ![k].state = s]
      /\ UNCHANGED <<ledger, commit, cleanup, manifest, tables, readme, checkpoints, salvaged, hub, checkout, pc,
                     cur, received>>
  BY DEF JobEnds, disk, cache
<1>3. JobsKept BY <1>1, <1>2, JobChanges
<1>4. PICK d \in Batches \X Attempts : d = <<jobs[k].batch, jobs[k].attempt>>
  <2>1. jobs[k] \in Job BY <1>1
  <2>2. QED BY <2>1 DEF Job
<1>5. PICK rows \in SUBSET Commits :
          /\ rows \subseteq remote[d].rows \cup {remote[d].commit}
          /\ remote[d].present => (r = "succeeded" => rows # {})
          /\ remote' = IF remote[d].present
                       THEN [remote EXCEPT ![d] = [@ EXCEPT !.receipt = r, !.rows = rows]]
                       ELSE remote
  <2>1. remote[d].rows \in SUBSET Commits /\ remote[d].commit \in 0..MaxCommit
    BY <1>1 DEF Directory
  <2>2. remote[d].present => remote[d].commit \in Commits
    BY <2>1, ConstantsAssumption DEF IInv, CacheInv, Commits
  <2>. DEFINE rows == remote[d].rows \cup (IF w THEN {remote[d].commit} ELSE {})
  <2>3. /\ r = "succeeded" => rows # {}
        /\ remote' = IF remote[d].present
                     THEN [remote EXCEPT ![d] = [@ EXCEPT !.receipt = r, !.rows = rows]]
                     ELSE remote
    BY <1>4, Zenon DEF JobEnds
  <2>4. rows \subseteq remote[d].rows \cup {remote[d].commit} BY Zenon
  <2>. HIDE DEF rows
  <2>5. CASE ~remote[d].present
    <3>1. /\ {} \subseteq remote[d].rows \cup {remote[d].commit} /\ {} \in SUBSET Commits
          /\ remote' = remote
      BY <2>3, <2>5
    <3>2. QED BY <2>5, <3>1
  <2>6. CASE remote[d].present
    <3>1. rows \in SUBSET Commits BY <2>1, <2>2, <2>4, <2>6
    <3>2. QED BY <2>3, <2>4, <3>1
  <2>7. QED BY <2>5, <2>6
<1>6. DirectoriesKept
  <2>1. CASE ~remote[d].present BY <1>1, <1>5, <2>1 DEF DirectoriesKept
  <2>2. CASE remote[d].present
    <3>1. [remote[d] EXCEPT !.receipt = r, !.rows = rows] \in Directory
      BY <1>1 DEF Directory
    <3>2. QED BY <1>1, <1>5, <2>2, <3>1 DEF DirectoriesKept, Directory
  <2>3. QED BY <2>1, <2>2
<1>7. \A e \in Batches \X Attempts : e # d => remote'[e] = remote[e]
  BY <1>1, <1>5
<1>8. RowsKept
  <2>1. CacheInv BY DEF IInv
  <2>2. SUFFICES ASSUME NEW e \in Batches \X Attempts
                 PROVE  /\ remote'[e].rows \subseteq remote[e].rows \cup {remote[e].commit}
                        /\ remote'[e].receipt = "succeeded" => remote'[e].rows # {}
    BY DEF RowsKept
  <2>3. CASE e # d BY <1>7, <2>1, <2>3 DEF CacheInv
  <2>4. CASE e = d /\ ~remote[d].present BY <1>5, <2>1, <2>4 DEF CacheInv
  <2>5. CASE e = d /\ remote[d].present BY <1>1, <1>5, <2>5 DEF Directory
  <2>6. QED BY <2>3, <2>4, <2>5
<1>9. QED BY <1>2, <1>3, <1>4, <1>6, <1>7, <1>8

\* Ctrl-C at most ends the job of the batch at hand.
LEMMA InterruptKeepsJobs ==
    ASSUME IInv, Interruption PROVE JobsKept
<1>1. jobs \in Seq(Job) BY DEF IInv, TypeOK, GridTypeOK
<1>2. CASE jobs' = jobs BY <1>1, <1>2, JobsUnchanged
<1>3. CASE /\ cur <= LastBatch /\ Now.state \in {"submitted", "running"}
           /\ Now.job # 0 /\ JobState = "active"
           /\ jobs' = [jobs EXCEPT ![Now.job].state = "error"]
  <2>1. cur \in Batches /\ Now.state = "running"
    BY <1>3, ConstantsAssumption
    DEF IInv, TypeOK, LedgerTypeOK, ControlTypeOK, Batches, Now
  <2>2. Now.job \in DOMAIN jobs BY <2>1 DEF IInv, JobInv, RunningIsReal, Now
  <2>3. QED BY <1>1, <1>3, <2>2, JobChanges DEF JobState
<1>4. QED BY <1>2, <1>3 DEF Interruption

\* A step that leaves attempts, jobs and directories alone keeps JobInv.
LedgerKeepsJobs ==
    \A b \in Batches : /\ ledger'[b].attempt = ledger[b].attempt
                       /\ ledger'[b].job = ledger[b].job
                       /\ ledger'[b].state = "running" => ledger[b].state = "running"

\* JobInv survives a step that keeps jobs, directories and attempts.
LEMMA JobInvKept ==
    ASSUME IInv, JobsKept, DirectoriesKept, LedgerKeepsJobs,
           pc' \in {"stage", "oarsub", "record"} => pc' = pc /\ cur' = cur
    PROVE  JobInv'
<1>0. /\ jobs \in Seq(Job) /\ jobs' \in Seq(Job) /\ DOMAIN jobs' = DOMAIN jobs
      /\ Len(jobs') = Len(jobs)
      /\ \A j \in DOMAIN jobs : /\ jobs'[j].batch = jobs[j].batch
                                /\ jobs'[j].attempt = jobs[j].attempt
                                /\ jobs[j].batch \in Batches
  <2>1. jobs \in Seq(Job) BY DEF IInv, TypeOK, GridTypeOK
  <2>2. \A j \in DOMAIN jobs : jobs[j] \in Job BY <2>1
  <2>3. QED BY <2>1, <2>2 DEF JobsKept, Job
<1>1. JobInv /\ AttemptInv /\ StepInv BY DEF IInv
<1>2. \A d \in Batches \X Attempts : ~remote'[d].present => remote'[d] = NoDirectory
  BY <1>1 DEF JobInv, DirectoriesKept
<1>3. /\ \A j \in DOMAIN jobs' : jobs'[j].attempt <= ledger'[jobs'[j].batch].attempt
      /\ \A i, j \in DOMAIN jobs' :
             jobs'[i].batch = jobs'[j].batch /\ jobs'[i].attempt = jobs'[j].attempt => i = j
  BY <1>0, <1>1 DEF JobInv, LedgerKeepsJobs
<1>4. pc' \in {"stage", "oarsub", "record"} =>
          /\ pc' = pc /\ cur' = cur /\ cur \in Batches
          /\ <<cur, ledger[cur].attempt>> \in Batches \X Attempts
          /\ ledger'[cur].attempt = ledger[cur].attempt
  BY <1>1 DEF StepInv, AttemptInv, LedgerKeepsJobs, Now
<1>5. /\ pc' \in {"stage", "oarsub"} => \A j \in DOMAIN jobs' :
             jobs'[j].batch = cur' => jobs'[j].attempt < ledger'[cur'].attempt
  BY <1>0, <1>1, <1>4 DEF JobInv, Now
<1>6. pc' \in {"oarsub", "record"} => remote'[<<cur', ledger'[cur'].attempt>>].present
  BY <1>1, <1>4 DEF JobInv, DirectoriesKept, JobRoot, Now
<1>7. pc' = "record" => /\ Len(jobs') \in DOMAIN jobs'
                        /\ jobs'[Len(jobs')].batch = cur'
                        /\ jobs'[Len(jobs')].attempt = ledger'[cur'].attempt
  BY <1>0, <1>1, <1>4 DEF JobInv, Now
<1>8. RunningIsReal'
  <2>. SUFFICES ASSUME NEW b \in Batches, ledger'[b].state = "running"
                PROVE  /\ ledger'[b].job \in DOMAIN jobs'
                       /\ jobs'[ledger'[b].job].batch = b
                       /\ jobs'[ledger'[b].job].attempt = ledger'[b].attempt
                       /\ remote'[<<b, ledger'[b].attempt>>].present
    BY DEF RunningIsReal
  <2>1. ledger[b].state = "running" /\ ledger'[b].job = ledger[b].job
        /\ ledger'[b].attempt = ledger[b].attempt
    BY DEF LedgerKeepsJobs
  <2>2. <<b, ledger[b].attempt>> \in Batches \X Attempts BY <1>1, <2>1 DEF AttemptInv
  <2>3. QED BY <1>0, <1>1, <2>1, <2>2, SMTT(20) DEF JobInv, RunningIsReal, DirectoriesKept
<1>9. QED BY <1>2, <1>3, <1>5, <1>6, <1>7, <1>8 DEF JobInv, Now, JobRoot

\* Jobs or directories that a step does not touch are kept.
LEMMA GridUnchanged ==
    ASSUME IInv, UNCHANGED grid PROVE JobsKept /\ DirectoriesKept
  BY JobsUnchanged DEF IInv, TypeOK, GridTypeOK, grid, DirectoriesKept

\* A step that publishes nothing and leaves the manifests alone keeps ManifestInv.
LEMMA ManifestInvKept ==
    ASSUME IInv, DirectoriesKept, manifest' = manifest, HubManifestBacked',
           \A b \in Batches : ledger[b].state = "published" => ledger'[b].state = "published",
           pc' = "install" => pc = "install" /\ cur' = cur /\ received' = received
    PROVE  ManifestInv'
<1>1. ManifestInv /\ manifest \subseteq Batches BY DEF IInv, TypeOK, DataTypeOK
<1>2. \A b \in manifest' : \A c \in Batches : c < b => ledger'[c].state = "published"
  BY <1>1 DEF ManifestInv
<1>3. \A d \in Batches \X Attempts : \A b \in remote'[d].manifest : b <= d[1]
  BY <1>1 DEF ManifestInv, DirectoriesKept
<1>4. QED BY <1>1, <1>2, <1>3 DEF ManifestInv

\* What a commit adds to the Hub's manifest has its tables there.
LEMMA CommitIsBacked ==
    ASSUME IInv, pc = "publish", CommitBatch PROVE HubManifestBacked'
<1>1. /\ cur \in Batches /\ ledger[cur].state = "ready_to_publish"
      /\ \A b \in Batches : b < cur => ledger[b].state = "published"
      /\ manifest \subseteq Batches
      /\ hub \in [manifest : SUBSET Batches, tables : [Batches -> SUBSET Commits]]
  BY DEF IInv, TypeOK, DataTypeOK, StepInv, Now
<1>2. \A b \in manifest : b <= cur
  BY <1>1, ConstantsAssumption DEF IInv, ManifestInv, Batches
<1>3. tables[cur] # {}
  BY <1>1 DEF IInv, ContentInv, Accounted
<1>4. \A b \in manifest : b # cur => hub.tables[b] # {}
  BY <1>1, <1>2, <1>3, ConstantsAssumption
  DEF IInv, ContentInv, Accounted, Batches
<1>5. hub'.manifest = manifest /\ hub'.tables = [hub.tables EXCEPT ![cur] = tables[cur]]
  BY DEF CommitBatch
<1>6. QED BY <1>1, <1>3, <1>4, <1>5 DEF HubManifestBacked

------------------------------------------------------------------------------
(* One lemma per part of the invariant, one step per action *)

\* The ledger and the controller's position stay together.
LEMMA StepPreserved ==
    ASSUME IInv, Next
    PROVE  StepInv'
<1>0. /\ ledger \in [Batches -> Batch] /\ cur \in 1..LastBatch + 1
      /\ \A b \in Batches : ledger[b].state \in {"planned", "submitted"} => ledger[b].job = 0
      /\ StepInv
  BY DEF IInv, TypeOK, LedgerTypeOK, GridTypeOK, DataTypeOK, ControlTypeOK
<1>1. ASSUME NEW c \in Commits, Start(c)
      PROVE  StepInv'
  BY <1>0, <1>1, ConstantsAssumption
  DEF Start, MigrationSafe, AttemptsLeft, disk, grid, StepInv, Now, Batches, Batch
<1>2. CASE NextBatch
  BY <1>0, <1>2, ConstantsAssumption
  DEF NextBatch, disk, grid, StepInv, Now, Batches, Batch
<1>3. CASE Resume
  BY <1>0, <1>3, ConstantsAssumption
  DEF Resume, Active, disk, grid, StepInv, Now, Batches, Batch
<1>4. CASE Refuse
  BY <1>0, <1>4, ConstantsAssumption
  DEF Refuse, Stop, Active, disk, grid, StepInv, Now, Batches, Batch
<1>5. CASE BeginSubmit
  BY <1>0, <1>5, ConstantsAssumption
  DEF BeginSubmit, Record, disk, grid, StepInv, Now, Batches, Batch
<1>6. CASE StageBatch
  BY <1>0, <1>6, ConstantsAssumption
  DEF StageBatch, disk, grid, StepInv, Now, Batches, Batch
<1>7. CASE Oarsub
  BY <1>0, <1>7, ConstantsAssumption
  DEF Oarsub, disk, grid, StepInv, Now, Batches, Batch
<1>8. CASE RecordJob
  BY <1>0, <1>8, ConstantsAssumption
  DEF RecordJob, Record, disk, grid, StepInv, Now, Batches, Batch
<1>9. CASE Recheck
  BY <1>0, <1>9, ConstantsAssumption
  DEF Recheck, disk, grid, StepInv, Now, Batches, Batch
<1>10. CASE Poll
  BY <1>0, <1>10, ConstantsAssumption
  DEF Poll, disk, grid, StepInv, Now, Batches, Batch
<1>11. CASE Retrieve
  BY <1>0, <1>11, ConstantsAssumption
  DEF Retrieve, ValidReceipt, disk, grid, StepInv, Now, Batches, Batch
<1>12. CASE MarkFailed
  BY <1>0, <1>12, ConstantsAssumption
  DEF MarkFailed, Record, ValidReceipt, disk, grid, StepInv, Now, Batches, Batch
<1>13. CASE InstallManifest
  BY <1>0, <1>13, ConstantsAssumption
  DEF InstallManifest, disk, grid, StepInv, Now, Batches, Batch
<1>14. CASE InstallTables
  BY <1>0, <1>14, ConstantsAssumption
  DEF InstallTables, disk, grid, StepInv, Now, Batches, Batch
<1>15. CASE Ready
  BY <1>0, <1>15, ConstantsAssumption
  DEF Ready, Record, disk, grid, StepInv, Now, Batches, Batch
<1>16. CASE BaselineChanged
  BY <1>0, <1>16, ConstantsAssumption
  DEF BaselineChanged, Stop, Record, disk, grid, StepInv, Now, Batches, Batch
<1>17. CASE Publish
  BY <1>0, <1>17, ConstantsAssumption
  DEF Publish, CommitBatch, disk, grid, StepInv, Now, Batches, Batch
<1>18. CASE RecordPublished
  BY <1>0, <1>18, ConstantsAssumption
  DEF RecordPublished, Record, disk, grid, StepInv, Now, Batches, Batch
<1>19. CASE CleanupRemoteJob
  BY <1>0, <1>19, ConstantsAssumption
  DEF CleanupRemoteJob, Stop, disk, grid, StepInv, Now, Batches, Batch
<1>20. CASE BeginFinalize
  BY <1>0, <1>20, ConstantsAssumption
  DEF BeginFinalize, Stop, disk, grid, StepInv, Now, Batches, Batch
<1>21. CASE Finalize
  BY <1>0, <1>21, ConstantsAssumption
  DEF Finalize, disk, grid, StepInv, Now, Batches, Batch
<1>22. CASE RecordCleanup
  BY <1>0, <1>22, ConstantsAssumption
  DEF RecordCleanup, Stop, disk, grid, StepInv, Now, Batches, Batch
<1>23. CASE RetrieveRaises
  BY <1>0, <1>23, ConstantsAssumption
  DEF RetrieveRaises, Stop, disk, grid, StepInv, Now, Batches, Batch
<1>24. CASE CleanupFails
  BY <1>0, <1>24, ConstantsAssumption
  DEF CleanupFails, Stop, disk, grid, StepInv, Now, Batches, Batch
<1>25. CASE Crash
  BY <1>0, <1>25, ConstantsAssumption
  DEF Crash, Stop, disk, grid, StepInv, Now, Batches, Batch
<1>26. ASSUME NEW t \in BOOLEAN, SubmissionFails(t)
      PROVE  StepInv'
  <2>1. SubmissionFailure BY <1>26, SubmissionFailsCases, Zenon
  <2>2. QED
    BY <1>0, <2>1, ConstantsAssumption
    DEF SubmissionFailure, StepInv, Now, Batches, Batch
<1>27. ASSUME NEW t \in BOOLEAN, PublishFails(t)
      PROVE  StepInv'
  <2>1. PublicationFailure BY <1>27, PublishFailsCases, Zenon
  <2>2. QED
    BY <1>0, <2>1, ConstantsAssumption
    DEF PublicationFailure, CommitBatch, StepInv, Now, Batches, Batch
<1>28. ASSUME NEW t \in BOOLEAN, Interrupt(t)
      PROVE  StepInv'
  <2>1. Interruption BY <1>28, InterruptCases, Zenon
  <2>2. QED
    BY <1>0, <2>1, ConstantsAssumption
    DEF Interruption, StepInv, Now, Batches, Batch
<1>29. ASSUME NEW k \in DOMAIN jobs, NEW s \in {"terminated", "error"},
                   NEW r \in {"none", "failed", "succeeded"}, NEW w \in BOOLEAN, JobEnds(k, s, r, w)
      PROVE  StepInv'
  BY <1>0, <1>29, ConstantsAssumption
  DEF JobEnds, disk, grid, StepInv, Now, Batches, Batch
<1>30. CASE RewriteReadme
  BY <1>0, <1>30, ConstantsAssumption
  DEF RewriteReadme, disk, grid, StepInv, Now, Batches, Batch
<1>31. QED
  BY <1>1, <1>2, <1>3, <1>4, <1>5, <1>6, <1>7, <1>8, <1>9, <1>10, <1>11, <1>12, <1>13,
      <1>14, <1>15, <1>16, <1>17, <1>18, <1>19, <1>20, <1>21, <1>22, <1>23, <1>24, <1>25,
      <1>26, <1>27, <1>28, <1>29, <1>30
  DEF Next, Controller, Failure, Node

\* The attempts stay within the bound.
LEMMA AttemptPreserved ==
    ASSUME IInv, Next
    PROVE  AttemptInv'
<1>0. /\ ledger \in [Batches -> Batch] /\ cur \in 1..LastBatch + 1
      /\ StepInv /\ AttemptInv
  BY DEF IInv, TypeOK, LedgerTypeOK, GridTypeOK, DataTypeOK, ControlTypeOK
<1>1. ASSUME NEW c \in Commits, Start(c)
      PROVE  AttemptInv'
  BY <1>0, <1>1, ConstantsAssumption
  DEF Start, MigrationSafe, AttemptsLeft, disk, grid, StepInv, AttemptInv, Now, Batches,
      Batch, Attempts
<1>2. CASE NextBatch
  BY <1>0, <1>2, ConstantsAssumption
  DEF NextBatch, disk, grid, StepInv, AttemptInv, Now, Batches, Batch, Attempts
<1>3. CASE Resume
  BY <1>0, <1>3, ConstantsAssumption
  DEF Resume, Active, disk, grid, StepInv, AttemptInv, Now, Batches, Batch, Attempts
<1>4. CASE Refuse
  BY <1>0, <1>4, ConstantsAssumption
  DEF Refuse, Stop, Active, disk, grid, StepInv, AttemptInv, Now, Batches, Batch, Attempts
<1>5. CASE BeginSubmit
  BY <1>0, <1>5, ConstantsAssumption
  DEF BeginSubmit, Record, disk, grid, StepInv, AttemptInv, Now, Batches, Batch, Attempts
<1>6. CASE StageBatch
  BY <1>0, <1>6, ConstantsAssumption
  DEF StageBatch, disk, grid, StepInv, AttemptInv, Now, Batches, Batch, Attempts
<1>7. CASE Oarsub
  BY <1>0, <1>7, ConstantsAssumption
  DEF Oarsub, disk, grid, StepInv, AttemptInv, Now, Batches, Batch, Attempts
<1>8. CASE RecordJob
  BY <1>0, <1>8, ConstantsAssumption
  DEF RecordJob, Record, disk, grid, StepInv, AttemptInv, Now, Batches, Batch, Attempts
<1>9. CASE Recheck
  BY <1>0, <1>9, ConstantsAssumption
  DEF Recheck, disk, grid, StepInv, AttemptInv, Now, Batches, Batch, Attempts
<1>10. CASE Poll
  BY <1>0, <1>10, ConstantsAssumption
  DEF Poll, disk, grid, StepInv, AttemptInv, Now, Batches, Batch, Attempts
<1>11. CASE Retrieve
  BY <1>0, <1>11, ConstantsAssumption
  DEF Retrieve, ValidReceipt, disk, grid, StepInv, AttemptInv, Now, Batches, Batch, Attempts
<1>12. CASE MarkFailed
  BY <1>0, <1>12, ConstantsAssumption
  DEF MarkFailed, Record, ValidReceipt, disk, grid, StepInv, AttemptInv, Now, Batches,
      Batch, Attempts
<1>13. CASE InstallManifest
  BY <1>0, <1>13, ConstantsAssumption
  DEF InstallManifest, disk, grid, StepInv, AttemptInv, Now, Batches, Batch, Attempts
<1>14. CASE InstallTables
  BY <1>0, <1>14, ConstantsAssumption
  DEF InstallTables, disk, grid, StepInv, AttemptInv, Now, Batches, Batch, Attempts
<1>15. CASE Ready
  BY <1>0, <1>15, ConstantsAssumption
  DEF Ready, Record, disk, grid, StepInv, AttemptInv, Now, Batches, Batch, Attempts
<1>16. CASE BaselineChanged
  BY <1>0, <1>16, ConstantsAssumption
  DEF BaselineChanged, Stop, Record, disk, grid, StepInv, AttemptInv, Now, Batches, Batch,
      Attempts
<1>17. CASE Publish
  BY <1>0, <1>17, ConstantsAssumption
  DEF Publish, CommitBatch, disk, grid, StepInv, AttemptInv, Now, Batches, Batch, Attempts
<1>18. CASE RecordPublished
  BY <1>0, <1>18, ConstantsAssumption
  DEF RecordPublished, Record, disk, grid, StepInv, AttemptInv, Now, Batches, Batch, Attempts
<1>19. CASE CleanupRemoteJob
  BY <1>0, <1>19, ConstantsAssumption
  DEF CleanupRemoteJob, Stop, disk, grid, StepInv, AttemptInv, Now, Batches, Batch, Attempts
<1>20. CASE BeginFinalize
  BY <1>0, <1>20, ConstantsAssumption
  DEF BeginFinalize, Stop, disk, grid, StepInv, AttemptInv, Now, Batches, Batch, Attempts
<1>21. CASE Finalize
  BY <1>0, <1>21, ConstantsAssumption
  DEF Finalize, disk, grid, StepInv, AttemptInv, Now, Batches, Batch, Attempts
<1>22. CASE RecordCleanup
  BY <1>0, <1>22, ConstantsAssumption
  DEF RecordCleanup, Stop, disk, grid, StepInv, AttemptInv, Now, Batches, Batch, Attempts
<1>23. CASE RetrieveRaises
  BY <1>0, <1>23, ConstantsAssumption
  DEF RetrieveRaises, Stop, disk, grid, StepInv, AttemptInv, Now, Batches, Batch, Attempts
<1>24. CASE CleanupFails
  BY <1>0, <1>24, ConstantsAssumption
  DEF CleanupFails, Stop, disk, grid, StepInv, AttemptInv, Now, Batches, Batch, Attempts
<1>25. CASE Crash
  BY <1>0, <1>25, ConstantsAssumption
  DEF Crash, Stop, disk, grid, StepInv, AttemptInv, Now, Batches, Batch, Attempts
<1>26. ASSUME NEW t \in BOOLEAN, SubmissionFails(t)
      PROVE  AttemptInv'
  <2>1. SubmissionFailure BY <1>26, SubmissionFailsCases, Zenon
  <2>2. LedgerGivesUp("failed") BY <2>1, LedgerAfterSubmissionFails
  <2>3. /\ pc' = "down" /\ cur' = 1 /\ checkout' = 0 /\ received' = NoDirectory
        /\ UNCHANGED <<commit, cleanup, manifest, tables, readme, checkpoints, salvaged, remote, hub>>
    BY <2>1 DEF SubmissionFailure
  <2>4. QED
    BY <1>0, <2>2, <2>3, ConstantsAssumption
    DEF LedgerGivesUp, AttemptInv
<1>27. ASSUME NEW t \in BOOLEAN, PublishFails(t)
      PROVE  AttemptInv'
  <2>1. PublicationFailure BY <1>27, PublishFailsCases, Zenon
  <2>2. QED
    BY <1>0, <2>1, ConstantsAssumption
    DEF PublicationFailure, CommitBatch, StepInv, AttemptInv, Now, Batches, Batch, Attempts
<1>28. ASSUME NEW t \in BOOLEAN, Interrupt(t)
      PROVE  AttemptInv'
  <2>1. Interruption BY <1>28, InterruptCases, Zenon
  <2>2. LedgerGivesUp("cancelled") BY <2>1, LedgerAfterInterrupt
  <2>3. /\ pc' = "down" /\ cur' = 1 /\ checkout' = 0 /\ received' = NoDirectory
        /\ UNCHANGED <<commit, cleanup, manifest, tables, readme, checkpoints, salvaged, remote, hub>>
    BY <2>1 DEF Interruption
  <2>4. QED
    BY <1>0, <2>2, <2>3, ConstantsAssumption
    DEF LedgerGivesUp, AttemptInv
<1>29. ASSUME NEW k \in DOMAIN jobs, NEW s \in {"terminated", "error"},
                   NEW r \in {"none", "failed", "succeeded"}, NEW w \in BOOLEAN, JobEnds(k, s, r, w)
      PROVE  AttemptInv'
  BY <1>0, <1>29, ConstantsAssumption
  DEF JobEnds, disk, grid, StepInv, AttemptInv, Now, Batches, Batch, Attempts
<1>30. CASE RewriteReadme
  BY <1>0, <1>30, ConstantsAssumption
  DEF RewriteReadme, disk, grid, StepInv, AttemptInv, Now, Batches, Batch, Attempts
<1>31. QED
  BY <1>1, <1>2, <1>3, <1>4, <1>5, <1>6, <1>7, <1>8, <1>9, <1>10, <1>11, <1>12, <1>13,
      <1>14, <1>15, <1>16, <1>17, <1>18, <1>19, <1>20, <1>21, <1>22, <1>23, <1>24, <1>25,
      <1>26, <1>27, <1>28, <1>29, <1>30
  DEF Next, Controller, Failure, Node

\* Every table stays with the commit it is from.
LEMMA ContentPreserved ==
    ASSUME IInv, Next
    PROVE  ContentInv'
<1>0. /\ ledger \in [Batches -> Batch] /\ cur \in 1..LastBatch + 1
      /\ tables \in [Batches -> SUBSET Commits]
      /\ hub \in [manifest : SUBSET Batches, tables : [Batches -> SUBSET Commits]]
      /\ StepInv /\ ContentInv
  BY DEF IInv, TypeOK, LedgerTypeOK, GridTypeOK, DataTypeOK, ControlTypeOK
<1>1. ASSUME NEW c \in Commits, Start(c)
      PROVE  ContentInv'
  <2>1. CASE commit = c
    BY <1>0, <1>1, <2>1, ConstantsAssumption DEF Start, ContentInv,
        Accounted, cache, Commits, Batches
  <2>2. CASE commit # c
    <3>1. \A b \in Batches : ledger[b].state \in {"planned", "failed"}
      BY <1>0, <1>1, <2>2, ConstantsAssumption DEF Start, MigrationSafe, ContentInv, Commits
    <3>2. QED BY <1>0, <1>1, <3>1, ConstantsAssumption DEF Start, ContentInv,
        Accounted, cache, Commits, Batches
  <2>3. QED BY <2>1, <2>2
<1>2. CASE NextBatch
  BY <1>0, <1>2, ConstantsAssumption
  DEF NextBatch, disk, grid, StepInv, ContentInv, Accounted, cache, Now, Batches,
      Batch, Commits
<1>3. CASE Resume
  BY <1>0, <1>3, ConstantsAssumption
  DEF Resume, Active, disk, grid, StepInv, ContentInv, Accounted, cache, Now, Batches,
      Batch, Commits
<1>4. CASE Refuse
  BY <1>0, <1>4, ConstantsAssumption
  DEF Refuse, Stop, Active, disk, grid, StepInv, ContentInv, Accounted, cache, Now,
      Batches, Batch, Commits
<1>5. CASE BeginSubmit
  BY <1>0, <1>5, ConstantsAssumption
  DEF BeginSubmit, Record, disk, grid, StepInv, ContentInv, Accounted, cache, Now,
      Batches, Batch, Commits
<1>6. CASE StageBatch
  BY <1>0, <1>6, ConstantsAssumption
  DEF StageBatch, disk, grid, StepInv, ContentInv, Accounted, cache, Now, Batches,
      Batch, Commits
<1>7. CASE Oarsub
  BY <1>0, <1>7, ConstantsAssumption
  DEF Oarsub, disk, grid, StepInv, ContentInv, Accounted, cache, Now, Batches, Batch,
      Commits
<1>8. CASE RecordJob
  BY <1>0, <1>8, ConstantsAssumption
  DEF RecordJob, Record, disk, grid, StepInv, ContentInv, Accounted, cache, Now,
      Batches, Batch, Commits
<1>9. CASE Recheck
  BY <1>0, <1>9, ConstantsAssumption
  DEF Recheck, disk, grid, StepInv, ContentInv, Accounted, cache, Now, Batches, Batch,
      Commits
<1>10. CASE Poll
  BY <1>0, <1>10, ConstantsAssumption
  DEF Poll, disk, grid, StepInv, ContentInv, Accounted, cache, Now, Batches, Batch,
      Commits
<1>11. CASE Retrieve
  <2>1. /\ UNCHANGED <<ledger, commit, tables, salvaged, hub, cur>>
        /\ pc' \in {"install", "discard"} /\ received' = remote[JobRoot]
        /\ pc' = "install" => /\ received'.receipt = "succeeded"
                              /\ received'.commit = checkout
    BY <1>11, Zenon DEF Retrieve, ValidReceipt, disk, cache
  <2>2. checkout = commit /\ JobRoot \in Batches \X Attempts /\ JobRoot[1] = cur
    BY <1>0, <1>11 DEF Retrieve, StepInv, IInv, AttemptInv, JobRoot, Now
  <2>3. pc' = "install" => Accounted(received'.rows, cur)
    BY <2>1, <2>2 DEF IInv, CacheInv, Accounted
  <2>4. QED BY <1>0, <2>1, <2>3 DEF ContentInv, Accounted
<1>12. CASE MarkFailed
  BY <1>0, <1>12, ConstantsAssumption
  DEF MarkFailed, Record, ValidReceipt, disk, grid, StepInv, ContentInv,
      Accounted, cache, Now, Batches, Batch, Commits
<1>13. CASE InstallManifest
  BY <1>0, <1>13, ConstantsAssumption
  DEF InstallManifest, disk, grid, StepInv, ContentInv, Accounted, cache, Now,
      Batches, Batch, Commits
<1>14. CASE InstallTables
  BY <1>0, <1>14, ConstantsAssumption
  DEF InstallTables, disk, grid, StepInv, ContentInv, Accounted, cache, Now, Batches,
      Batch, Commits
<1>15. CASE Ready
  BY <1>0, <1>15, ConstantsAssumption
  DEF Ready, Record, disk, grid, StepInv, ContentInv, Accounted, cache, Now, Batches,
      Batch, Commits
<1>16. CASE BaselineChanged
  BY <1>0, <1>16, ConstantsAssumption
  DEF BaselineChanged, Stop, Record, disk, grid, StepInv, ContentInv,
      Accounted, cache, Now, Batches, Batch, Commits
<1>17. CASE Publish
  BY <1>0, <1>17, ConstantsAssumption
  DEF Publish, CommitBatch, disk, grid, StepInv, ContentInv, Accounted, cache, Now,
      Batches, Batch, Commits
<1>18. CASE RecordPublished
  BY <1>0, <1>18, ConstantsAssumption
  DEF RecordPublished, Record, disk, grid, StepInv, ContentInv, Accounted, cache, Now,
      Batches, Batch, Commits
<1>19. CASE CleanupRemoteJob
  BY <1>0, <1>19, ConstantsAssumption
  DEF CleanupRemoteJob, Stop, disk, grid, StepInv, ContentInv, Accounted, cache, Now,
      Batches, Batch, Commits
<1>20. CASE BeginFinalize
  BY <1>0, <1>20, ConstantsAssumption
  DEF BeginFinalize, Stop, disk, grid, StepInv, ContentInv, Accounted, cache, Now,
      Batches, Batch, Commits
<1>21. CASE Finalize
  BY <1>0, <1>21, ConstantsAssumption
  DEF Finalize, disk, grid, StepInv, ContentInv, Accounted, cache, Now, Batches,
      Batch, Commits
<1>22. CASE RecordCleanup
  BY <1>0, <1>22, ConstantsAssumption
  DEF RecordCleanup, Stop, disk, grid, StepInv, ContentInv, Accounted, cache, Now,
      Batches, Batch, Commits
<1>23. CASE RetrieveRaises
  BY <1>0, <1>23, ConstantsAssumption
  DEF RetrieveRaises, Stop, disk, grid, StepInv, ContentInv, Accounted, cache, Now,
      Batches, Batch, Commits
<1>24. CASE CleanupFails
  BY <1>0, <1>24, ConstantsAssumption
  DEF CleanupFails, Stop, disk, grid, StepInv, ContentInv, Accounted, cache, Now,
      Batches, Batch, Commits
<1>25. CASE Crash
  BY <1>0, <1>25, ConstantsAssumption
  DEF Crash, Stop, disk, grid, StepInv, ContentInv, Accounted, cache, Now, Batches,
      Batch, Commits
<1>26. ASSUME NEW t \in BOOLEAN, SubmissionFails(t)
      PROVE  ContentInv'
  <2>1. SubmissionFailure BY <1>26, SubmissionFailsCases, Zenon
  <2>2. LedgerGivesUp("failed") BY <2>1, LedgerAfterSubmissionFails
  <2>3. /\ pc' = "down" /\ cur' = 1 /\ checkout' = 0 /\ received' = NoDirectory
        /\ UNCHANGED <<commit, cleanup, manifest, tables, readme, checkpoints, salvaged, remote, hub>>
    BY <2>1 DEF SubmissionFailure
  <2>4. QED
    BY <1>0, <2>2, <2>3, ConstantsAssumption, ZenonT(40)
    DEF LedgerGivesUp, StepInv, ContentInv, Accounted, cache, Now, Batches, Batch, Commits
<1>27. ASSUME NEW t \in BOOLEAN, PublishFails(t)
      PROVE  ContentInv'
  <2>1. PublicationFailure BY <1>27, PublishFailsCases, Zenon
  <2>2. QED
    BY <1>0, <2>1, ConstantsAssumption
    DEF PublicationFailure, CommitBatch, StepInv, ContentInv, Accounted, cache, Now,
        Batches, Batch, Commits
<1>28. ASSUME NEW t \in BOOLEAN, Interrupt(t)
      PROVE  ContentInv'
  <2>1. Interruption BY <1>28, InterruptCases, Zenon
  <2>2. LedgerGivesUp("cancelled") BY <2>1, LedgerAfterInterrupt
  <2>3. /\ pc' = "down" /\ cur' = 1 /\ checkout' = 0 /\ received' = NoDirectory
        /\ UNCHANGED <<commit, cleanup, manifest, tables, readme, checkpoints, salvaged, remote, hub>>
    BY <2>1 DEF Interruption
  <2>4. QED
    BY <1>0, <2>2, <2>3, ConstantsAssumption, ZenonT(40)
    DEF LedgerGivesUp, StepInv, ContentInv, Accounted, cache, Now, Batches, Batch, Commits
<1>29. ASSUME NEW k \in DOMAIN jobs, NEW s \in {"terminated", "error"},
                   NEW r \in {"none", "failed", "succeeded"}, NEW w \in BOOLEAN, JobEnds(k, s, r, w)
      PROVE  ContentInv'
  BY <1>0, <1>29, ConstantsAssumption
  DEF JobEnds, disk, grid, StepInv, ContentInv, Accounted, cache, Now, Batches, Batch,
      Commits
<1>30. CASE RewriteReadme
  BY <1>0, <1>30, ConstantsAssumption
  DEF RewriteReadme, disk, grid, StepInv, ContentInv, Accounted, cache, Now, Batches,
      Batch, Commits
<1>31. QED
  BY <1>1, <1>2, <1>3, <1>4, <1>5, <1>6, <1>7, <1>8, <1>9, <1>10, <1>11, <1>12, <1>13,
      <1>14, <1>15, <1>16, <1>17, <1>18, <1>19, <1>20, <1>21, <1>22, <1>23, <1>24, <1>25,
      <1>26, <1>27, <1>28, <1>29, <1>30
  DEF Next, Controller, Failure, Node

\* The controller's position keeps its type.
LEMMA ControlTypePreserved ==
    ASSUME IInv, Next
    PROVE  ControlTypeOK'
<1>0. /\ ControlTypeOK
  BY DEF IInv, TypeOK, LedgerTypeOK, GridTypeOK, DataTypeOK, ControlTypeOK
<1>1. ASSUME NEW c \in Commits, Start(c)
      PROVE  ControlTypeOK'
  BY <1>0, <1>1, ConstantsAssumption
  DEF Start, MigrationSafe, AttemptsLeft, disk, grid, ControlTypeOK, Batches
<1>2. CASE NextBatch
  BY <1>0, <1>2, ConstantsAssumption
  DEF NextBatch, disk, grid, ControlTypeOK, Batches
<1>3. CASE Resume
  BY <1>0, <1>3, ConstantsAssumption
  DEF Resume, Active, disk, grid, ControlTypeOK, Batches
<1>4. CASE Refuse
  BY <1>0, <1>4, ConstantsAssumption
  DEF Refuse, Stop, Active, disk, grid, ControlTypeOK, Batches
<1>5. CASE BeginSubmit
  BY <1>0, <1>5, ConstantsAssumption
  DEF BeginSubmit, Record, disk, grid, ControlTypeOK, Batches
<1>6. CASE StageBatch
  BY <1>0, <1>6, ConstantsAssumption
  DEF StageBatch, disk, grid, ControlTypeOK, Batches
<1>7. CASE Oarsub
  BY <1>0, <1>7, ConstantsAssumption
  DEF Oarsub, disk, grid, ControlTypeOK, Batches
<1>8. CASE RecordJob
  BY <1>0, <1>8, ConstantsAssumption
  DEF RecordJob, Record, disk, grid, ControlTypeOK, Batches
<1>9. CASE Recheck
  BY <1>0, <1>9, ConstantsAssumption
  DEF Recheck, disk, grid, ControlTypeOK, Batches
<1>10. CASE Poll
  BY <1>0, <1>10, ConstantsAssumption
  DEF Poll, disk, grid, ControlTypeOK, Batches
<1>11. CASE Retrieve
  BY <1>0, <1>11, ConstantsAssumption
  DEF Retrieve, ValidReceipt, disk, grid, ControlTypeOK, Batches
<1>12. CASE MarkFailed
  BY <1>0, <1>12, ConstantsAssumption
  DEF MarkFailed, Record, ValidReceipt, disk, grid, ControlTypeOK, Batches
<1>13. CASE InstallManifest
  BY <1>0, <1>13, ConstantsAssumption
  DEF InstallManifest, disk, grid, ControlTypeOK, Batches
<1>14. CASE InstallTables
  BY <1>0, <1>14, ConstantsAssumption
  DEF InstallTables, disk, grid, ControlTypeOK, Batches
<1>15. CASE Ready
  BY <1>0, <1>15, ConstantsAssumption
  DEF Ready, Record, disk, grid, ControlTypeOK, Batches
<1>16. CASE BaselineChanged
  BY <1>0, <1>16, ConstantsAssumption
  DEF BaselineChanged, Stop, Record, disk, grid, ControlTypeOK, Batches
<1>17. CASE Publish
  BY <1>0, <1>17, ConstantsAssumption
  DEF Publish, CommitBatch, disk, grid, ControlTypeOK, Batches
<1>18. CASE RecordPublished
  BY <1>0, <1>18, ConstantsAssumption
  DEF RecordPublished, Record, disk, grid, ControlTypeOK, Batches
<1>19. CASE CleanupRemoteJob
  BY <1>0, <1>19, ConstantsAssumption
  DEF CleanupRemoteJob, Stop, disk, grid, ControlTypeOK, Batches
<1>20. CASE BeginFinalize
  BY <1>0, <1>20, ConstantsAssumption
  DEF BeginFinalize, Stop, disk, grid, ControlTypeOK, Batches
<1>21. CASE Finalize
  BY <1>0, <1>21, ConstantsAssumption
  DEF Finalize, disk, grid, ControlTypeOK, Batches
<1>22. CASE RecordCleanup
  BY <1>0, <1>22, ConstantsAssumption
  DEF RecordCleanup, Stop, disk, grid, ControlTypeOK, Batches
<1>23. CASE RetrieveRaises
  BY <1>0, <1>23, ConstantsAssumption
  DEF RetrieveRaises, Stop, disk, grid, ControlTypeOK, Batches
<1>24. CASE CleanupFails
  BY <1>0, <1>24, ConstantsAssumption
  DEF CleanupFails, Stop, disk, grid, ControlTypeOK, Batches
<1>25. CASE Crash
  BY <1>0, <1>25, ConstantsAssumption
  DEF Crash, Stop, disk, grid, ControlTypeOK, Batches
<1>26. ASSUME NEW t \in BOOLEAN, SubmissionFails(t)
      PROVE  ControlTypeOK'
  <2>1. SubmissionFailure BY <1>26, SubmissionFailsCases, Zenon
  <2>2. LedgerGivesUp("failed") BY <2>1, LedgerAfterSubmissionFails
  <2>3. /\ pc' = "down" /\ cur' = 1 /\ checkout' = 0 /\ received' = NoDirectory
        /\ UNCHANGED <<commit, cleanup, manifest, tables, readme, checkpoints, salvaged, remote, hub>>
    BY <2>1 DEF SubmissionFailure
  <2>4. QED
    BY <1>0, <2>2, <2>3, ConstantsAssumption
    DEF LedgerGivesUp, ControlTypeOK, Batches
<1>27. ASSUME NEW t \in BOOLEAN, PublishFails(t)
      PROVE  ControlTypeOK'
  <2>1. PublicationFailure BY <1>27, PublishFailsCases, Zenon
  <2>2. QED
    BY <1>0, <2>1, ConstantsAssumption
    DEF PublicationFailure, CommitBatch, ControlTypeOK, Batches
<1>28. ASSUME NEW t \in BOOLEAN, Interrupt(t)
      PROVE  ControlTypeOK'
  <2>1. Interruption BY <1>28, InterruptCases, Zenon
  <2>2. LedgerGivesUp("cancelled") BY <2>1, LedgerAfterInterrupt
  <2>3. /\ pc' = "down" /\ cur' = 1 /\ checkout' = 0 /\ received' = NoDirectory
        /\ UNCHANGED <<commit, cleanup, manifest, tables, readme, checkpoints, salvaged, remote, hub>>
    BY <2>1 DEF Interruption
  <2>4. QED
    BY <1>0, <2>2, <2>3, ConstantsAssumption
    DEF LedgerGivesUp, ControlTypeOK, Batches
<1>29. ASSUME NEW k \in DOMAIN jobs, NEW s \in {"terminated", "error"},
                   NEW r \in {"none", "failed", "succeeded"}, NEW w \in BOOLEAN, JobEnds(k, s, r, w)
      PROVE  ControlTypeOK'
  BY <1>0, <1>29, ConstantsAssumption
  DEF JobEnds, disk, grid, ControlTypeOK, Batches
<1>30. CASE RewriteReadme
  BY <1>0, <1>30, ConstantsAssumption
  DEF RewriteReadme, disk, grid, ControlTypeOK, Batches
<1>31. QED
  BY <1>1, <1>2, <1>3, <1>4, <1>5, <1>6, <1>7, <1>8, <1>9, <1>10, <1>11, <1>12, <1>13,
      <1>14, <1>15, <1>16, <1>17, <1>18, <1>19, <1>20, <1>21, <1>22, <1>23, <1>24, <1>25,
      <1>26, <1>27, <1>28, <1>29, <1>30
  DEF Next, Controller, Failure, Node

\* The ledger keeps its type, and a batch just submitted has no job on record.
LEMMA LedgerTypePreserved ==
    ASSUME IInv, Next
    PROVE  LedgerTypeOK'
<1>0. /\ ledger \in [Batches -> Batch] /\ cur \in 1..LastBatch + 1
      /\ LedgerTypeOK /\ jobs \in Seq(Job)
      /\ StepInv /\ AttemptInv
  BY DEF IInv, TypeOK, LedgerTypeOK, GridTypeOK, DataTypeOK, ControlTypeOK
<1>1. ASSUME NEW c \in Commits, Start(c)
      PROVE  LedgerTypeOK'
  BY <1>0, <1>1, ConstantsAssumption
  DEF Start, MigrationSafe, AttemptsLeft, disk, grid, LedgerTypeOK, StepInv, AttemptInv,
      Now, Batches, Batch, Attempts
<1>2. CASE NextBatch
  BY <1>0, <1>2, ConstantsAssumption
  DEF NextBatch, disk, grid, LedgerTypeOK, StepInv, AttemptInv, Now, Batches, Batch, Attempts
<1>3. CASE Resume
  BY <1>0, <1>3, ConstantsAssumption
  DEF Resume, Active, disk, grid, LedgerTypeOK, StepInv, AttemptInv, Now, Batches, Batch,
      Attempts
<1>4. CASE Refuse
  BY <1>0, <1>4, ConstantsAssumption
  DEF Refuse, Stop, Active, disk, grid, LedgerTypeOK, StepInv, AttemptInv, Now, Batches,
      Batch, Attempts
<1>5. CASE BeginSubmit
  BY <1>0, <1>5, ConstantsAssumption
  DEF BeginSubmit, Record, disk, grid, LedgerTypeOK, StepInv, AttemptInv, Now, Batches,
      Batch, Attempts
<1>6. CASE StageBatch
  BY <1>0, <1>6, ConstantsAssumption
  DEF StageBatch, disk, grid, LedgerTypeOK, StepInv, AttemptInv, Now, Batches, Batch, Attempts
<1>7. CASE Oarsub
  BY <1>0, <1>7, ConstantsAssumption
  DEF Oarsub, disk, grid, LedgerTypeOK, StepInv, AttemptInv, Now, Batches, Batch, Attempts
<1>8. CASE RecordJob
  <2>1. Len(jobs) \in Nat BY <1>0, LenProperties
  <2>2. QED
    BY <1>0, <1>8, ConstantsAssumption, <2>1, ZenonT(40)
    DEF RecordJob, Record, disk, grid, LedgerTypeOK, StepInv, AttemptInv, Now, Batches,
        Batch, Attempts
<1>9. CASE Recheck
  BY <1>0, <1>9, ConstantsAssumption
  DEF Recheck, disk, grid, LedgerTypeOK, StepInv, AttemptInv, Now, Batches, Batch, Attempts
<1>10. CASE Poll
  BY <1>0, <1>10, ConstantsAssumption
  DEF Poll, disk, grid, LedgerTypeOK, StepInv, AttemptInv, Now, Batches, Batch, Attempts
<1>11. CASE Retrieve
  BY <1>0, <1>11, ConstantsAssumption
  DEF Retrieve, ValidReceipt, disk, grid, LedgerTypeOK, StepInv, AttemptInv, Now, Batches,
      Batch, Attempts
<1>12. CASE MarkFailed
  BY <1>0, <1>12, ConstantsAssumption, ZenonT(40)
  DEF MarkFailed, Record, ValidReceipt, disk, grid, LedgerTypeOK, StepInv, AttemptInv, Now,
      Batches, Batch, Attempts
<1>13. CASE InstallManifest
  BY <1>0, <1>13, ConstantsAssumption
  DEF InstallManifest, disk, grid, LedgerTypeOK, StepInv, AttemptInv, Now, Batches, Batch,
      Attempts
<1>14. CASE InstallTables
  BY <1>0, <1>14, ConstantsAssumption
  DEF InstallTables, disk, grid, LedgerTypeOK, StepInv, AttemptInv, Now, Batches, Batch,
      Attempts
<1>15. CASE Ready
  BY <1>0, <1>15, ConstantsAssumption
  DEF Ready, Record, disk, grid, LedgerTypeOK, StepInv, AttemptInv, Now, Batches, Batch,
      Attempts
<1>16. CASE BaselineChanged
  BY <1>0, <1>16, ConstantsAssumption
  DEF BaselineChanged, Stop, Record, disk, grid, LedgerTypeOK, StepInv, AttemptInv, Now,
      Batches, Batch, Attempts
<1>17. CASE Publish
  BY <1>0, <1>17, ConstantsAssumption
  DEF Publish, CommitBatch, disk, grid, LedgerTypeOK, StepInv, AttemptInv, Now, Batches,
      Batch, Attempts
<1>18. CASE RecordPublished
  BY <1>0, <1>18, ConstantsAssumption
  DEF RecordPublished, Record, disk, grid, LedgerTypeOK, StepInv, AttemptInv, Now, Batches,
      Batch, Attempts
<1>19. CASE CleanupRemoteJob
  BY <1>0, <1>19, ConstantsAssumption
  DEF CleanupRemoteJob, Stop, disk, grid, LedgerTypeOK, StepInv, AttemptInv, Now, Batches,
      Batch, Attempts
<1>20. CASE BeginFinalize
  BY <1>0, <1>20, ConstantsAssumption
  DEF BeginFinalize, Stop, disk, grid, LedgerTypeOK, StepInv, AttemptInv, Now, Batches,
      Batch, Attempts
<1>21. CASE Finalize
  BY <1>0, <1>21, ConstantsAssumption
  DEF Finalize, disk, grid, LedgerTypeOK, StepInv, AttemptInv, Now, Batches, Batch, Attempts
<1>22. CASE RecordCleanup
  BY <1>0, <1>22, ConstantsAssumption
  DEF RecordCleanup, Stop, disk, grid, LedgerTypeOK, StepInv, AttemptInv, Now, Batches,
      Batch, Attempts
<1>23. CASE RetrieveRaises
  BY <1>0, <1>23, ConstantsAssumption
  DEF RetrieveRaises, Stop, disk, grid, LedgerTypeOK, StepInv, AttemptInv, Now, Batches,
      Batch, Attempts
<1>24. CASE CleanupFails
  BY <1>0, <1>24, ConstantsAssumption
  DEF CleanupFails, Stop, disk, grid, LedgerTypeOK, StepInv, AttemptInv, Now, Batches,
      Batch, Attempts
<1>25. CASE Crash
  BY <1>0, <1>25, ConstantsAssumption
  DEF Crash, Stop, disk, grid, LedgerTypeOK, StepInv, AttemptInv, Now, Batches, Batch, Attempts
<1>26. ASSUME NEW t \in BOOLEAN, SubmissionFails(t)
      PROVE  LedgerTypeOK'
  <2>1. SubmissionFailure BY <1>26, SubmissionFailsCases, Zenon
  <2>2. LedgerGivesUp("failed") BY <2>1, LedgerAfterSubmissionFails
  <2>3. /\ pc' = "down" /\ cur' = 1 /\ checkout' = 0 /\ received' = NoDirectory
        /\ UNCHANGED <<commit, cleanup, manifest, tables, readme, checkpoints, salvaged, remote, hub>>
    BY <2>1 DEF SubmissionFailure
  <2>4. QED
    BY <1>0, <2>2, <2>3, ConstantsAssumption
    DEF LedgerGivesUp, LedgerTypeOK, StepInv, AttemptInv, Now, Batches, Batch, Attempts
<1>27. ASSUME NEW t \in BOOLEAN, PublishFails(t)
      PROVE  LedgerTypeOK'
  <2>1. PublicationFailure BY <1>27, PublishFailsCases, Zenon
  <2>2. QED
    BY <1>0, <2>1, ConstantsAssumption
    DEF PublicationFailure, CommitBatch, LedgerTypeOK, StepInv, AttemptInv, Now, Batches,
        Batch, Attempts
<1>28. ASSUME NEW t \in BOOLEAN, Interrupt(t)
      PROVE  LedgerTypeOK'
  <2>1. Interruption BY <1>28, InterruptCases, Zenon
  <2>2. LedgerGivesUp("cancelled") BY <2>1, LedgerAfterInterrupt
  <2>3. /\ pc' = "down" /\ cur' = 1 /\ checkout' = 0 /\ received' = NoDirectory
        /\ UNCHANGED <<commit, cleanup, manifest, tables, readme, checkpoints, salvaged, remote, hub>>
    BY <2>1 DEF Interruption
  <2>4. QED
    BY <1>0, <2>2, <2>3, ConstantsAssumption
    DEF LedgerGivesUp, LedgerTypeOK, StepInv, AttemptInv, Now, Batches, Batch, Attempts
<1>29. ASSUME NEW k \in DOMAIN jobs, NEW s \in {"terminated", "error"},
                   NEW r \in {"none", "failed", "succeeded"}, NEW w \in BOOLEAN, JobEnds(k, s, r, w)
      PROVE  LedgerTypeOK'
  BY <1>0, <1>29, ConstantsAssumption
  DEF JobEnds, disk, grid, LedgerTypeOK, StepInv, AttemptInv, Now, Batches, Batch, Attempts
<1>30. CASE RewriteReadme
  BY <1>0, <1>30, ConstantsAssumption
  DEF RewriteReadme, disk, grid, LedgerTypeOK, StepInv, AttemptInv, Now, Batches, Batch,
      Attempts
<1>31. QED
  BY <1>1, <1>2, <1>3, <1>4, <1>5, <1>6, <1>7, <1>8, <1>9, <1>10, <1>11, <1>12, <1>13,
      <1>14, <1>15, <1>16, <1>17, <1>18, <1>19, <1>20, <1>21, <1>22, <1>23, <1>24, <1>25,
      <1>26, <1>27, <1>28, <1>29, <1>30
  DEF Next, Controller, Failure, Node

\* Tables, manifests and commits keep their types.
LEMMA DataTypePreserved ==
    ASSUME IInv, Next
    PROVE  DataTypeOK'
<1>0. /\ ledger \in [Batches -> Batch] /\ cur \in 1..LastBatch + 1
      /\ DataTypeOK /\ received \in Directory /\ StepInv
  BY DEF IInv, TypeOK, LedgerTypeOK, GridTypeOK, DataTypeOK, ControlTypeOK
<1>1. ASSUME NEW c \in Commits, Start(c)
      PROVE  DataTypeOK'
  BY <1>0, <1>1, ConstantsAssumption
  DEF Start, MigrationSafe, AttemptsLeft, disk, grid, DataTypeOK, StepInv, Directory,
      NoDirectory, Now, Batches, Commits
<1>2. CASE NextBatch
  BY <1>0, <1>2, ConstantsAssumption
  DEF NextBatch, disk, grid, DataTypeOK, StepInv, Directory, NoDirectory, Now, Batches, Commits
<1>3. CASE Resume
  BY <1>0, <1>3, ConstantsAssumption
  DEF Resume, Active, disk, grid, DataTypeOK, StepInv, Directory, NoDirectory, Now, Batches,
      Commits
<1>4. CASE Refuse
  BY <1>0, <1>4, ConstantsAssumption
  DEF Refuse, Stop, Active, disk, grid, DataTypeOK, StepInv, Directory, NoDirectory, Now,
      Batches, Commits
<1>5. CASE BeginSubmit
  BY <1>0, <1>5, ConstantsAssumption
  DEF BeginSubmit, Record, disk, grid, DataTypeOK, StepInv, Directory, NoDirectory, Now,
      Batches, Commits
<1>6. CASE StageBatch
  BY <1>0, <1>6, ConstantsAssumption
  DEF StageBatch, disk, grid, DataTypeOK, StepInv, Directory, NoDirectory, Now, Batches, Commits
<1>7. CASE Oarsub
  BY <1>0, <1>7, ConstantsAssumption
  DEF Oarsub, disk, grid, DataTypeOK, StepInv, Directory, NoDirectory, Now, Batches, Commits
<1>8. CASE RecordJob
  BY <1>0, <1>8, ConstantsAssumption
  DEF RecordJob, Record, disk, grid, DataTypeOK, StepInv, Directory, NoDirectory, Now,
      Batches, Commits
<1>9. CASE Recheck
  BY <1>0, <1>9, ConstantsAssumption
  DEF Recheck, disk, grid, DataTypeOK, StepInv, Directory, NoDirectory, Now, Batches, Commits
<1>10. CASE Poll
  BY <1>0, <1>10, ConstantsAssumption
  DEF Poll, disk, grid, DataTypeOK, StepInv, Directory, NoDirectory, Now, Batches, Commits
<1>11. CASE Retrieve
  BY <1>0, <1>11, ConstantsAssumption
  DEF Retrieve, ValidReceipt, disk, grid, DataTypeOK, StepInv, Directory, NoDirectory, Now,
      Batches, Commits
<1>12. CASE MarkFailed
  BY <1>0, <1>12, ConstantsAssumption
  DEF MarkFailed, Record, ValidReceipt, disk, grid, DataTypeOK, StepInv, Directory,
      NoDirectory, Now, Batches, Commits
<1>13. CASE InstallManifest
  BY <1>0, <1>13, ConstantsAssumption
  DEF InstallManifest, disk, grid, DataTypeOK, StepInv, Directory, NoDirectory, Now,
      Batches, Commits
<1>14. CASE InstallTables
  BY <1>0, <1>14, ConstantsAssumption
  DEF InstallTables, disk, grid, DataTypeOK, StepInv, Directory, NoDirectory, Now, Batches,
      Commits
<1>15. CASE Ready
  BY <1>0, <1>15, ConstantsAssumption
  DEF Ready, Record, disk, grid, DataTypeOK, StepInv, Directory, NoDirectory, Now, Batches,
      Commits
<1>16. CASE BaselineChanged
  BY <1>0, <1>16, ConstantsAssumption
  DEF BaselineChanged, Stop, Record, disk, grid, DataTypeOK, StepInv, Directory,
      NoDirectory, Now, Batches, Commits
<1>17. CASE Publish
  BY <1>0, <1>17, ConstantsAssumption
  DEF Publish, CommitBatch, disk, grid, DataTypeOK, StepInv, Directory, NoDirectory, Now,
      Batches, Commits
<1>18. CASE RecordPublished
  BY <1>0, <1>18, ConstantsAssumption
  DEF RecordPublished, Record, disk, grid, DataTypeOK, StepInv, Directory, NoDirectory, Now,
      Batches, Commits
<1>19. CASE CleanupRemoteJob
  BY <1>0, <1>19, ConstantsAssumption, SMTT(20)
  DEF CleanupRemoteJob, Stop, disk, grid, DataTypeOK, StepInv, Directory, NoDirectory, Now,
      Batches, Commits
<1>20. CASE BeginFinalize
  BY <1>0, <1>20, ConstantsAssumption
  DEF BeginFinalize, Stop, disk, grid, DataTypeOK, StepInv, Directory, NoDirectory, Now,
      Batches, Commits
<1>21. CASE Finalize
  BY <1>0, <1>21, ConstantsAssumption
  DEF Finalize, disk, grid, DataTypeOK, StepInv, Directory, NoDirectory, Now, Batches, Commits
<1>22. CASE RecordCleanup
  BY <1>0, <1>22, ConstantsAssumption
  DEF RecordCleanup, Stop, disk, grid, DataTypeOK, StepInv, Directory, NoDirectory, Now,
      Batches, Commits
<1>23. CASE RetrieveRaises
  BY <1>0, <1>23, ConstantsAssumption, SMTT(20)
  DEF RetrieveRaises, Stop, disk, grid, DataTypeOK, StepInv, Directory, NoDirectory, Now,
      Batches, Commits
<1>24. CASE CleanupFails
  BY <1>0, <1>24, ConstantsAssumption, SMTT(20)
  DEF CleanupFails, Stop, disk, grid, DataTypeOK, StepInv, Directory, NoDirectory, Now,
      Batches, Commits
<1>25. CASE Crash
  BY <1>0, <1>25, ConstantsAssumption
  DEF Crash, Stop, disk, grid, DataTypeOK, StepInv, Directory, NoDirectory, Now, Batches,
      Commits
<1>26. ASSUME NEW t \in BOOLEAN, SubmissionFails(t)
      PROVE  DataTypeOK'
  <2>1. SubmissionFailure BY <1>26, SubmissionFailsCases, Zenon
  <2>2. LedgerGivesUp("failed") BY <2>1, LedgerAfterSubmissionFails
  <2>3. /\ pc' = "down" /\ cur' = 1 /\ checkout' = 0 /\ received' = NoDirectory
        /\ UNCHANGED <<commit, cleanup, manifest, tables, readme, checkpoints, salvaged, remote, hub>>
    BY <2>1 DEF SubmissionFailure
  <2>4. QED
    BY <1>0, <2>2, <2>3, ConstantsAssumption
    DEF LedgerGivesUp, DataTypeOK, StepInv, Directory, NoDirectory, Now, Batches, Commits
<1>27. ASSUME NEW t \in BOOLEAN, PublishFails(t)
      PROVE  DataTypeOK'
  <2>1. PublicationFailure BY <1>27, PublishFailsCases, Zenon
  <2>2. CASE hub' = hub
    BY <1>0, <2>1, <2>2, ConstantsAssumption DEF PublicationFailure, DataTypeOK
  <2>3. CASE pc = "publish" /\ CommitBatch
    BY <1>0, <2>1, <2>3, ConstantsAssumption
    DEF PublicationFailure, CommitBatch, DataTypeOK, StepInv
  <2>4. QED BY <2>1, <2>2, <2>3 DEF PublicationFailure
<1>28. ASSUME NEW t \in BOOLEAN, Interrupt(t)
      PROVE  DataTypeOK'
  <2>1. Interruption BY <1>28, InterruptCases, Zenon
  <2>2. LedgerGivesUp("cancelled") BY <2>1, LedgerAfterInterrupt
  <2>3. /\ pc' = "down" /\ cur' = 1 /\ checkout' = 0 /\ received' = NoDirectory
        /\ UNCHANGED <<commit, cleanup, manifest, tables, readme, checkpoints, salvaged, remote, hub>>
    BY <2>1 DEF Interruption
  <2>4. QED
    BY <1>0, <2>2, <2>3, ConstantsAssumption
    DEF LedgerGivesUp, DataTypeOK, StepInv, Directory, NoDirectory, Now, Batches, Commits
<1>29. ASSUME NEW k \in DOMAIN jobs, NEW s \in {"terminated", "error"},
                   NEW r \in {"none", "failed", "succeeded"}, NEW w \in BOOLEAN, JobEnds(k, s, r, w)
      PROVE  DataTypeOK'
  BY <1>0, <1>29, ConstantsAssumption
  DEF JobEnds, disk, grid, DataTypeOK, StepInv, Directory, NoDirectory, Now, Batches, Commits
<1>30. CASE RewriteReadme
  BY <1>0, <1>30, ConstantsAssumption
  DEF RewriteReadme, disk, grid, DataTypeOK, StepInv, Directory, NoDirectory, Now, Batches,
      Commits
<1>31. QED
  BY <1>1, <1>2, <1>3, <1>4, <1>5, <1>6, <1>7, <1>8, <1>9, <1>10, <1>11, <1>12, <1>13,
      <1>14, <1>15, <1>16, <1>17, <1>18, <1>19, <1>20, <1>21, <1>22, <1>23, <1>24, <1>25,
      <1>26, <1>27, <1>28, <1>29, <1>30
  DEF Next, Controller, Failure, Node

\* Jobs and directories keep their types.
LEMMA GridTypePreserved ==
    ASSUME IInv, Next
    PROVE  GridTypeOK'
<1>0. /\ ledger \in [Batches -> Batch] /\ cur \in 1..LastBatch + 1
      /\ jobs \in Seq(Job)
      /\ GridTypeOK /\ DataTypeOK /\ StepInv /\ AttemptInv /\ JobInv
  BY DEF IInv, TypeOK, LedgerTypeOK, GridTypeOK, DataTypeOK, ControlTypeOK
<1>1. ASSUME NEW c \in Commits, Start(c)
      PROVE  GridTypeOK'
  BY <1>0, <1>1, ConstantsAssumption
  DEF Start, MigrationSafe, AttemptsLeft, disk, grid, GridTypeOK, DataTypeOK, StepInv,
      AttemptInv, NoDirectory, Directory, JobRoot, Now, Batches, Batch, Attempts, Job
<1>2. CASE NextBatch
  BY <1>0, <1>2, ConstantsAssumption
  DEF NextBatch, disk, grid, GridTypeOK, DataTypeOK, StepInv, AttemptInv, NoDirectory,
      Directory, JobRoot, Now, Batches, Batch, Attempts, Job
<1>3. CASE Resume
  BY <1>0, <1>3, ConstantsAssumption
  DEF Resume, Active, disk, grid, GridTypeOK, DataTypeOK, StepInv, AttemptInv, NoDirectory,
      Directory, JobRoot, Now, Batches, Batch, Attempts, Job
<1>4. CASE Refuse
  BY <1>0, <1>4, ConstantsAssumption
  DEF Refuse, Stop, Active, disk, grid, GridTypeOK, DataTypeOK, StepInv, AttemptInv,
      NoDirectory, Directory, JobRoot, Now, Batches, Batch, Attempts, Job
<1>5. CASE BeginSubmit
  BY <1>0, <1>5, ConstantsAssumption
  DEF BeginSubmit, Record, disk, grid, GridTypeOK, DataTypeOK, StepInv, AttemptInv,
      NoDirectory, Directory, JobRoot, Now, Batches, Batch, Attempts, Job
<1>6. CASE StageBatch
  <2>1. checkpoints[cur] \in SUBSET Commits
    BY <1>0, <1>6 DEF IInv, TypeOK, CacheTypeOK, StageBatch, StepInv
  <2>2. QED BY <1>0, <1>6, <2>1, ConstantsAssumption
  DEF StageBatch, disk, grid, GridTypeOK, DataTypeOK, StepInv, AttemptInv, NoDirectory,
      Directory, JobRoot, Now, Batches, Batch, Attempts, Job
<1>7. CASE Oarsub
  <2>1. [batch |-> cur, attempt |-> Now.attempt, state |-> "active"] \in Job
    BY <1>0, <1>7 DEF Oarsub, StepInv, AttemptInv, Now, Batch, Job
  <2>2. jobs' \in Seq(Job) BY <1>0, <1>7, <2>1, AppendProperties DEF Oarsub
  <2>3. QED BY <1>0, <1>7, <2>2 DEF Oarsub, GridTypeOK
<1>8. CASE RecordJob
  BY <1>0, <1>8, ConstantsAssumption
  DEF RecordJob, Record, disk, grid, GridTypeOK, DataTypeOK, StepInv, AttemptInv,
      NoDirectory, Directory, JobRoot, Now, Batches, Batch, Attempts, Job
<1>9. CASE Recheck
  BY <1>0, <1>9, ConstantsAssumption
  DEF Recheck, disk, grid, GridTypeOK, DataTypeOK, StepInv, AttemptInv, NoDirectory,
      Directory, JobRoot, Now, Batches, Batch, Attempts, Job
<1>10. CASE Poll
  BY <1>0, <1>10, ConstantsAssumption
  DEF Poll, disk, grid, GridTypeOK, DataTypeOK, StepInv, AttemptInv, NoDirectory, Directory,
      JobRoot, Now, Batches, Batch, Attempts, Job
<1>11. CASE Retrieve
  BY <1>0, <1>11, ConstantsAssumption
  DEF Retrieve, ValidReceipt, disk, grid, GridTypeOK, DataTypeOK, StepInv, AttemptInv,
      NoDirectory, Directory, JobRoot, Now, Batches, Batch, Attempts, Job
<1>12. CASE MarkFailed
  BY <1>0, <1>12, ConstantsAssumption
  DEF MarkFailed, Record, ValidReceipt, disk, grid, GridTypeOK, DataTypeOK, StepInv,
      AttemptInv, NoDirectory, Directory, JobRoot, Now, Batches, Batch, Attempts, Job
<1>13. CASE InstallManifest
  BY <1>0, <1>13, ConstantsAssumption
  DEF InstallManifest, disk, grid, GridTypeOK, DataTypeOK, StepInv, AttemptInv, NoDirectory,
      Directory, JobRoot, Now, Batches, Batch, Attempts, Job
<1>14. CASE InstallTables
  BY <1>0, <1>14, ConstantsAssumption
  DEF InstallTables, disk, grid, GridTypeOK, DataTypeOK, StepInv, AttemptInv, NoDirectory,
      Directory, JobRoot, Now, Batches, Batch, Attempts, Job
<1>15. CASE Ready
  BY <1>0, <1>15, ConstantsAssumption
  DEF Ready, Record, disk, grid, GridTypeOK, DataTypeOK, StepInv, AttemptInv, NoDirectory,
      Directory, JobRoot, Now, Batches, Batch, Attempts, Job
<1>16. CASE BaselineChanged
  BY <1>0, <1>16, ConstantsAssumption
  DEF BaselineChanged, Stop, Record, disk, grid, GridTypeOK, DataTypeOK, StepInv,
      AttemptInv, NoDirectory, Directory, JobRoot, Now, Batches, Batch, Attempts, Job
<1>17. CASE Publish
  BY <1>0, <1>17, ConstantsAssumption
  DEF Publish, CommitBatch, disk, grid, GridTypeOK, DataTypeOK, StepInv, AttemptInv,
      NoDirectory, Directory, JobRoot, Now, Batches, Batch, Attempts, Job
<1>18. CASE RecordPublished
  BY <1>0, <1>18, ConstantsAssumption
  DEF RecordPublished, Record, disk, grid, GridTypeOK, DataTypeOK, StepInv, AttemptInv,
      NoDirectory, Directory, JobRoot, Now, Batches, Batch, Attempts, Job
<1>19. CASE CleanupRemoteJob
  <2>1. JobRoot \in Batches \X Attempts
    BY <1>0, <1>19 DEF CleanupRemoteJob, StepInv, AttemptInv, JobRoot, Now
  <2>2. NoDirectory \in Directory BY ConstantsAssumption DEF NoDirectory, Directory
  <2>3. received' \in Directory
    <3>1. CASE Now.state = "published" BY <1>0, <1>19, <3>1 DEF CleanupRemoteJob, GridTypeOK
    <3>2. CASE Now.state # "published" BY <1>19, <2>2, <3>2 DEF CleanupRemoteJob, Stop
    <3>3. QED BY <3>1, <3>2
  <2>4. QED BY <1>0, <1>19, <2>1, <2>2, <2>3 DEF CleanupRemoteJob, GridTypeOK
<1>20. CASE BeginFinalize
  <2>1. NoDirectory \in Directory BY ConstantsAssumption DEF NoDirectory, Directory
  <2>2. CASE cleanup = TRUE BY <1>0, <1>20, <2>1, <2>2 DEF BeginFinalize, Stop, GridTypeOK, grid
  <2>3. CASE cleanup = FALSE BY <1>0, <1>20, <2>3 DEF BeginFinalize, GridTypeOK, grid
  <2>4. QED BY <1>0, <2>2, <2>3 DEF DataTypeOK
<1>21. CASE Finalize
  BY <1>0, <1>21, ConstantsAssumption
  DEF Finalize, disk, grid, GridTypeOK, DataTypeOK, StepInv, AttemptInv, NoDirectory,
      Directory, JobRoot, Now, Batches, Batch, Attempts, Job
<1>22. CASE RecordCleanup
  BY <1>0, <1>22, ConstantsAssumption
  DEF RecordCleanup, Stop, disk, grid, GridTypeOK, DataTypeOK, StepInv, AttemptInv,
      NoDirectory, Directory, JobRoot, Now, Batches, Batch, Attempts, Job
<1>23. CASE RetrieveRaises
  BY <1>0, <1>23, ConstantsAssumption
  DEF RetrieveRaises, Stop, disk, grid, GridTypeOK, DataTypeOK, StepInv, AttemptInv,
      NoDirectory, Directory, JobRoot, Now, Batches, Batch, Attempts, Job
<1>24. CASE CleanupFails
  BY <1>0, <1>24, ConstantsAssumption
  DEF CleanupFails, Stop, disk, grid, GridTypeOK, DataTypeOK, StepInv, AttemptInv,
      NoDirectory, Directory, JobRoot, Now, Batches, Batch, Attempts, Job
<1>25. CASE Crash
  BY <1>0, <1>25, ConstantsAssumption
  DEF Crash, Stop, disk, grid, GridTypeOK, DataTypeOK, StepInv, AttemptInv, NoDirectory,
      Directory, JobRoot, Now, Batches, Batch, Attempts, Job
<1>26. ASSUME NEW t \in BOOLEAN, SubmissionFails(t)
      PROVE  GridTypeOK'
  <2>1. SubmissionFailure BY <1>26, SubmissionFailsCases, Zenon
  <2>2. LedgerGivesUp("failed") BY <2>1, LedgerAfterSubmissionFails
  <2>3. /\ pc' = "down" /\ cur' = 1 /\ checkout' = 0 /\ received' = NoDirectory
        /\ UNCHANGED <<commit, cleanup, manifest, tables, readme, checkpoints, salvaged, remote, hub>>
    BY <2>1 DEF SubmissionFailure
  <2>4. JobsKept BY <1>0, <2>1, JobsUnchanged DEF SubmissionFailure
  <2>5. QED
    BY <1>0, <2>2, <2>3, <2>4, ConstantsAssumption
    DEF LedgerGivesUp, JobsKept, GridTypeOK, DataTypeOK, StepInv, AttemptInv, NoDirectory,
        Directory, JobRoot, Now, Batches, Batch, Attempts, Job
<1>27. ASSUME NEW t \in BOOLEAN, PublishFails(t)
      PROVE  GridTypeOK'
  <2>1. PublicationFailure BY <1>27, PublishFailsCases, Zenon
  <2>2. QED
    BY <1>0, <2>1, ConstantsAssumption
    DEF PublicationFailure, CommitBatch, GridTypeOK, DataTypeOK, StepInv, AttemptInv,
        NoDirectory, Directory, JobRoot, Now, Batches, Batch, Attempts, Job
<1>28. ASSUME NEW t \in BOOLEAN, Interrupt(t)
      PROVE  GridTypeOK'
  <2>1. Interruption BY <1>28, InterruptCases, Zenon
  <2>2. LedgerGivesUp("cancelled") BY <2>1, LedgerAfterInterrupt
  <2>3. /\ pc' = "down" /\ cur' = 1 /\ checkout' = 0 /\ received' = NoDirectory
        /\ UNCHANGED <<commit, cleanup, manifest, tables, readme, checkpoints, salvaged, remote, hub>>
    BY <2>1 DEF Interruption
  <2>4. JobsKept BY <2>1, InterruptKeepsJobs
  <2>5. QED
    BY <1>0, <2>2, <2>3, <2>4, ConstantsAssumption
    DEF LedgerGivesUp, JobsKept, GridTypeOK, DataTypeOK, StepInv, AttemptInv, NoDirectory,
        Directory, JobRoot, Now, Batches, Batch, Attempts, Job
<1>29. ASSUME NEW k \in DOMAIN jobs, NEW s \in {"terminated", "error"},
                   NEW r \in {"none", "failed", "succeeded"}, NEW w \in BOOLEAN, JobEnds(k, s, r, w)
      PROVE  GridTypeOK'
  <2>1. /\ JobsKept /\ DirectoriesKept /\ jobs[k].state = "active"
        /\ \A d \in Batches \X Attempts :
               d # <<jobs[k].batch, jobs[k].attempt>> => remote'[d] = remote[d]
        /\ UNCHANGED <<ledger, commit, cleanup, manifest, tables, readme, checkpoints, salvaged, hub, checkout, pc,
                       cur, received>>
    BY <1>29, JobEndsKeeps
  <2>2. QED
    BY <1>0, <2>1, ConstantsAssumption
    DEF JobsKept, DirectoriesKept, GridTypeOK, DataTypeOK, StepInv, AttemptInv,
        NoDirectory, Directory, JobRoot, Now, Batches, Batch, Attempts, Job
<1>30. CASE RewriteReadme
  BY <1>0, <1>30, ConstantsAssumption
  DEF RewriteReadme, disk, grid, GridTypeOK, DataTypeOK, StepInv, AttemptInv, NoDirectory,
      Directory, JobRoot, Now, Batches, Batch, Attempts, Job
<1>31. QED
  BY <1>1, <1>2, <1>3, <1>4, <1>5, <1>6, <1>7, <1>8, <1>9, <1>10, <1>11, <1>12, <1>13,
      <1>14, <1>15, <1>16, <1>17, <1>18, <1>19, <1>20, <1>21, <1>22, <1>23, <1>24, <1>25,
      <1>26, <1>27, <1>28, <1>29, <1>30
  DEF Next, Controller, Failure, Node

\* Attempts, jobs and directories stay together.
LEMMA JobPreserved ==
    ASSUME IInv, Next
    PROVE  JobInv'
<1>0. /\ ledger \in [Batches -> Batch] /\ cur \in 1..LastBatch + 1
      /\ remote \in [Batches \X Attempts -> Directory] /\ jobs \in Seq(Job)
      /\ StepInv /\ AttemptInv /\ JobInv
  BY DEF IInv, TypeOK, LedgerTypeOK, GridTypeOK, DataTypeOK, ControlTypeOK
<1>1. ASSUME NEW c \in Commits, Start(c)
      PROVE  JobInv'
  BY <1>0, <1>1, ConstantsAssumption
  DEF Start, MigrationSafe, AttemptsLeft, disk, grid, StepInv, AttemptInv, JobInv,
      RunningIsReal, NoDirectory, Directory, JobRoot, Now, Batches, Batch, Attempts, Job
<1>2. CASE NextBatch
  BY <1>0, <1>2, ConstantsAssumption
  DEF NextBatch, disk, grid, StepInv, AttemptInv, JobInv, RunningIsReal, NoDirectory,
      Directory, JobRoot, Now, Batches, Batch, Attempts, Job
<1>3. CASE Resume
  BY <1>0, <1>3, ConstantsAssumption
  DEF Resume, Active, disk, grid, StepInv, AttemptInv, JobInv, RunningIsReal, NoDirectory,
      Directory, JobRoot, Now, Batches, Batch, Attempts, Job
<1>4. CASE Refuse
  BY <1>0, <1>4, ConstantsAssumption
  DEF Refuse, Stop, Active, disk, grid, StepInv, AttemptInv, JobInv, RunningIsReal,
      NoDirectory, Directory, JobRoot, Now, Batches, Batch, Attempts, Job
<1>5. CASE BeginSubmit
  <2>1. /\ cur \in Batches /\ cur' = cur /\ pc' = "stage" /\ jobs' = jobs /\ remote' = remote
        /\ ledger'[cur].state = "submitted"
        /\ ledger'[cur].attempt = ledger[cur].attempt + 1
        /\ \A b \in Batches : b # cur => ledger'[b] = ledger[b]
        /\ \A b \in Batches : ledger[b].attempt \in Nat
    BY <1>0, <1>5, ConstantsAssumption DEF BeginSubmit, Record, Now, Batches, Batch, grid
  <2>2. \A j \in DOMAIN jobs : jobs[j].batch \in Batches /\ jobs[j].attempt \in Nat
    <3>1. \A j \in DOMAIN jobs : jobs[j] \in Job BY <1>0
    <3>2. QED BY <3>1 DEF Job, Attempts
  <2>3. \A j \in DOMAIN jobs :
            /\ jobs[j].attempt <= ledger'[jobs[j].batch].attempt
            /\ jobs[j].batch = cur => jobs[j].attempt < ledger'[cur].attempt
    <3>. TAKE j \in DOMAIN jobs
    <3>1. jobs[j].attempt <= ledger[jobs[j].batch].attempt BY <1>0 DEF JobInv
    <3>2. CASE jobs[j].batch = cur BY <2>1, <2>2, <3>1, <3>2
    <3>3. CASE jobs[j].batch # cur BY <2>1, <2>2, <3>1, <3>3
    <3>4. QED BY <3>2, <3>3
  <2>4. RunningIsReal' BY <1>0, <2>1 DEF JobInv, RunningIsReal
  <2>5. QED BY <1>0, <2>1, <2>3, <2>4 DEF JobInv, Now, JobRoot
<1>6. CASE StageBatch
  BY <1>0, <1>6, ConstantsAssumption
  DEF StageBatch, disk, grid, StepInv, AttemptInv, JobInv, RunningIsReal, NoDirectory,
      Directory, JobRoot, Now, Batches, Batch, Attempts, Job
<1>7. CASE Oarsub
  <2>. DEFINE new == [batch |-> cur, attempt |-> Now.attempt, state |-> "active"]
  <2>1. /\ cur \in Batches /\ cur' = cur /\ pc = "oarsub" /\ pc' = "record"
        /\ UNCHANGED <<ledger, remote>> /\ jobs' = Append(jobs, new)
    BY <1>0, <1>7 DEF Oarsub, StepInv, disk
  <2>2. new \in Job BY <1>0, <2>1 DEF StepInv, AttemptInv, Now, Job
  <2>3. /\ Len(jobs') = Len(jobs) + 1 /\ Len(jobs) \in Nat
        /\ DOMAIN jobs = 1..Len(jobs) /\ DOMAIN jobs' = 1..Len(jobs) + 1
        /\ \A j \in DOMAIN jobs : jobs'[j] = jobs[j]
        /\ jobs'[Len(jobs) + 1] = new
    BY <1>0, <2>1, <2>2, AppendProperties, LenProperties
  <2>4. \A j \in DOMAIN jobs' : j \in DOMAIN jobs \/ j = Len(jobs) + 1 BY <2>3
  <2>5. ledger[cur].attempt \in Nat /\ \A j \in DOMAIN jobs : jobs[j].attempt \in Nat
    <3>1. \A j \in DOMAIN jobs : jobs[j] \in Job BY <1>0
    <3>2. QED BY <1>0, <2>1, <3>1 DEF Job, Attempts, Batch
  <2>6. \A j \in DOMAIN jobs : jobs[j].batch = cur => jobs[j].attempt < ledger[cur].attempt
    BY <1>0, <2>1 DEF JobInv, Now
  <2>7. /\ \A j \in DOMAIN jobs' : jobs'[j].attempt <= ledger[jobs'[j].batch].attempt
        /\ \A i, j \in DOMAIN jobs' :
               jobs'[i].batch = jobs'[j].batch /\ jobs'[i].attempt = jobs'[j].attempt => i = j
    BY <1>0, <2>3, <2>4, <2>5, <2>6, SMTT(20) DEF JobInv, Now
  <2>8. RunningIsReal' BY <1>0, <2>1, <2>3, <2>4 DEF JobInv, RunningIsReal
  <2>9. remote'[<<cur', ledger'[cur'].attempt>>].present
    BY <1>0, <2>1 DEF JobInv, Now, JobRoot
  <2>10. /\ Len(jobs') \in DOMAIN jobs' /\ jobs'[Len(jobs')].batch = cur'
         /\ jobs'[Len(jobs')].attempt = ledger'[cur'].attempt
    BY <2>1, <2>3 DEF Now
  <2>11. \A d \in Batches \X Attempts : ~remote'[d].present => remote'[d] = NoDirectory
    BY <1>0, <2>1 DEF JobInv
  <2>12. QED BY <2>1, <2>7, <2>8, <2>9, <2>10, <2>11 DEF JobInv, Now, JobRoot
<1>8. CASE RecordJob
  <2>1. /\ cur \in Batches /\ cur' = cur /\ pc = "record" /\ pc' = "recheck"
        /\ UNCHANGED <<remote, jobs>>
        /\ ledger'[cur].job = Len(jobs) /\ ledger'[cur].attempt = ledger[cur].attempt
        /\ \A b \in Batches : b # cur => ledger'[b] = ledger[b]
    BY <1>0, <1>8 DEF RecordJob, Record, StepInv, Now, Batch, grid
  <2>2. \A j \in DOMAIN jobs : jobs[j].attempt <= ledger'[jobs[j].batch].attempt
    <3>1. \A j \in DOMAIN jobs : jobs[j].batch \in Batches 
      <4>1. \A j \in DOMAIN jobs : jobs[j] \in Job BY <1>0
      <4>2. QED BY <4>1 DEF Job
    <3>2. QED BY <1>0, <2>1, <3>1 DEF JobInv
  <2>3. RunningIsReal' BY <1>0, <2>1, SMTT(20) DEF JobInv, RunningIsReal, JobRoot, Now
  <2>4. QED BY <1>0, <2>1, <2>2, <2>3 DEF JobInv
<1>9. CASE Recheck
  BY <1>0, <1>9, ConstantsAssumption
  DEF Recheck, disk, grid, StepInv, AttemptInv, JobInv, RunningIsReal, NoDirectory,
      Directory, JobRoot, Now, Batches, Batch, Attempts, Job
<1>10. CASE Poll
  BY <1>0, <1>10, ConstantsAssumption
  DEF Poll, disk, grid, StepInv, AttemptInv, JobInv, RunningIsReal, NoDirectory, Directory,
      JobRoot, Now, Batches, Batch, Attempts, Job
<1>11. CASE Retrieve
  BY <1>0, <1>11, ConstantsAssumption
  DEF Retrieve, ValidReceipt, disk, grid, StepInv, AttemptInv, JobInv, RunningIsReal,
      NoDirectory, Directory, JobRoot, Now, Batches, Batch, Attempts, Job
<1>12. CASE MarkFailed
  <2>1. LedgerKeepsJobs
    BY <1>0, <1>12 DEF MarkFailed, Record, LedgerKeepsJobs, StepInv, Now, Batch
  <2>2. JobsKept /\ DirectoriesKept BY <1>12, GridUnchanged DEF MarkFailed
  <2>3. QED BY <1>12, <2>1, <2>2, JobInvKept DEF MarkFailed
<1>13. CASE InstallManifest
  BY <1>0, <1>13, ConstantsAssumption
  DEF InstallManifest, disk, grid, StepInv, AttemptInv, JobInv, RunningIsReal, NoDirectory,
      Directory, JobRoot, Now, Batches, Batch, Attempts, Job
<1>14. CASE InstallTables
  BY <1>0, <1>14, ConstantsAssumption
  DEF InstallTables, disk, grid, StepInv, AttemptInv, JobInv, RunningIsReal, NoDirectory,
      Directory, JobRoot, Now, Batches, Batch, Attempts, Job
<1>15. CASE Ready
  <2>1. LedgerKeepsJobs
    BY <1>0, <1>15 DEF Ready, Record, LedgerKeepsJobs, StepInv, Now, Batch
  <2>2. JobsKept /\ DirectoriesKept BY <1>15, GridUnchanged DEF Ready
  <2>3. QED BY <1>15, <2>1, <2>2, JobInvKept DEF Ready
<1>16. CASE BaselineChanged
  <2>1. LedgerKeepsJobs
    BY <1>0, <1>16 DEF BaselineChanged, Record, Stop, LedgerKeepsJobs, StepInv, Now, Batch
  <2>2. JobsKept /\ DirectoriesKept BY <1>16, GridUnchanged DEF BaselineChanged
  <2>3. QED BY <1>16, <2>1, <2>2, JobInvKept DEF BaselineChanged, Stop
<1>17. CASE Publish
  BY <1>0, <1>17, ConstantsAssumption
  DEF Publish, CommitBatch, disk, grid, StepInv, AttemptInv, JobInv, RunningIsReal,
      NoDirectory, Directory, JobRoot, Now, Batches, Batch, Attempts, Job
<1>18. CASE RecordPublished
  <2>1. LedgerKeepsJobs
    BY <1>0, <1>18 DEF RecordPublished, Record, LedgerKeepsJobs, StepInv, Now, Batch
  <2>2. JobsKept /\ DirectoriesKept BY <1>18, GridUnchanged DEF RecordPublished
  <2>3. QED BY <1>18, <2>1, <2>2, JobInvKept DEF RecordPublished
<1>19. CASE CleanupRemoteJob
  BY <1>0, <1>19, ConstantsAssumption
  DEF CleanupRemoteJob, Stop, disk, grid, StepInv, AttemptInv, JobInv, RunningIsReal,
      NoDirectory, Directory, JobRoot, Now, Batches, Batch, Attempts, Job
<1>20. CASE BeginFinalize
  BY <1>0, <1>20, ConstantsAssumption
  DEF BeginFinalize, Stop, disk, grid, StepInv, AttemptInv, JobInv, RunningIsReal,
      NoDirectory, Directory, JobRoot, Now, Batches, Batch, Attempts, Job
<1>21. CASE Finalize
  BY <1>0, <1>21, ConstantsAssumption
  DEF Finalize, disk, grid, StepInv, AttemptInv, JobInv, RunningIsReal, NoDirectory,
      Directory, JobRoot, Now, Batches, Batch, Attempts, Job
<1>22. CASE RecordCleanup
  BY <1>0, <1>22, ConstantsAssumption
  DEF RecordCleanup, Stop, disk, grid, StepInv, AttemptInv, JobInv, RunningIsReal,
      NoDirectory, Directory, JobRoot, Now, Batches, Batch, Attempts, Job
<1>23. CASE RetrieveRaises
  BY <1>0, <1>23, ConstantsAssumption
  DEF RetrieveRaises, Stop, disk, grid, StepInv, AttemptInv, JobInv, RunningIsReal,
      NoDirectory, Directory, JobRoot, Now, Batches, Batch, Attempts, Job
<1>24. CASE CleanupFails
  BY <1>0, <1>24, ConstantsAssumption
  DEF CleanupFails, Stop, disk, grid, StepInv, AttemptInv, JobInv, RunningIsReal,
      NoDirectory, Directory, JobRoot, Now, Batches, Batch, Attempts, Job
<1>25. CASE Crash
  BY <1>0, <1>25, ConstantsAssumption
  DEF Crash, Stop, disk, grid, StepInv, AttemptInv, JobInv, RunningIsReal, NoDirectory,
      Directory, JobRoot, Now, Batches, Batch, Attempts, Job
<1>26. ASSUME NEW t \in BOOLEAN, SubmissionFails(t)
      PROVE  JobInv'
  <2>1. SubmissionFailure BY <1>26, SubmissionFailsCases, Zenon
  <2>2. LedgerGivesUp("failed") BY <2>1, LedgerAfterSubmissionFails
  <2>3. LedgerKeepsJobs BY <2>2 DEF LedgerGivesUp, LedgerKeepsJobs
  <2>4. JobsKept BY <1>0, <2>1, JobsUnchanged DEF SubmissionFailure
  <2>5. DirectoriesKept BY <1>0, <2>1 DEF SubmissionFailure, DirectoriesKept
  <2>6. QED BY <2>1, <2>3, <2>4, <2>5, JobInvKept DEF SubmissionFailure
<1>27. ASSUME NEW t \in BOOLEAN, PublishFails(t)
      PROVE  JobInv'
  <2>1. PublicationFailure BY <1>27, PublishFailsCases, Zenon
  <2>2. LedgerKeepsJobs
    BY <1>0, <2>1 DEF PublicationFailure, LedgerKeepsJobs, StepInv, Now, Batch
  <2>3. JobsKept /\ DirectoriesKept BY <2>1, GridUnchanged DEF PublicationFailure, grid
  <2>4. QED BY <2>1, <2>2, <2>3, JobInvKept DEF PublicationFailure
<1>28. ASSUME NEW t \in BOOLEAN, Interrupt(t)
      PROVE  JobInv'
  <2>1. Interruption BY <1>28, InterruptCases, Zenon
  <2>2. LedgerGivesUp("cancelled") BY <2>1, LedgerAfterInterrupt
  <2>3. LedgerKeepsJobs BY <2>2 DEF LedgerGivesUp, LedgerKeepsJobs
  <2>4. JobsKept BY <2>1, InterruptKeepsJobs
  <2>5. DirectoriesKept BY <1>0, <2>1 DEF Interruption, DirectoriesKept
  <2>6. QED BY <2>1, <2>3, <2>4, <2>5, JobInvKept DEF Interruption
<1>29. ASSUME NEW k \in DOMAIN jobs, NEW s \in {"terminated", "error"},
                   NEW r \in {"none", "failed", "succeeded"}, NEW w \in BOOLEAN, JobEnds(k, s, r, w)
      PROVE  JobInv'
  <2>1. /\ JobsKept /\ DirectoriesKept
        /\ UNCHANGED <<ledger, pc, cur>>
    BY <1>29, JobEndsKeeps
  <2>2. QED BY <2>1, JobInvKept DEF LedgerKeepsJobs
<1>30. CASE RewriteReadme
  BY <1>0, <1>30, ConstantsAssumption
  DEF RewriteReadme, disk, grid, StepInv, AttemptInv, JobInv, RunningIsReal, NoDirectory,
      Directory, JobRoot, Now, Batches, Batch, Attempts, Job
<1>31. QED
  BY <1>1, <1>2, <1>3, <1>4, <1>5, <1>6, <1>7, <1>8, <1>9, <1>10, <1>11, <1>12, <1>13,
      <1>14, <1>15, <1>16, <1>17, <1>18, <1>19, <1>20, <1>21, <1>22, <1>23, <1>24, <1>25,
      <1>26, <1>27, <1>28, <1>29, <1>30
  DEF Next, Controller, Failure, Node

\* Manifests list nothing ahead of what is published.
LEMMA ManifestPreserved ==
    ASSUME IInv, Next
    PROVE  ManifestInv'
<1>0. /\ ledger \in [Batches -> Batch] /\ cur \in 1..LastBatch + 1
      /\ remote \in [Batches \X Attempts -> Directory] /\ jobs \in Seq(Job)
      /\ DataTypeOK /\ StepInv /\ AttemptInv /\ ContentInv /\ ManifestInv
  BY DEF IInv, TypeOK, LedgerTypeOK, GridTypeOK, DataTypeOK, ControlTypeOK
<1>1. ASSUME NEW c \in Commits, Start(c)
      PROVE  ManifestInv'
  BY <1>0, <1>1, ConstantsAssumption
  DEF Start, MigrationSafe, AttemptsLeft, disk, grid, DataTypeOK, StepInv, AttemptInv,
      ContentInv, ManifestInv, HubManifestBacked, NoDirectory, Directory, JobRoot, Now,
      Batches, Batch, Attempts, Commits
<1>2. CASE NextBatch
  BY <1>0, <1>2, ConstantsAssumption
  DEF NextBatch, disk, grid, DataTypeOK, StepInv, AttemptInv, ContentInv, ManifestInv,
      HubManifestBacked, NoDirectory, Directory, JobRoot, Now, Batches, Batch, Attempts,
      Commits
<1>3. CASE Resume
  BY <1>0, <1>3, ConstantsAssumption
  DEF Resume, Active, disk, grid, DataTypeOK, StepInv, AttemptInv, ContentInv, ManifestInv,
      HubManifestBacked, NoDirectory, Directory, JobRoot, Now, Batches, Batch, Attempts,
      Commits
<1>4. CASE Refuse
  BY <1>0, <1>4, ConstantsAssumption
  DEF Refuse, Stop, Active, disk, grid, DataTypeOK, StepInv, AttemptInv, ContentInv,
      ManifestInv, HubManifestBacked, NoDirectory, Directory, JobRoot, Now, Batches, Batch,
      Attempts, Commits
<1>5. CASE BeginSubmit
  BY <1>0, <1>5, ConstantsAssumption
  DEF BeginSubmit, Record, disk, grid, DataTypeOK, StepInv, AttemptInv, ContentInv,
      ManifestInv, HubManifestBacked, NoDirectory, Directory, JobRoot, Now, Batches, Batch,
      Attempts, Commits
<1>6. CASE StageBatch
  <2>1. /\ JobRoot \in Batches \X Attempts /\ JobRoot[1] = cur /\ cur \in Batches
        /\ ledger[cur].state = "submitted"
    BY <1>0, <1>6 DEF StageBatch, StepInv, AttemptInv, JobRoot, Now
  <2>2. \A b \in manifest : b <= cur
    BY <1>0, <2>1, ConstantsAssumption DEF ManifestInv, DataTypeOK, Batches
  <2>3. \A d \in Batches \X Attempts : \A b \in remote'[d].manifest : b <= d[1]
    BY <1>0, <1>6, <2>1, <2>2 DEF StageBatch, ManifestInv
  <2>4. QED BY <1>0, <1>6, <2>3 DEF StageBatch, ManifestInv, HubManifestBacked, disk
<1>7. CASE Oarsub
  BY <1>0, <1>7, ConstantsAssumption
  DEF Oarsub, disk, grid, DataTypeOK, StepInv, AttemptInv, ContentInv, ManifestInv,
      HubManifestBacked, NoDirectory, Directory, JobRoot, Now, Batches, Batch, Attempts,
      Commits
<1>8. CASE RecordJob
  BY <1>0, <1>8, ConstantsAssumption
  DEF RecordJob, Record, disk, grid, DataTypeOK, StepInv, AttemptInv, ContentInv,
      ManifestInv, HubManifestBacked, NoDirectory, Directory, JobRoot, Now, Batches, Batch,
      Attempts, Commits
<1>9. CASE Recheck
  BY <1>0, <1>9, ConstantsAssumption
  DEF Recheck, disk, grid, DataTypeOK, StepInv, AttemptInv, ContentInv, ManifestInv,
      HubManifestBacked, NoDirectory, Directory, JobRoot, Now, Batches, Batch, Attempts,
      Commits
<1>10. CASE Poll
  BY <1>0, <1>10, ConstantsAssumption
  DEF Poll, disk, grid, DataTypeOK, StepInv, AttemptInv, ContentInv, ManifestInv,
      HubManifestBacked, NoDirectory, Directory, JobRoot, Now, Batches, Batch, Attempts,
      Commits
<1>11. CASE Retrieve
  <2>1. JobRoot \in Batches \X Attempts /\ JobRoot[1] = cur
    BY <1>0, <1>11 DEF Retrieve, StepInv, AttemptInv, JobRoot, Now
  <2>2. \A b \in received'.manifest : b <= cur
    BY <1>0, <1>11, <2>1 DEF Retrieve, ManifestInv
  <2>3. QED BY <1>0, <1>11, <2>2 DEF Retrieve, ManifestInv, HubManifestBacked, disk, grid
<1>12. CASE MarkFailed
  BY <1>0, <1>12, ConstantsAssumption
  DEF MarkFailed, Record, ValidReceipt, disk, grid, DataTypeOK, StepInv, AttemptInv,
      ContentInv, ManifestInv, HubManifestBacked, NoDirectory, Directory, JobRoot, Now,
      Batches, Batch, Attempts, Commits
<1>13. CASE InstallManifest
  <2>1. /\ manifest' = received.manifest \cup {cur} /\ received \in Directory
        /\ cur \in Batches /\ UNCHANGED <<ledger, remote, hub>> /\ pc' = "tables"
        /\ \A b \in Batches : b < cur => ledger[b].state = "published"
        /\ \A b \in received.manifest : b <= cur
    BY <1>0, <1>13 DEF InstallManifest, StepInv, ManifestInv, grid, IInv, TypeOK, GridTypeOK
  <2>2. \A b \in manifest' : b \in Nat /\ b <= cur
    BY <2>1, ConstantsAssumption DEF Directory, Batches
  <2>3. \A b \in manifest' : \A c \in Batches : c < b => ledger[c].state = "published"
    BY <2>1, <2>2, ConstantsAssumption DEF Batches
  <2>4. QED BY <1>0, <2>1, <2>3 DEF ManifestInv, HubManifestBacked
<1>14. CASE InstallTables
  BY <1>0, <1>14, ConstantsAssumption
  DEF InstallTables, disk, grid, DataTypeOK, StepInv, AttemptInv, ContentInv, ManifestInv,
      HubManifestBacked, NoDirectory, Directory, JobRoot, Now, Batches, Batch, Attempts,
      Commits
<1>15. CASE Ready
  BY <1>0, <1>15, ConstantsAssumption
  DEF Ready, Record, disk, grid, DataTypeOK, StepInv, AttemptInv, ContentInv, ManifestInv,
      HubManifestBacked, NoDirectory, Directory, JobRoot, Now, Batches, Batch, Attempts,
      Commits
<1>16. CASE BaselineChanged
  BY <1>0, <1>16, ConstantsAssumption
  DEF BaselineChanged, Stop, Record, disk, grid, DataTypeOK, StepInv, AttemptInv,
      ContentInv, ManifestInv, HubManifestBacked, NoDirectory, Directory, JobRoot, Now,
      Batches, Batch, Attempts, Commits
<1>17. CASE Publish
  <2>1. DirectoriesKept BY <1>17, GridUnchanged DEF Publish
  <2>2. HubManifestBacked' BY <1>17, CommitIsBacked DEF Publish
  <2>3. QED BY <1>17, <2>1, <2>2, ManifestInvKept DEF Publish, disk
<1>18. CASE RecordPublished
  BY <1>0, <1>18, ConstantsAssumption
  DEF RecordPublished, Record, disk, grid, DataTypeOK, StepInv, AttemptInv, ContentInv,
      ManifestInv, HubManifestBacked, NoDirectory, Directory, JobRoot, Now, Batches, Batch,
      Attempts, Commits
<1>19. CASE CleanupRemoteJob
  BY <1>0, <1>19, ConstantsAssumption
  DEF CleanupRemoteJob, Stop, disk, grid, DataTypeOK, StepInv, AttemptInv, ContentInv,
      ManifestInv, HubManifestBacked, NoDirectory, Directory, JobRoot, Now, Batches, Batch,
      Attempts, Commits
<1>20. CASE BeginFinalize
  BY <1>0, <1>20, ConstantsAssumption
  DEF BeginFinalize, Stop, disk, grid, DataTypeOK, StepInv, AttemptInv, ContentInv,
      ManifestInv, HubManifestBacked, NoDirectory, Directory, JobRoot, Now, Batches, Batch,
      Attempts, Commits
<1>21. CASE Finalize
  BY <1>0, <1>21, ConstantsAssumption
  DEF Finalize, disk, grid, DataTypeOK, StepInv, AttemptInv, ContentInv, ManifestInv,
      HubManifestBacked, NoDirectory, Directory, JobRoot, Now, Batches, Batch, Attempts,
      Commits
<1>22. CASE RecordCleanup
  BY <1>0, <1>22, ConstantsAssumption
  DEF RecordCleanup, Stop, disk, grid, DataTypeOK, StepInv, AttemptInv, ContentInv,
      ManifestInv, HubManifestBacked, NoDirectory, Directory, JobRoot, Now, Batches, Batch,
      Attempts, Commits
<1>23. CASE RetrieveRaises
  BY <1>0, <1>23, ConstantsAssumption
  DEF RetrieveRaises, Stop, disk, grid, DataTypeOK, StepInv, AttemptInv, ContentInv,
      ManifestInv, HubManifestBacked, NoDirectory, Directory, JobRoot, Now, Batches, Batch,
      Attempts, Commits
<1>24. CASE CleanupFails
  BY <1>0, <1>24, ConstantsAssumption
  DEF CleanupFails, Stop, disk, grid, DataTypeOK, StepInv, AttemptInv, ContentInv,
      ManifestInv, HubManifestBacked, NoDirectory, Directory, JobRoot, Now, Batches, Batch,
      Attempts, Commits
<1>25. CASE Crash
  BY <1>0, <1>25, ConstantsAssumption
  DEF Crash, Stop, disk, grid, DataTypeOK, StepInv, AttemptInv, ContentInv, ManifestInv,
      HubManifestBacked, NoDirectory, Directory, JobRoot, Now, Batches, Batch, Attempts,
      Commits
<1>26. ASSUME NEW t \in BOOLEAN, SubmissionFails(t)
      PROVE  ManifestInv'
  <2>1. SubmissionFailure BY <1>26, SubmissionFailsCases, Zenon
  <2>2. LedgerGivesUp("failed") BY <2>1, LedgerAfterSubmissionFails
  <2>3. DirectoriesKept BY <1>0, <2>1 DEF SubmissionFailure, DirectoriesKept
  <2>4. HubManifestBacked' BY <1>0, <2>1 DEF SubmissionFailure, ManifestInv, HubManifestBacked
  <2>5. QED BY <2>1, <2>2, <2>3, <2>4, ManifestInvKept DEF SubmissionFailure, LedgerGivesUp
<1>27. ASSUME NEW t \in BOOLEAN, PublishFails(t)
      PROVE  ManifestInv'
  <2>1. PublicationFailure BY <1>27, PublishFailsCases, Zenon
  <2>2. DirectoriesKept BY <2>1, GridUnchanged DEF PublicationFailure, grid
  <2>3. HubManifestBacked'
    <3>1. CASE hub' = hub BY <1>0, <3>1 DEF ManifestInv, HubManifestBacked
    <3>2. CASE pc = "publish" /\ CommitBatch BY <3>2, CommitIsBacked
    <3>3. QED BY <2>1, <3>1, <3>2 DEF PublicationFailure
  <2>4. \A b \in Batches : ledger[b].state = "published" => ledger'[b].state = "published"
    BY <1>0, <2>1 DEF PublicationFailure, StepInv, Now, Batch
  <2>5. QED BY <2>1, <2>2, <2>3, <2>4, ManifestInvKept DEF PublicationFailure
<1>28. ASSUME NEW t \in BOOLEAN, Interrupt(t)
      PROVE  ManifestInv'
  <2>1. Interruption BY <1>28, InterruptCases, Zenon
  <2>2. LedgerGivesUp("cancelled") BY <2>1, LedgerAfterInterrupt
  <2>3. DirectoriesKept BY <1>0, <2>1 DEF Interruption, DirectoriesKept
  <2>4. HubManifestBacked' BY <1>0, <2>1 DEF Interruption, ManifestInv, HubManifestBacked
  <2>5. QED BY <2>1, <2>2, <2>3, <2>4, ManifestInvKept DEF Interruption, LedgerGivesUp
<1>29. ASSUME NEW k \in DOMAIN jobs, NEW s \in {"terminated", "error"},
                   NEW r \in {"none", "failed", "succeeded"}, NEW w \in BOOLEAN, JobEnds(k, s, r, w)
      PROVE  ManifestInv'
  <2>1. /\ JobsKept /\ DirectoriesKept /\ jobs[k].state = "active"
        /\ \A d \in Batches \X Attempts :
               d # <<jobs[k].batch, jobs[k].attempt>> => remote'[d] = remote[d]
        /\ UNCHANGED <<ledger, commit, cleanup, manifest, tables, readme, checkpoints, salvaged, hub, checkout, pc,
                       cur, received>>
    BY <1>29, JobEndsKeeps
  <2>2. QED
    BY <1>0, <2>1, ConstantsAssumption
    DEF JobsKept, DirectoriesKept, DataTypeOK, StepInv, AttemptInv, ContentInv,
        ManifestInv, HubManifestBacked, NoDirectory, Directory, JobRoot, Now, Batches,
        Batch, Attempts, Commits
<1>30. CASE RewriteReadme
  BY <1>0, <1>30, ConstantsAssumption
  DEF RewriteReadme, disk, grid, DataTypeOK, StepInv, AttemptInv, ContentInv, ManifestInv,
      HubManifestBacked, NoDirectory, Directory, JobRoot, Now, Batches, Batch, Attempts,
      Commits
<1>31. QED
  BY <1>1, <1>2, <1>3, <1>4, <1>5, <1>6, <1>7, <1>8, <1>9, <1>10, <1>11, <1>12, <1>13,
      <1>14, <1>15, <1>16, <1>17, <1>18, <1>19, <1>20, <1>21, <1>22, <1>23, <1>24, <1>25,
      <1>26, <1>27, <1>28, <1>29, <1>30
  DEF Next, Controller, Failure, Node

\* No success is given up.
LEMMA ResultPreserved ==
    ASSUME IInv, Next
    PROVE  ResultInv'
<1>0. /\ ledger \in [Batches -> Batch] /\ cur \in 1..LastBatch + 1
      /\ remote \in [Batches \X Attempts -> Directory] /\ jobs \in Seq(Job)
      /\ StepInv /\ AttemptInv /\ JobInv /\ ResultInv
  BY DEF IInv, TypeOK, LedgerTypeOK, GridTypeOK, DataTypeOK, ControlTypeOK
<1>1. ASSUME NEW c \in Commits, Start(c)
      PROVE  ResultInv'
  BY <1>0, <1>1, ConstantsAssumption
  DEF Start, MigrationSafe, AttemptsLeft, disk, grid, StepInv, AttemptInv, JobInv,
      RunningIsReal, ResultInv, JobState, Directory, JobRoot, Now, Batches, Batch, Attempts,
      Job
<1>2. CASE NextBatch
  BY <1>0, <1>2, ConstantsAssumption
  DEF NextBatch, disk, grid, StepInv, AttemptInv, JobInv, RunningIsReal, ResultInv,
      JobState, Directory, JobRoot, Now, Batches, Batch, Attempts, Job
<1>3. CASE Resume
  BY <1>0, <1>3, ConstantsAssumption
  DEF Resume, Active, disk, grid, StepInv, AttemptInv, JobInv, RunningIsReal, ResultInv,
      JobState, Directory, JobRoot, Now, Batches, Batch, Attempts, Job
<1>4. CASE Refuse
  BY <1>0, <1>4, ConstantsAssumption
  DEF Refuse, Stop, Active, disk, grid, StepInv, AttemptInv, JobInv, RunningIsReal,
      ResultInv, JobState, Directory, JobRoot, Now, Batches, Batch, Attempts, Job
<1>5. CASE BeginSubmit
  BY <1>0, <1>5, ConstantsAssumption
  DEF BeginSubmit, Record, disk, grid, StepInv, AttemptInv, JobInv, RunningIsReal,
      ResultInv, JobState, Directory, JobRoot, Now, Batches, Batch, Attempts, Job
<1>6. CASE StageBatch
  BY <1>0, <1>6, ConstantsAssumption
  DEF StageBatch, disk, grid, StepInv, AttemptInv, JobInv, RunningIsReal, ResultInv,
      JobState, Directory, JobRoot, Now, Batches, Batch, Attempts, Job
<1>7. CASE Oarsub
  BY <1>0, <1>7, ConstantsAssumption
  DEF Oarsub, disk, grid, StepInv, AttemptInv, JobInv, RunningIsReal, ResultInv, JobState,
      Directory, JobRoot, Now, Batches, Batch, Attempts, Job
<1>8. CASE RecordJob
  BY <1>0, <1>8, ConstantsAssumption
  DEF RecordJob, Record, disk, grid, StepInv, AttemptInv, JobInv, RunningIsReal, ResultInv,
      JobState, Directory, JobRoot, Now, Batches, Batch, Attempts, Job
<1>9. CASE Recheck
  BY <1>0, <1>9, ConstantsAssumption
  DEF Recheck, disk, grid, StepInv, AttemptInv, JobInv, RunningIsReal, ResultInv, JobState,
      Directory, JobRoot, Now, Batches, Batch, Attempts, Job
<1>10. CASE Poll
  BY <1>0, <1>10, ConstantsAssumption
  DEF Poll, disk, grid, StepInv, AttemptInv, JobInv, RunningIsReal, ResultInv, JobState,
      Directory, JobRoot, Now, Batches, Batch, Attempts, Job
<1>11. CASE Retrieve
  BY <1>0, <1>11, ConstantsAssumption, ZenonT(40)
  DEF Retrieve, ValidReceipt, disk, grid, StepInv, AttemptInv, JobInv, RunningIsReal,
      ResultInv, JobState, Directory, JobRoot, Now, Batches, Batch, Attempts, Job
<1>12. CASE MarkFailed
  BY <1>0, <1>12, ConstantsAssumption
  DEF MarkFailed, Record, ValidReceipt, disk, grid, StepInv, AttemptInv, JobInv,
      RunningIsReal, ResultInv, JobState, Directory, JobRoot, Now, Batches, Batch, Attempts,
      Job
<1>13. CASE InstallManifest
  BY <1>0, <1>13, ConstantsAssumption
  DEF InstallManifest, disk, grid, StepInv, AttemptInv, JobInv, RunningIsReal, ResultInv,
      JobState, Directory, JobRoot, Now, Batches, Batch, Attempts, Job
<1>14. CASE InstallTables
  BY <1>0, <1>14, ConstantsAssumption
  DEF InstallTables, disk, grid, StepInv, AttemptInv, JobInv, RunningIsReal, ResultInv,
      JobState, Directory, JobRoot, Now, Batches, Batch, Attempts, Job
<1>15. CASE Ready
  BY <1>0, <1>15, ConstantsAssumption
  DEF Ready, Record, disk, grid, StepInv, AttemptInv, JobInv, RunningIsReal, ResultInv,
      JobState, Directory, JobRoot, Now, Batches, Batch, Attempts, Job
<1>16. CASE BaselineChanged
  BY <1>0, <1>16, ConstantsAssumption
  DEF BaselineChanged, Stop, Record, disk, grid, StepInv, AttemptInv, JobInv, RunningIsReal,
      ResultInv, JobState, Directory, JobRoot, Now, Batches, Batch, Attempts, Job
<1>17. CASE Publish
  BY <1>0, <1>17, ConstantsAssumption
  DEF Publish, CommitBatch, disk, grid, StepInv, AttemptInv, JobInv, RunningIsReal,
      ResultInv, JobState, Directory, JobRoot, Now, Batches, Batch, Attempts, Job
<1>18. CASE RecordPublished
  BY <1>0, <1>18, ConstantsAssumption
  DEF RecordPublished, Record, disk, grid, StepInv, AttemptInv, JobInv, RunningIsReal,
      ResultInv, JobState, Directory, JobRoot, Now, Batches, Batch, Attempts, Job
<1>19. CASE CleanupRemoteJob
  BY <1>0, <1>19, ConstantsAssumption
  DEF CleanupRemoteJob, Stop, disk, grid, StepInv, AttemptInv, JobInv, RunningIsReal,
      ResultInv, JobState, Directory, JobRoot, Now, Batches, Batch, Attempts, Job
<1>20. CASE BeginFinalize
  BY <1>0, <1>20, ConstantsAssumption
  DEF BeginFinalize, Stop, disk, grid, StepInv, AttemptInv, JobInv, RunningIsReal,
      ResultInv, JobState, Directory, JobRoot, Now, Batches, Batch, Attempts, Job
<1>21. CASE Finalize
  BY <1>0, <1>21, ConstantsAssumption
  DEF Finalize, disk, grid, StepInv, AttemptInv, JobInv, RunningIsReal, ResultInv, JobState,
      Directory, JobRoot, Now, Batches, Batch, Attempts, Job
<1>22. CASE RecordCleanup
  BY <1>0, <1>22, ConstantsAssumption
  DEF RecordCleanup, Stop, disk, grid, StepInv, AttemptInv, JobInv, RunningIsReal,
      ResultInv, JobState, Directory, JobRoot, Now, Batches, Batch, Attempts, Job
<1>23. CASE RetrieveRaises
  BY <1>0, <1>23, ConstantsAssumption
  DEF RetrieveRaises, Stop, disk, grid, StepInv, AttemptInv, JobInv, RunningIsReal,
      ResultInv, JobState, Directory, JobRoot, Now, Batches, Batch, Attempts, Job
<1>24. CASE CleanupFails
  BY <1>0, <1>24, ConstantsAssumption
  DEF CleanupFails, Stop, disk, grid, StepInv, AttemptInv, JobInv, RunningIsReal, ResultInv,
      JobState, Directory, JobRoot, Now, Batches, Batch, Attempts, Job
<1>25. CASE Crash
  BY <1>0, <1>25, ConstantsAssumption
  DEF Crash, Stop, disk, grid, StepInv, AttemptInv, JobInv, RunningIsReal, ResultInv,
      JobState, Directory, JobRoot, Now, Batches, Batch, Attempts, Job
<1>26. ASSUME NEW t \in BOOLEAN, SubmissionFails(t)
      PROVE  ResultInv'
  <2>1. SubmissionFailure BY <1>26, SubmissionFailsCases, Zenon
  <2>2. LedgerGivesUp("failed") BY <2>1, LedgerAfterSubmissionFails
  <2>3. /\ pc' = "down" /\ cur' = 1 /\ checkout' = 0 /\ received' = NoDirectory
        /\ UNCHANGED <<commit, cleanup, manifest, tables, readme, checkpoints, salvaged, remote, hub>>
    BY <2>1 DEF SubmissionFailure
  <2>4. JobsKept BY <1>0, <2>1, JobsUnchanged DEF SubmissionFailure
  <2>5. QED
    BY <1>0, <2>2, <2>3, <2>4, ConstantsAssumption
    DEF LedgerGivesUp, JobsKept, StepInv, AttemptInv, JobInv, RunningIsReal, ResultInv,
        JobState, Directory, JobRoot, Now, Batches, Batch, Attempts, Job
<1>27. ASSUME NEW t \in BOOLEAN, PublishFails(t)
      PROVE  ResultInv'
  <2>1. PublicationFailure BY <1>27, PublishFailsCases, Zenon
  <2>2. QED
    BY <1>0, <2>1, ConstantsAssumption
    DEF PublicationFailure, CommitBatch, StepInv, AttemptInv, JobInv, RunningIsReal,
        ResultInv, JobState, Directory, JobRoot, Now, Batches, Batch, Attempts, Job
<1>28. ASSUME NEW t \in BOOLEAN, Interrupt(t)
      PROVE  ResultInv'
  <2>1. Interruption BY <1>28, InterruptCases, Zenon
  <2>2. LedgerGivesUp("cancelled") BY <2>1, LedgerAfterInterrupt
  <2>3. /\ pc' = "down" /\ cur' = 1 /\ checkout' = 0 /\ received' = NoDirectory
        /\ UNCHANGED <<commit, cleanup, manifest, tables, readme, checkpoints, salvaged, remote, hub>>
    BY <2>1 DEF Interruption
  <2>4. JobsKept BY <2>1, InterruptKeepsJobs
  <2>5. QED
    BY <1>0, <2>2, <2>3, <2>4, ConstantsAssumption
    DEF LedgerGivesUp, JobsKept, StepInv, AttemptInv, JobInv, RunningIsReal, ResultInv,
        JobState, Directory, JobRoot, Now, Batches, Batch, Attempts, Job
<1>29. ASSUME NEW k \in DOMAIN jobs, NEW s \in {"terminated", "error"},
                   NEW r \in {"none", "failed", "succeeded"}, NEW w \in BOOLEAN, JobEnds(k, s, r, w)
      PROVE  ResultInv'
  <2>1. /\ JobsKept /\ DirectoriesKept /\ jobs[k].state = "active"
        /\ \A d \in Batches \X Attempts :
               d # <<jobs[k].batch, jobs[k].attempt>> => remote'[d] = remote[d]
        /\ UNCHANGED <<ledger, commit, pc, cur>>
    BY <1>29, JobEndsKeeps
  <2>2. DOMAIN jobs' = DOMAIN jobs BY <1>0, <2>1 DEF JobsKept
  <2>3. CASE pc \in {"retrieve", "discard"} \/ (pc = "cleanup" /\ Now.state = "failed")
    <3>1. /\ cur \in Batches /\ Now.job \in DOMAIN jobs /\ JobState # "active"
          /\ jobs[Now.job].batch = cur /\ jobs[Now.job].attempt = Now.attempt
      BY <1>0, <2>3 DEF StepInv, JobInv, RunningIsReal, ResultInv, Now
    <3>2. jobs'[Now.job].state = JobState BY <2>1, <3>1 DEF JobsKept, JobState
    <3>3. JobRoot # <<jobs[k].batch, jobs[k].attempt>>
      BY <1>0, <1>29, <2>1, <3>1 DEF JobInv, JobState, JobRoot
    <3>4. JobRoot \in Batches \X Attempts
      BY <1>0, <2>3, <3>1 DEF StepInv, AttemptInv, JobRoot, Now
    <3>5. remote'[JobRoot] = remote[JobRoot] BY <2>1, <3>3, <3>4
    <3>6. QED
      BY <1>0, <2>1, <2>2, <3>1, <3>2, <3>5 DEF ResultInv, JobsKept, JobState, JobRoot, Now
  <2>4. CASE ~(pc \in {"retrieve", "discard"} \/ (pc = "cleanup" /\ Now.state = "failed"))
    BY <2>1, <2>4 DEF ResultInv, Now
  <2>5. QED BY <2>3, <2>4
<1>30. CASE RewriteReadme
  BY <1>0, <1>30, ConstantsAssumption
  DEF RewriteReadme, disk, grid, StepInv, AttemptInv, JobInv, RunningIsReal, ResultInv,
      JobState, Directory, JobRoot, Now, Batches, Batch, Attempts, Job
<1>31. QED
  BY <1>1, <1>2, <1>3, <1>4, <1>5, <1>6, <1>7, <1>8, <1>9, <1>10, <1>11, <1>12, <1>13,
      <1>14, <1>15, <1>16, <1>17, <1>18, <1>19, <1>20, <1>21, <1>22, <1>23, <1>24, <1>25,
      <1>26, <1>27, <1>28, <1>29, <1>30
  DEF Next, Controller, Failure, Node

\* Checkpoints, directories and the batches to submit stay as they were.
CacheKept ==
    /\ UNCHANGED <<checkpoints, salvaged>>
    /\ \A d \in Batches \X Attempts : remote'[d] = remote[d] \/ remote'[d] = NoDirectory
    /\ \A b \in Batches :
           ledger'[b].state \in {"planned", "submitted", "failed"}
           => \/ ledger[b].state \in {"planned", "submitted", "failed"}
              \/ pc = "recheck" /\ b = cur
    /\ pc' = "recheck" => cur' = cur /\ cur \in Batches /\ ledger[cur].state = "submitted"

\* A step that leaves checkpoints and the rows in the directories alone keeps CacheInv.
LEMMA CacheInvKept == ASSUME IInv, CacheKept PROVE CacheTypeOK' /\ CacheInv'
<1>1. CacheTypeOK /\ CacheInv BY DEF IInv, TypeOK
<1>2. QED BY <1>1 DEF CacheKept, CacheTypeOK, CacheInv, NoDirectory

\* Importing the result's checkpoints keeps their type.
LEMMA ImportKeepsType ==
    ASSUME IInv, pc \in {"ready", "discard"}, ImportCheckpoints
    PROVE  /\ checkpoints' \in [Batches -> SUBSET Commits]
           /\ \A b \in Batches : b # cur => checkpoints'[b] = checkpoints[b]
<1>1. /\ cur \in Batches /\ received.rows \in SUBSET Commits
      /\ checkpoints \in [Batches -> SUBSET Commits]
  BY DEF IInv, TypeOK, CacheTypeOK, GridTypeOK, Directory, StepInv
<1>2. checkpoints[cur] \cup received.rows \in SUBSET Commits BY <1>1
<1>3. QED BY <1>1, <1>2 DEF ImportCheckpoints

\* What checkpoints and directories hold stays accounted for.
LEMMA CachePreserved == ASSUME IInv, Next PROVE CacheTypeOK' /\ CacheInv'
<1>0. /\ ledger \in [Batches -> Batch] /\ cur \in 1..LastBatch + 1
      /\ remote \in [Batches \X Attempts -> Directory]
      /\ CacheTypeOK /\ CacheInv /\ StepInv
  BY DEF IInv, TypeOK, LedgerTypeOK, GridTypeOK, ControlTypeOK
<1>1. CASE UNCHANGED <<ledger, checkpoints, salvaged, remote>> /\ pc' # "recheck"
  BY <1>1, CacheInvKept DEF CacheKept
<1>2. CASE BeginSubmit
  <2>1. /\ Now.state \in {"planned", "failed"} /\ cur \in Batches /\ pc' = "stage"
        /\ UNCHANGED <<checkpoints, salvaged, remote>>
        /\ \A b \in Batches : b # cur => ledger'[b] = ledger[b]
    BY <1>0, <1>2, ConstantsAssumption DEF BeginSubmit, Record, Batches, grid, cache
  <2>2. QED BY <2>1, CacheInvKept DEF CacheKept, Now
<1>3. CASE StageBatch
  <2>1. /\ UNCHANGED <<ledger, checkpoints, salvaged>> /\ pc' = "oarsub"
        /\ cur \in Batches /\ Now.state = "submitted" /\ checkout = commit /\ commit \in Commits
    BY <1>0, <1>3 DEF StageBatch, disk, cache, StepInv
  <2>2. JobRoot \in Batches \X Attempts /\ JobRoot[1] = cur
    BY <2>1 DEF IInv, AttemptInv, JobRoot, Now
  <2>3. /\ remote'[JobRoot].rows = checkpoints[cur] /\ remote'[JobRoot].receipt = "none"
        /\ remote'[JobRoot].commit = checkout
        /\ \A d \in Batches \X Attempts : d # JobRoot => remote'[d] = remote[d]
    BY <1>0, <1>3, <2>2 DEF StageBatch
  <2>4. checkpoints[cur] \subseteq salvaged[cur] BY <1>0, <2>1 DEF CacheInv, Now
  <2>5. CacheTypeOK' BY <1>0, <2>1 DEF CacheTypeOK
  <2>6. QED BY <1>0, <2>1, <2>2, <2>3, <2>4, <2>5 DEF CacheInv
<1>4. CASE RecordJob
  <2>1. /\ Now.state = "submitted" /\ cur \in Batches /\ cur' = cur
        /\ UNCHANGED <<checkpoints, salvaged, remote>>
        /\ \A b \in Batches : b # cur => ledger'[b] = ledger[b]
    BY <1>0, <1>4 DEF RecordJob, Record, grid, cache, StepInv
  <2>2. QED BY <2>1, CacheInvKept DEF CacheKept, Now
<1>5. CASE MarkFailed
  <2>1. /\ cur \in Batches /\ pc' = "cleanup" /\ UNCHANGED remote
        /\ \A b \in Batches : b # cur => ledger'[b] = ledger[b]
        /\ ImportCheckpoints /\ pc = "discard"
        /\ salvaged' = [salvaged EXCEPT ![cur] = @ \cup checkpoints'[cur]]
    BY <1>0, <1>5 DEF MarkFailed, Record, grid, StepInv
  <2>2. /\ checkpoints' \in [Batches -> SUBSET Commits]
        /\ \A b \in Batches : b # cur => checkpoints'[b] = checkpoints[b]
    BY <2>1, ImportKeepsType
  <2>3. salvaged[cur] \cup checkpoints'[cur] \in SUBSET Commits
    BY <1>0, <2>1, <2>2 DEF CacheTypeOK
  <2>4. /\ salvaged' \in [Batches -> SUBSET Commits]
        /\ salvaged'[cur] = salvaged[cur] \cup checkpoints'[cur]
        /\ \A b \in Batches : b # cur => salvaged'[b] = salvaged[b]
    BY <1>0, <2>1, <2>3 DEF CacheTypeOK
  <2>5. \A b \in Batches : salvaged[b] \subseteq salvaged'[b] BY <2>1, <2>4
  <2>6. \A d \in Batches \X Attempts :
            remote'[d].rows \subseteq {remote'[d].commit} \cup salvaged'[d[1]]
    BY <1>0, <2>1, <2>5 DEF CacheInv
  <2>7. QED BY <1>0, <2>1, <2>2, <2>4, <2>6 DEF CacheTypeOK, CacheInv
<1>6. CASE Ready
  <2>1. /\ cur \in Batches /\ pc' = "publish" /\ UNCHANGED <<salvaged, remote>>
        /\ \A b \in Batches : b # cur => ledger'[b] = ledger[b]
        /\ ledger'[cur].state = "ready_to_publish"
        /\ ImportCheckpoints /\ pc = "ready"
    BY <1>0, <1>6 DEF Ready, Record, grid, StepInv, Now, Batch
  <2>2. QED BY <1>0, <2>1, ImportKeepsType DEF CacheTypeOK, CacheInv
<1>7. CASE RetrieveRaises
  <2>1. CASE UNCHANGED checkpoints
    BY <1>7, <2>1, CacheInvKept DEF RetrieveRaises, Stop, grid, CacheKept
  <2>2. CASE pc \in {"ready", "discard"} /\ ImportCheckpoints
    <3>1. /\ cur \in Batches /\ pc' = "down" /\ UNCHANGED <<salvaged, remote, ledger>>
          /\ ledger[cur].state = "running"
      BY <1>0, <1>7, <2>2 DEF RetrieveRaises, Stop, grid, StepInv, Now
    <3>2. QED BY <1>0, <2>2, <3>1, ImportKeepsType DEF CacheTypeOK, CacheInv
  <2>3. QED BY <1>7, <2>1, <2>2 DEF RetrieveRaises
<1>8. CASE BaselineChanged \/ RecordPublished
  <2>1. /\ UNCHANGED <<checkpoints, salvaged, remote>> /\ pc' # "recheck"
        /\ cur \in Batches /\ Now.state = "ready_to_publish"
        /\ \A b \in Batches : b # cur => ledger'[b] = ledger[b]
        /\ ledger'[cur].state \in {"ready_to_publish", "published"}
    BY <1>0, <1>8 DEF BaselineChanged, RecordPublished, Record, Stop, grid, cache, StepInv, Now,
       Batch
  <2>2. QED BY <2>1, CacheInvKept DEF CacheKept
<1>9. CASE CleanupRemoteJob
  <2>1. UNCHANGED <<ledger, checkpoints, salvaged>> /\ pc' # "recheck"
    BY <1>9, Zenon DEF CleanupRemoteJob, Stop, disk, cache
  <2>2. \A d \in Batches \X Attempts : remote'[d] = remote[d] \/ remote'[d] = NoDirectory
    BY <1>0, <1>9 DEF CleanupRemoteJob
  <2>3. QED BY <2>1, <2>2, CacheInvKept DEF CacheKept
<1>10. CASE Finalize
  BY <1>10, CacheInvKept DEF Finalize, disk, cache, CacheKept
<1>11. ASSUME NEW t \in BOOLEAN, SubmissionFails(t) PROVE CacheTypeOK' /\ CacheInv'
  <2>1. SubmissionFailure BY <1>11, SubmissionFailsCases, Zenon
  <2>2. LedgerGivesUp("failed") BY <2>1, LedgerAfterSubmissionFails
  <2>3. ASSUME NEW b \in Batches, ledger'[b].state \in {"planned", "submitted", "failed"}
        PROVE  \/ ledger[b].state \in {"planned", "submitted", "failed"}
               \/ pc = "recheck" /\ b = cur
    <3>1. ledger'[b].state = ledger[b].state \/ b = cur BY <2>2 DEF LedgerGivesUp
    <3>2. pc # "recheck" => ledger[cur].state = "submitted"
      BY <1>0, <2>1 DEF SubmissionFailure, StepInv, Now
    <3>3. QED BY <2>3, <3>1, <3>2
  <2>4. QED BY <2>1, <2>2, <2>3, CacheInvKept DEF SubmissionFailure, LedgerGivesUp, CacheKept
<1>12. ASSUME NEW t \in BOOLEAN, PublishFails(t) PROVE CacheTypeOK' /\ CacheInv'
  <2>1. PublicationFailure BY <1>12, PublishFailsCases, Zenon
  <2>2. \A b \in Batches : ledger'[b].state = ledger[b].state
    BY <1>0, <2>1 DEF PublicationFailure, Now, Batch
  <2>3. QED BY <2>1, <2>2, CacheInvKept DEF PublicationFailure, CacheKept
<1>13. ASSUME NEW t \in BOOLEAN, Interrupt(t) PROVE CacheTypeOK' /\ CacheInv'
  <2>1. Interruption BY <1>13, InterruptCases, Zenon
  <2>2. LedgerGivesUp("cancelled") BY <2>1, LedgerAfterInterrupt
  <2>3. QED BY <2>1, <2>2, CacheInvKept DEF Interruption, LedgerGivesUp, CacheKept
<1>14. ASSUME NEW k \in DOMAIN jobs, NEW s \in {"terminated", "error"},
              NEW r \in {"none", "failed", "succeeded"}, NEW w \in BOOLEAN, JobEnds(k, s, r, w)
       PROVE  CacheTypeOK' /\ CacheInv'
  <2>1. /\ DirectoriesKept /\ RowsKept
        /\ UNCHANGED <<ledger, checkpoints, salvaged, pc, cur>>
    BY <1>14, JobEndsKeeps
  <2>2. \A d \in Batches \X Attempts :
            /\ remote'[d].rows \subseteq {remote'[d].commit} \cup salvaged[d[1]]
            /\ remote'[d].receipt = "succeeded" => remote'[d].rows # {}
            /\ remote'[d].present => remote'[d].commit \in Commits
    BY <1>0, <2>1 DEF CacheInv, DirectoriesKept, RowsKept
  <2>3. QED BY <1>0, <2>1, <2>2 DEF CacheTypeOK, CacheInv
<1>15. ASSUME NEW c \in Commits, Start(c) PROVE CacheTypeOK' /\ CacheInv'
  BY <1>1, <1>15 DEF Start, cache, grid
<1>16. CASE Recheck \/ NextBatch \/ Resume \/ Refuse \/ Oarsub \/ Poll \/ Retrieve
            \/ InstallManifest \/ InstallTables \/ Publish \/ BeginFinalize \/ RecordCleanup
            \/ CleanupFails \/ Crash \/ RewriteReadme
  <2>1. UNCHANGED <<ledger, checkpoints, salvaged, remote>> /\ pc' # "recheck"
    BY <1>16, Zenon
    DEF Recheck, NextBatch, Resume, Refuse, Oarsub, Poll, Retrieve, InstallManifest,
        InstallTables, Publish, BeginFinalize, RecordCleanup, CleanupFails, Crash, RewriteReadme,
        Stop, disk, cache, grid
  <2>2. QED BY <1>1, <2>1
<1>17. QED
  BY <1>2, <1>3, <1>4, <1>5, <1>6, <1>7, <1>8, <1>9, <1>10, <1>11, <1>12, <1>13, <1>14,
     <1>15, <1>16
  DEF Next, Controller, Failure, Node

------------------------------------------------------------------------------
(* The theorems *)

\* The invariant holds before the first run (no ledger, nothing submitted).
LEMMA InitInv == ASSUME Init PROVE IInv
<1>1. cur = 1 /\ pc = "down" /\ jobs = <<>> /\ manifest = {} /\ hub.manifest = {}
  BY DEF Init
<1>2. /\ NoDirectory \in Directory
      /\ \A b \in Batches : ledger[b] = [state |-> "planned", attempt |-> 0, job |-> 0,
                                         error |-> "none"]
      /\ \A d \in Batches \X Attempts : remote[d] = NoDirectory
  BY ConstantsAssumption DEF Init, NoDirectory, Directory
<1>3. LedgerTypeOK BY ConstantsAssumption DEF Init, LedgerTypeOK, Batch
<1>4. GridTypeOK
  <2>1. jobs \in Seq(Job) BY <1>1, EmptySeq
  <2>2. received \in Directory BY <1>2 DEF Init
  <2>3. remote \in [Batches \X Attempts -> Directory] BY <1>2 DEF Init
  <2>4. QED BY <2>1, <2>2, <2>3 DEF GridTypeOK
<1>5. DataTypeOK
  <2>1. tables = [b \in Batches |-> {}] /\ tables \in [Batches -> SUBSET Commits]
    BY ConstantsAssumption DEF Init
  <2>2. hub = [manifest |-> {}, tables |-> tables] BY DEF Init
  <2>3. hub \in [manifest : SUBSET Batches, tables : [Batches -> SUBSET Commits]]
    BY <2>1, <2>2
  <2>4. commit \in 0..MaxCommit /\ checkout \in 0..MaxCommit /\ manifest \subseteq Batches
    BY ConstantsAssumption DEF Init
  <2>5. cleanup \in BOOLEAN /\ readme \in BOOLEAN BY Zenon DEF Init
  <2>6. QED BY <2>1, <2>3, <2>4, <2>5, Zenon DEF DataTypeOK
<1>6. ControlTypeOK BY ConstantsAssumption DEF Init, ControlTypeOK
<1>7. StepInv BY <1>1 DEF StepInv
<1>8. AttemptInv BY <1>1, <1>2 DEF AttemptInv
<1>9. JobInv BY <1>1, <1>2 DEF JobInv, RunningIsReal
<1>10. ContentInv BY <1>1, <1>2 DEF ContentInv
<1>11. ManifestInv BY <1>1, <1>2 DEF ManifestInv, HubManifestBacked, NoDirectory
<1>12. ResultInv BY <1>1 DEF ResultInv
<1>13. CacheTypeOK /\ CacheInv
  <2>1. checkpoints = [b \in Batches |-> {}] /\ salvaged = [b \in Batches |-> {}] BY DEF Init
  <2>2. QED BY <1>1, <1>2, <2>1 DEF CacheTypeOK, CacheInv, NoDirectory
<1>14. QED
  BY <1>13, <1>3, <1>4, <1>5, <1>6, <1>7, <1>8, <1>9, <1>10, <1>11, <1>12 DEF IInv, TypeOK

\* A step that changes nothing keeps the invariant.
LEMMA StutterInv == ASSUME IInv, UNCHANGED vars PROVE IInv'
<1>1. UNCHANGED <<ledger, commit, cleanup, manifest, tables, readme, checkpoints, salvaged, remote, jobs, hub,
                  checkout, pc, cur, received>>
  BY DEF vars, disk, grid, cache
<1>2. TypeOK'
  BY <1>1 DEF IInv, TypeOK, LedgerTypeOK, GridTypeOK, DataTypeOK, CacheTypeOK, ControlTypeOK
<1>3. (StepInv /\ AttemptInv)' BY <1>1 DEF IInv, StepInv, AttemptInv, Now
<1>4. JobInv' BY <1>1 DEF IInv, JobInv, RunningIsReal, JobRoot, Now
<1>5. ContentInv' BY <1>1 DEF IInv, ContentInv, Accounted
<1>6. ManifestInv' BY <1>1 DEF IInv, ManifestInv, HubManifestBacked
<1>7. ResultInv' BY <1>1 DEF IInv, ResultInv, JobState, JobRoot, Now
<1>8. CacheInv' BY <1>1 DEF IInv, CacheInv
<1>9. QED BY <1>2, <1>3, <1>4, <1>5, <1>6, <1>7, <1>8 DEF IInv

\* IInv holds in every state the controller, its jobs and its crashes can reach.
THEOREM Invariance == Spec => []IInv
<1>1. IInv /\ [Next]_vars => IInv'
  <2>1. ASSUME IInv, Next PROVE IInv'
    BY <2>1, LedgerTypePreserved, GridTypePreserved, DataTypePreserved, ControlTypePreserved,
       StepPreserved, AttemptPreserved, JobPreserved, ContentPreserved, ManifestPreserved,
       ResultPreserved, CachePreserved
    DEF IInv, TypeOK
  <2>2. QED BY <2>1, StutterInv
<1>2. QED BY <1>1, InitInv, PTL DEF Spec

\* Ledger, manifests, directories and jobs keep their types, and a batch just
\* submitted has no job on record, for any number of batches and attempts.
THEOREM TypeCorrect == Spec => []TypeOK
<1>1. IInv => TypeOK BY DEF IInv
<1>2. QED BY <1>1, Invariance, PTL

\* A batch recorded as running has its job and its directory, so that every later
\* run can resume it (_reconcile_batch).
THEOREM RunningCanBeResumed == Spec => []RunningIsReal
<1>1. IInv => RunningIsReal BY DEF IInv, JobInv
<1>2. QED BY <1>1, Invariance, PTL

\* What is published comes from the ledger's source commit, however often the checkout
\* changed, but for rows salvaged from failed attempts (is_source_commit_migration_safe,
\* _import_partial).
THEOREM OnlySalvagedRowsAreForeign == Spec => []OnlySalvagedRowsForeign
<1>1. IInv => OnlySalvagedRowsForeign BY DEF IInv, ContentInv, Accounted, OnlySalvagedRowsForeign
<1>2. QED BY <1>1, Invariance, PTL

\* The manifest on the Hub lists only batches whose tables are there
\* (_publish_batch, _import_success).
THEOREM ManifestIsBacked == Spec => []HubManifestBacked
<1>1. IInv => HubManifestBacked BY DEF IInv, ManifestInv
<1>2. QED BY <1>1, Invariance, PTL

\* Only the cleanup of a batch, or of the whole run, removes a directory.
LEMMA OnlyCleanupRemoves ==
    ASSUME IInv, Next, NEW d \in Batches \X Attempts, remote[d].present, ~remote'[d].present
    PROVE  (CleanupRemoteJob /\ d = JobRoot) \/ Finalize
<1>1. remote \in [Batches \X Attempts -> Directory] BY DEF IInv, TypeOK, GridTypeOK
<1>2. CASE UNCHANGED remote BY <1>2
<1>3. CASE StageBatch
  BY <1>1, <1>3 DEF StageBatch
<1>4. CASE CleanupRemoteJob BY <1>1, <1>4 DEF CleanupRemoteJob
<1>5. CASE Finalize BY <1>5
<1>6. ASSUME NEW k \in DOMAIN jobs, NEW s \in {"terminated", "error"},
             NEW r \in {"none", "failed", "succeeded"}, NEW w \in BOOLEAN, JobEnds(k, s, r, w)
      PROVE  FALSE
  <2>1. DirectoriesKept BY <1>6, JobEndsKeeps
  <2>2. QED BY <2>1 DEF DirectoriesKept
<1>7. \/ UNCHANGED remote \/ StageBatch \/ CleanupRemoteJob \/ Finalize
      \/ \E k \in DOMAIN jobs, s \in {"terminated", "error"},
            r \in {"none", "failed", "succeeded"}, w \in BOOLEAN : JobEnds(k, s, r, w)
  BY Zenon DEF Next, Controller, Failure, Node, Start, NextBatch, Resume, Refuse, BeginSubmit,
     Oarsub, RecordJob, Recheck, Poll, Retrieve, MarkFailed, InstallManifest, InstallTables,
     Ready, BaselineChanged, Publish, RecordPublished, BeginFinalize, RecordCleanup,
     RetrieveRaises, CleanupFails, Crash, SubmissionFails, PublishFails, Interrupt,
     RewriteReadme, grid
<1>8. QED BY <1>2, <1>3, <1>4, <1>5, <1>6, <1>7

\* No step of the controller gives up the result of a successful job.
LEMMA StepKeepsResults == ASSUME IInv, Next PROVE KeepsResults
<1>. SUFFICES ASSUME NEW j \in DOMAIN jobs,
                     jobs[j].state = "terminated", ledger[jobs[j].batch].job = j,
                     remote[<<jobs[j].batch, jobs[j].attempt>>].receipt = "succeeded",
                     remote[<<jobs[j].batch, jobs[j].attempt>>].commit = commit,
                     ~remote'[<<jobs[j].batch, jobs[j].attempt>>].present
              PROVE  ledger[jobs[j].batch].state = "published"
  BY DEF KeepsResults
<1>1. PICK d \in Batches \X Attempts : d = <<jobs[j].batch, jobs[j].attempt>>
  <2>1. jobs[j] \in Job BY DEF IInv, TypeOK, GridTypeOK
  <2>2. QED BY <2>1 DEF Job
<1>2. remote[d].present
  BY <1>1 DEF IInv, JobInv, NoDirectory
<1>3. (CleanupRemoteJob /\ d = JobRoot) \/ Finalize BY <1>1, <1>2, OnlyCleanupRemoves
<1>4. CASE CleanupRemoteJob /\ d = JobRoot
  <2>1. jobs[j].batch = cur /\ pc = "cleanup" BY <1>1, <1>4 DEF CleanupRemoteJob, JobRoot
  <2>2. CASE Now.state = "failed"
    BY <1>1, <1>4, <2>1, <2>2 DEF IInv, ResultInv, JobState, Now
  <2>3. Now.state \in {"failed", "published"} BY <2>1 DEF IInv, StepInv
  <2>4. QED BY <2>1, <2>2, <2>3 DEF Now
<1>5. CASE Finalize
  <2>1. cur = LastBatch + 1 /\ \A b \in Batches : b < cur => ledger[b].state = "published"
    BY <1>5 DEF Finalize, IInv, StepInv
  <2>2. jobs[j].batch \in Batches BY <1>1
  <2>3. QED BY <2>1, <2>2, ConstantsAssumption DEF Batches
<1>6. QED BY <1>3, <1>4, <1>5

\* No cleanup, interruption or restart removes the result of a successful job
\* before its batch is published (_retrieve_batch, _cleanup_remote_job).
THEOREM ResultsAreKept == Spec => ResultKept
<1>1. IInv /\ [Next]_vars => [KeepsResults]_vars BY StepKeepsResults
<1>2. QED BY <1>1, Invariance, PTL DEF Spec, ResultKept
==============================================================================
