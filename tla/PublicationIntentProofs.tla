----------------------- MODULE PublicationIntentProofs -----------------------
(***************************************************************************)
(* Proofs about PublicationIntent, for every set of regions and every      *)
(* number of jobs, however the two commands alternate on one data root and *)
(* whichever regions each run is given: the durable marker names every     *)
(* region the repository's assets are owed for, save those overtaken in    *)
(* the other command's queue, and the assets are built only when every     *)
(* recorded region the run is responsible for is on the Hub.               *)
(***************************************************************************)
EXTENDS PublicationIntent, TLAPS

------------------------------------------------------------------------------
(* The inductive invariant: the marker *)

QueuedStems == {j.stem : j \in queued}
OwnQueued   == {j.stem : j \in {k \in queued : k.command = command}}
Ending      == main \in {"refresh", "clearRead", "clearWrite", "done"}
Uploaded    == worker \in {"removeRead", "removeWrite", "delete"}

\* Which jobs there are: a run that has not failed still has before it all that is
\* queued for its command, and when it ends only the other command's jobs are left.
JobsInv ==
    /\ \A j \in queued : j.id < ids
    /\ jobs \cap job = {}
    /\ main # "down" => command \in {"sync", "core"}
    /\ main = "down" => jobs = {} /\ job = {} /\ worker = "none"
    /\ main # "down" /\ ~failed => \A j \in queued : j.command = command => j \in jobs \cup job
    /\ worker = "get" => job = {}
    /\ Ending => jobs = {} /\ worker = "get" /\ \A j \in queued : j.command # command
    /\ main \in {"clearRead", "clearWrite", "done"} => stale = {}

\* A marker that names every region the assets are owed for, but for overtaken ones.
Covers(marker) == stale \cup QueuedStems \subseteq marker \cup overtaken

\* The marker on disk does, and so does every copy that will be written to disk.
MarkerInv ==
    /\ Covers(file.marker)
    /\ main = "addWrite" => Covers(env["main"].marker)
    /\ main \in {"markRead", "markWrite"} => Covers(loaded["main"]) /\ cur \subseteq loaded["main"]
    /\ main = "replaceLinks" => Covers(staged.marker)
    /\ worker = "removeWrite" => Covers(env["worker"].marker)
    /\ main = "submit" => cur \subseteq file.marker
    /\ main = "submit" /\ worker = "removeWrite" => cur \subseteq env["worker"].marker

IInv == TypeOK /\ JobsInv /\ MarkerInv

------------------------------------------------------------------------------
(* The inductive invariant: what the marker may name *)

\* Whatever is marked has local artifacts.
LocalInv ==
    /\ legacy \subseteq local /\ cur \subseteq local /\ deferred \subseteq local
    /\ file.marker \subseteq local /\ staged.marker \subseteq local
    /\ \A t \in Threads : env[t].marker \subseteq local
    /\ main \in {"markRead", "markWrite"} => loaded["main"] \subseteq local

\* A submitted region is on the Hub or still queued, and a job is deleted only once
\* its region is on the Hub.
SubmittedInv ==
    /\ submitted \subseteq present \cup OwnQueued
    /\ Uploaded => JobStems \subseteq present
    /\ main \in {"down", "run", "close", "refresh"} => cur = {}
    /\ main = "down" => deferred = {} /\ submitted = {}
    /\ main = "replaceLinks" => cur \subseteq plan
    /\ \A x, y \in cur : x = y

\* A sync still has before it what the marker names of its input and the Hub lacks.
Before(marker) == marker \cap input \subseteq present \cup OwnQueued \cup plan \cup cur

OwedInv ==
    command = "sync" /\ main \notin {"down", "abort"} =>
        /\ Before(file.marker) /\ Before(deferred)
        /\ main = "addWrite" => Before(env["main"].marker)
        /\ main \in {"markRead", "markWrite"} => Before(loaded["main"])
        /\ main = "replaceLinks" => Before(staged.marker)
        /\ worker = "removeWrite" => Before(env["worker"].marker)

RefreshInv ==
    /\ main \in {"close", "refresh"} => plan = {}
    /\ OnlyRegionsNotGivenUnpublished

HubInv == LocalInv /\ SubmittedInv /\ OwedInv /\ RefreshInv

------------------------------------------------------------------------------
(* Lemmas *)

\* One field of an envelope is replaced.
LEMMA EnvelopeFacts ==
    /\ \A e \in Envelope : e.stems \subseteq Stems /\ e.marker \subseteq Stems
    /\ \A e \in Envelope, S \in SUBSET Stems :
           /\ [e EXCEPT !.stems = S] \in Envelope /\ [e EXCEPT !.stems = S].marker = e.marker
           /\ [e EXCEPT !.marker = S] \in Envelope /\ [e EXCEPT !.marker = S].marker = S
    /\ \A S, M \in SUBSET Stems : /\ [stems |-> S, marker |-> M] \in Envelope
                                  /\ [stems |-> S, marker |-> M].marker = M
    /\ "main" \in Threads /\ "worker" \in Threads
  BY DEF Envelope, Threads

\* The types, one fact each.
LEMMA Types ==
    ASSUME TypeOK
    PROVE  /\ file \in Envelope /\ staged \in Envelope
           /\ env \in [Threads -> Envelope] /\ loaded \in [Threads -> SUBSET Stems]
           /\ queued \subseteq Job /\ jobs \subseteq queued /\ job \subseteq queued
           /\ local \subseteq Stems /\ legacy \subseteq Stems /\ present \subseteq Stems
           /\ stale \subseteq Stems /\ plan \subseteq Stems /\ cur \subseteq Stems
           /\ deferred \subseteq Stems /\ submitted \subseteq Stems /\ intended \subseteq Stems
           /\ input \subseteq Stems /\ overtaken \subseteq Stems
           /\ JobStems \subseteq Stems /\ QueuedStems \subseteq Stems /\ JobStems \subseteq QueuedStems
           /\ OtherQueued \subseteq Stems
           /\ lock \in Threads \cup {"free"} /\ ids \in 0..MaxJobs
           /\ lock = "main" <=> main \in {"addWrite", "markWrite", "clearWrite"}
           /\ lock = "worker" <=> worker = "removeWrite"
<1>1. /\ queued \subseteq Job /\ job \subseteq queued
  BY DEF TypeOK
<1>2. /\ JobStems \subseteq Stems /\ QueuedStems \subseteq Stems /\ JobStems \subseteq QueuedStems
      /\ OtherQueued \subseteq Stems
  BY <1>1 DEF JobStems, QueuedStems, OtherQueued, Job
<1>. QED BY <1>2 DEF TypeOK

\* The parts of the type invariant: envelopes, lock, jobs and sets of regions.
FileTypeOK ==
    /\ file \in Envelope /\ staged \in Envelope
    /\ env \in [Threads -> Envelope]
    /\ loaded \in [Threads -> SUBSET Stems]
LockTypeOK ==
    /\ lock \in Threads \cup {"free"}
    /\ lock = "main" <=> main \in {"addWrite", "markWrite", "clearWrite"}
    /\ lock = "worker" <=> worker = "removeWrite"
RegionTypeOK ==
    /\ queued \subseteq Job /\ jobs \subseteq queued /\ job \subseteq queued
    /\ local \subseteq Stems /\ legacy \subseteq Stems /\ present \subseteq Stems
    /\ stale \subseteq Stems /\ plan \subseteq Stems /\ cur \subseteq Stems
    /\ deferred \subseteq Stems /\ submitted \subseteq Stems /\ intended \subseteq Stems
    /\ input \subseteq Stems /\ overtaken \subseteq Stems
    /\ ids \in 0..MaxJobs

LEMMA TypeParts == TypeOK <=> FileTypeOK /\ LockTypeOK /\ RegionTypeOK
  BY DEF TypeOK, FileTypeOK, LockTypeOK, RegionTypeOK

\* Every action keeps the types of the envelopes.
LEMMA FileTypeStep ==
    ASSUME IInv, Next PROVE FileTypeOK'
<1>. USE EnvelopeFacts, Types DEF fileVars, disk, hub, runVars, work, history, FileTypeOK
<1>. TypeOK /\ FileTypeOK /\ RegionTypeOK BY TypeParts DEF IInv
<1>1. ASSUME NEW c \in {"sync", "core"}, Start(c) PROVE FileTypeOK'
  BY <1>1 DEF Start
<1>2. ASSUME NEW r \in Stems, StageLinks(r) PROVE FileTypeOK'
  BY <1>2 DEF StageLinks
<1>3. ASSUME NEW r \in Stems, Complete(r) PROVE FileTypeOK'
  BY <1>3 DEF Complete
<1>4. CASE ReplaceLinks
  BY <1>4 DEF ReplaceLinks
<1>5. CASE AddRead
  BY <1>5 DEF AddRead, Acquire
<1>6. CASE AddWrite
  BY <1>6 DEF AddWrite, SaveStems
<1>7. CASE MarkLoad
  BY <1>7 DEF MarkLoad
<1>8. CASE MarkRead
  BY <1>8 DEF MarkRead, Acquire
<1>9. CASE MarkWrite
  BY <1>9 DEF MarkWrite, SaveMarker
<1>10. CASE Submit
  BY <1>10 DEF Submit
<1>11. CASE Abort
  BY <1>11 DEF Abort
<1>12. CASE PlanDone
  BY <1>12 DEF PlanDone
<1>13. CASE Refresh
  BY <1>13 DEF Refresh
<1>14. CASE RefreshFails
  BY <1>14 DEF RefreshFails, ProcessEnds
<1>15. CASE ClearRead
  BY <1>15 DEF ClearRead, Acquire
<1>16. CASE ClearWrite
  BY <1>16 DEF ClearWrite, SaveMarker
<1>17. CASE Exit
  BY <1>17 DEF Exit, ProcessEnds
<1>18. CASE Crash
  BY <1>18 DEF Crash, ProcessEnds
<1>19. ASSUME NEW j \in jobs, Get(j) PROVE FileTypeOK'
  BY <1>19 DEF Get
<1>20. ASSUME NEW b \in BOOLEAN, Upload(b) PROVE FileTypeOK'
  BY <1>20 DEF Upload, Commit, JobStems
<1>21. ASSUME NEW b \in BOOLEAN, UploadFails(b) PROVE FileTypeOK'
  BY <1>21 DEF UploadFails, Commit, JobStems
<1>22. ASSUME NEW b \in BOOLEAN, Drained(b) PROVE FileTypeOK'
  <2>1. CASE UNCHANGED fileVars /\ UNCHANGED staged
    BY <2>1
  <2>2. CASE ProcessEnds /\ UNCHANGED file
    BY <2>2 DEF ProcessEnds
  <2>. QED BY <1>22, <2>1, <2>2 DEF Drained
<1>23. CASE RemoveRead
  BY <1>23 DEF RemoveRead, Acquire
<1>24. CASE RemoveWrite
  BY <1>24 DEF RemoveWrite, SaveStems
<1>25. CASE Delete
  BY <1>25 DEF Delete
<1>. QED BY <1>1, <1>2, <1>3, <1>4, <1>5, <1>6, <1>7, <1>8, <1>9, <1>10, <1>11, <1>12, <1>13,
          <1>14, <1>15, <1>16, <1>17, <1>18, <1>19, <1>20, <1>21, <1>22, <1>23, <1>24, <1>25 DEF
          Next

\* Every action keeps the lock with the thread inside its read-modify-write.
LEMMA LockTypeStep ==
    ASSUME IInv, Next PROVE LockTypeOK'
<1>. USE DEF fileVars, disk, hub, runVars, work, history, LockTypeOK, Threads
<1>. LockTypeOK /\ JobsInv BY TypeParts DEF IInv
<1>1. ASSUME NEW c \in {"sync", "core"}, Start(c) PROVE LockTypeOK'
  BY <1>1 DEF Start, JobsInv
<1>2. ASSUME NEW r \in Stems, StageLinks(r) PROVE LockTypeOK'
  BY <1>2 DEF StageLinks
<1>3. ASSUME NEW r \in Stems, Complete(r) PROVE LockTypeOK'
  BY <1>3 DEF Complete
<1>4. CASE ReplaceLinks
  BY <1>4 DEF ReplaceLinks
<1>5. CASE AddRead
  BY <1>5 DEF AddRead, Acquire
<1>6. CASE AddWrite
  BY <1>6 DEF AddWrite, SaveStems
<1>7. CASE MarkLoad
  BY <1>7 DEF MarkLoad
<1>8. CASE MarkRead
  BY <1>8 DEF MarkRead, Acquire
<1>9. CASE MarkWrite
  BY <1>9 DEF MarkWrite, SaveMarker
<1>10. CASE Submit
  BY <1>10 DEF Submit
<1>11. CASE Abort
  BY <1>11 DEF Abort
<1>12. CASE PlanDone
  BY <1>12 DEF PlanDone
<1>13. CASE Refresh
  BY <1>13 DEF Refresh
<1>14. CASE RefreshFails
  BY <1>14 DEF RefreshFails, ProcessEnds
<1>15. CASE ClearRead
  BY <1>15 DEF ClearRead, Acquire
<1>16. CASE ClearWrite
  BY <1>16 DEF ClearWrite, SaveMarker
<1>17. CASE Exit
  BY <1>17 DEF Exit, ProcessEnds
<1>18. CASE Crash
  BY <1>18 DEF Crash, ProcessEnds
<1>19. ASSUME NEW j \in jobs, Get(j) PROVE LockTypeOK'
  BY <1>19 DEF Get
<1>20. ASSUME NEW b \in BOOLEAN, Upload(b) PROVE LockTypeOK'
  BY <1>20 DEF Upload, Commit, JobStems
<1>21. ASSUME NEW b \in BOOLEAN, UploadFails(b) PROVE LockTypeOK'
  BY <1>21 DEF UploadFails, Commit, JobStems
<1>22. ASSUME NEW b \in BOOLEAN, Drained(b) PROVE LockTypeOK'
  BY <1>22 DEF Drained, ProcessEnds
<1>23. CASE RemoveRead
  BY <1>23 DEF RemoveRead, Acquire
<1>24. CASE RemoveWrite
  BY <1>24 DEF RemoveWrite, SaveStems
<1>25. CASE Delete
  BY <1>25 DEF Delete
<1>. QED BY <1>1, <1>2, <1>3, <1>4, <1>5, <1>6, <1>7, <1>8, <1>9, <1>10, <1>11, <1>12, <1>13,
          <1>14, <1>15, <1>16, <1>17, <1>18, <1>19, <1>20, <1>21, <1>22, <1>23, <1>24, <1>25 DEF
          Next

\* Every action keeps the types of jobs and sets of regions.
LEMMA RegionTypeStep ==
    ASSUME IInv, Next PROVE RegionTypeOK'
<1>. USE DEF fileVars, disk, hub, runVars, work, history, RegionTypeOK
<1>. /\ RegionTypeOK /\ JobStems \subseteq Stems /\ OtherQueued \subseteq Stems /\ JobsInv
  BY TypeParts, Types DEF IInv
<1>1. ASSUME NEW c \in {"sync", "core"}, Start(c) PROVE RegionTypeOK'
  BY <1>1 DEF Start
<1>2. ASSUME NEW r \in Stems, StageLinks(r) PROVE RegionTypeOK'
  BY <1>2 DEF StageLinks
<1>3. ASSUME NEW r \in Stems, Complete(r) PROVE RegionTypeOK'
  BY <1>3 DEF Complete
<1>4. CASE ReplaceLinks
  BY <1>4 DEF ReplaceLinks
<1>5. CASE AddRead
  BY <1>5 DEF AddRead, Acquire
<1>6. CASE AddWrite
  BY <1>6 DEF AddWrite, SaveStems
<1>7. CASE MarkLoad
  BY <1>7 DEF MarkLoad
<1>8. CASE MarkRead
  BY <1>8 DEF MarkRead, Acquire
<1>9. CASE MarkWrite
  BY <1>9 DEF MarkWrite, SaveMarker
<1>10. CASE Submit
  <2>1. /\ ids < MaxJobs /\ ids' = ids + 1 /\ cur' = {} /\ submitted' = submitted \cup cur
        /\ intended' = intended \ cur
        /\ UNCHANGED <<local, legacy, present, stale, input, plan, deferred, job, overtaken>>
    BY <1>10 DEF Submit
  <2>2. PICK r \in cur :
            /\ queued' = queued \cup {[id |-> ids, stem |-> r, command |-> command]}
            /\ jobs' = jobs \cup {[id |-> ids, stem |-> r, command |-> command]}
    BY <1>10 DEF Submit
  <2>3. ids \in 0..MaxJobs /\ ids' \in 0..MaxJobs
    BY <2>1, ConstantsAssumption
  <2>4. command \in {"sync", "core"}
    BY <1>10 DEF Submit, JobsInv
  <2>5. [id |-> ids, stem |-> r, command |-> command] \in Job
    BY <2>3, <2>4 DEF Job
  <2>. QED BY <2>1, <2>2, <2>3, <2>5
<1>11. CASE Abort
  BY <1>11 DEF Abort
<1>12. CASE PlanDone
  BY <1>12 DEF PlanDone
<1>13. CASE Refresh
  BY <1>13 DEF Refresh
<1>14. CASE RefreshFails
  BY <1>14 DEF RefreshFails, ProcessEnds
<1>15. CASE ClearRead
  BY <1>15 DEF ClearRead, Acquire
<1>16. CASE ClearWrite
  BY <1>16 DEF ClearWrite, SaveMarker
<1>17. CASE Exit
  BY <1>17 DEF Exit, ProcessEnds
<1>18. CASE Crash
  BY <1>18 DEF Crash, ProcessEnds
<1>19. ASSUME NEW j \in jobs, Get(j) PROVE RegionTypeOK'
  BY <1>19 DEF Get
<1>20. ASSUME NEW b \in BOOLEAN, Upload(b) PROVE RegionTypeOK'
  BY <1>20 DEF Upload, Commit, JobStems
<1>21. ASSUME NEW b \in BOOLEAN, UploadFails(b) PROVE RegionTypeOK'
  BY <1>21 DEF UploadFails, Commit, JobStems
<1>22. ASSUME NEW b \in BOOLEAN, Drained(b) PROVE RegionTypeOK'
  BY <1>22 DEF Drained, ProcessEnds
<1>23. CASE RemoveRead
  BY <1>23 DEF RemoveRead, Acquire
<1>24. CASE RemoveWrite
  BY <1>24 DEF RemoveWrite, SaveStems
<1>25. CASE Delete
  BY <1>25 DEF Delete, JobsInv
<1>. QED BY <1>1, <1>2, <1>3, <1>4, <1>5, <1>6, <1>7, <1>8, <1>9, <1>10, <1>11, <1>12, <1>13,
          <1>14, <1>15, <1>16, <1>17, <1>18, <1>19, <1>20, <1>21, <1>22, <1>23, <1>24, <1>25 DEF
          Next

\* Every action keeps the types.
LEMMA TypeStep ==
    ASSUME IInv, Next PROVE TypeOK'
<1>1. (FileTypeOK /\ LockTypeOK /\ RegionTypeOK)'
  BY FileTypeStep, LockTypeStep, RegionTypeStep
<1>2. (FileTypeOK /\ LockTypeOK /\ RegionTypeOK)' => TypeOK'
  BY DEF TypeOK, FileTypeOK, LockTypeOK, RegionTypeOK
<1>. QED BY <1>1, <1>2

\* Every action keeps track of the jobs.
LEMMA JobsStep ==
    ASSUME IInv, Next PROVE JobsInv'
<1>. USE DEF fileVars, disk, hub, runVars, work, history, JobsInv, Ending
<1>. JobsInv /\ jobs \subseteq queued /\ job \subseteq queued /\ ids \in Nat BY Types DEF IInv
<1>1. ASSUME NEW c \in {"sync", "core"}, Start(c) PROVE JobsInv'
  BY <1>1 DEF Start
<1>2. ASSUME NEW r \in Stems, StageLinks(r) PROVE JobsInv'
  BY <1>2 DEF StageLinks
<1>3. ASSUME NEW r \in Stems, Complete(r) PROVE JobsInv'
  BY <1>3 DEF Complete
<1>4. CASE ReplaceLinks
  BY <1>4 DEF ReplaceLinks
<1>5. CASE AddRead
  BY <1>5 DEF AddRead, Acquire
<1>6. CASE AddWrite
  BY <1>6 DEF AddWrite, SaveStems
<1>7. CASE MarkLoad
  BY <1>7 DEF MarkLoad
<1>8. CASE MarkRead
  BY <1>8 DEF MarkRead, Acquire
<1>9. CASE MarkWrite
  BY <1>9 DEF MarkWrite, SaveMarker
<1>10. CASE Submit
  <2>1. PICK r \in cur :
            /\ queued' = queued \cup {[id |-> ids, stem |-> r, command |-> command]}
            /\ jobs' = jobs \cup {[id |-> ids, stem |-> r, command |-> command]}
    BY <1>10 DEF Submit
  <2>2. /\ main = "submit" /\ main' = "run" /\ ids' = ids + 1
        /\ UNCHANGED <<command, failed, worker, job, stale>>
    BY <1>10 DEF Submit
  <2>3. \A j \in queued : j.id \in Nat
    BY Types DEF IInv, Job
  <2>4. \A j \in queued' : j.id < ids'
    BY <2>1, <2>2, <2>3
  <2>5. [id |-> ids, stem |-> r, command |-> command] \notin queued
    BY <2>3
  <2>6. jobs' \cap job' = {}
    BY <2>1, <2>2, <2>5
  <2>. QED BY <2>1, <2>2, <2>4, <2>6
<1>11. CASE Abort
  BY <1>11 DEF Abort
<1>12. CASE PlanDone
  BY <1>12 DEF PlanDone
<1>13. CASE Refresh
  BY <1>13 DEF Refresh
<1>14. CASE RefreshFails
  BY <1>14 DEF RefreshFails, ProcessEnds
<1>15. CASE ClearRead
  BY <1>15 DEF ClearRead, Acquire
<1>16. CASE ClearWrite
  BY <1>16 DEF ClearWrite, SaveMarker
<1>17. CASE Exit
  BY <1>17 DEF Exit, ProcessEnds
<1>18. CASE Crash
  BY <1>18 DEF Crash, ProcessEnds
<1>19. ASSUME NEW j \in jobs, Get(j) PROVE JobsInv'
  BY <1>19 DEF Get
<1>20. ASSUME NEW b \in BOOLEAN, Upload(b) PROVE JobsInv'
  BY <1>20 DEF Upload, Commit, JobStems
<1>21. ASSUME NEW b \in BOOLEAN, UploadFails(b) PROVE JobsInv'
  BY <1>21 DEF UploadFails, Commit, JobStems
<1>22. ASSUME NEW b \in BOOLEAN, Drained(b) PROVE JobsInv'
  <2>1. jobs = {} /\ worker = "get" /\ main \in {"close", "abort"}
    BY <1>22 DEF Drained
  <2>2. CASE /\ main' = "refresh" /\ ~failed
             /\ UNCHANGED <<fileVars, disk, runVars, work, history>>
    BY <2>1, <2>2
  <2>3. CASE ProcessEnds
    BY <2>3 DEF ProcessEnds
  <2>. QED BY <1>22, <2>2, <2>3, Zenon DEF Drained
<1>23. CASE RemoveRead
  BY <1>23 DEF RemoveRead, Acquire
<1>24. CASE RemoveWrite
  BY <1>24 DEF RemoveWrite, SaveStems
<1>25. CASE Delete
  BY <1>25 DEF Delete
<1>. QED BY <1>1, <1>2, <1>3, <1>4, <1>5, <1>6, <1>7, <1>8, <1>9, <1>10, <1>11, <1>12, <1>13,
          <1>14, <1>15, <1>16, <1>17, <1>18, <1>19, <1>20, <1>21, <1>22, <1>23, <1>24, <1>25 DEF
          Next

\* Every action keeps the marker, and every copy of it that will be written, complete.
LEMMA MarkerStep ==
    ASSUME IInv, Next PROVE MarkerInv'
<1>. USE EnvelopeFacts, Types DEF fileVars, disk, hub, runVars, work, history, MarkerInv, Covers, QueuedStems
<1>. TypeOK /\ JobsInv /\ MarkerInv BY DEF IInv
<1>. Ending => QueuedStems \subseteq OtherQueued BY DEF JobsInv, OtherQueued
<1>1. ASSUME NEW c \in {"sync", "core"}, Start(c) PROVE MarkerInv'
  BY <1>1 DEF Start
<1>2. ASSUME NEW r \in Stems, StageLinks(r) PROVE MarkerInv'
  BY <1>2 DEF StageLinks
<1>3. ASSUME NEW r \in Stems, Complete(r) PROVE MarkerInv'
  BY <1>3 DEF Complete
<1>4. CASE ReplaceLinks
  BY <1>4 DEF ReplaceLinks
<1>5. CASE AddRead
  BY <1>5 DEF AddRead, Acquire
<1>6. CASE AddWrite
  BY <1>6 DEF AddWrite, SaveStems
<1>7. CASE MarkLoad
  BY <1>7 DEF MarkLoad
<1>8. CASE MarkRead
  BY <1>8 DEF MarkRead, Acquire
<1>9. CASE MarkWrite
  BY <1>9 DEF MarkWrite, SaveMarker
<1>10. CASE Submit
  BY <1>10 DEF Submit
<1>11. CASE Abort
  BY <1>11 DEF Abort
<1>12. CASE PlanDone
  BY <1>12 DEF PlanDone
<1>13. CASE Refresh
  BY <1>13 DEF Refresh, Ending, JobsInv
<1>14. CASE RefreshFails
  BY <1>14 DEF RefreshFails, ProcessEnds
<1>15. CASE ClearRead
  BY <1>15 DEF ClearRead, Acquire
<1>16. CASE ClearWrite
  <2>1. stale = {} /\ QueuedStems \subseteq overtaken'
    BY <1>16 DEF ClearWrite, JobsInv, Ending, OtherQueued
  <2>2. main' = "done" /\ worker = "get" /\ UNCHANGED <<worker, stale, queued>>
    BY <1>16 DEF ClearWrite, JobsInv, Ending
  <2>. QED BY <2>1, <2>2
<1>17. CASE Exit
  BY <1>17 DEF Exit, ProcessEnds
<1>18. CASE Crash
  BY <1>18 DEF Crash, ProcessEnds
<1>19. ASSUME NEW j \in jobs, Get(j) PROVE MarkerInv'
  BY <1>19 DEF Get
<1>20. ASSUME NEW b \in BOOLEAN, Upload(b) PROVE MarkerInv'
  BY <1>20 DEF Upload, Commit, JobStems
<1>21. ASSUME NEW b \in BOOLEAN, UploadFails(b) PROVE MarkerInv'
  BY <1>21 DEF UploadFails, Commit, JobStems
<1>22. ASSUME NEW b \in BOOLEAN, Drained(b) PROVE MarkerInv'
  BY <1>22 DEF Drained, ProcessEnds
<1>23. CASE RemoveRead
  BY <1>23 DEF RemoveRead, Acquire
<1>24. CASE RemoveWrite
  BY <1>24 DEF RemoveWrite, SaveStems
<1>25. CASE Delete
  BY <1>25 DEF Delete
<1>. QED BY <1>1, <1>2, <1>3, <1>4, <1>5, <1>6, <1>7, <1>8, <1>9, <1>10, <1>11, <1>12, <1>13,
          <1>14, <1>15, <1>16, <1>17, <1>18, <1>19, <1>20, <1>21, <1>22, <1>23, <1>24, <1>25 DEF
          Next

\* Every action marks only regions with local artifacts.
LEMMA LocalStep ==
    ASSUME IInv, LocalInv, Next PROVE LocalInv'
<1>. USE EnvelopeFacts, Types DEF fileVars, disk, hub, runVars, work, history, LocalInv
<1>. TypeOK /\ LocalInv BY DEF IInv
<1>1. ASSUME NEW c \in {"sync", "core"}, Start(c) PROVE LocalInv'
  BY <1>1 DEF Start
<1>2. ASSUME NEW r \in Stems, StageLinks(r) PROVE LocalInv'
  BY <1>2 DEF StageLinks
<1>3. ASSUME NEW r \in Stems, Complete(r) PROVE LocalInv'
  BY <1>3 DEF Complete
<1>4. CASE ReplaceLinks
  BY <1>4 DEF ReplaceLinks
<1>5. CASE AddRead
  BY <1>5 DEF AddRead, Acquire
<1>6. CASE AddWrite
  BY <1>6 DEF AddWrite, SaveStems
<1>7. CASE MarkLoad
  BY <1>7 DEF MarkLoad
<1>8. CASE MarkRead
  BY <1>8 DEF MarkRead, Acquire
<1>9. CASE MarkWrite
  BY <1>9 DEF MarkWrite, SaveMarker
<1>10. CASE Submit
  BY <1>10 DEF Submit
<1>11. CASE Abort
  BY <1>11 DEF Abort
<1>12. CASE PlanDone
  BY <1>12 DEF PlanDone
<1>13. CASE Refresh
  BY <1>13 DEF Refresh
<1>14. CASE RefreshFails
  BY <1>14 DEF RefreshFails, ProcessEnds
<1>15. CASE ClearRead
  BY <1>15 DEF ClearRead, Acquire
<1>16. CASE ClearWrite
  BY <1>16 DEF ClearWrite, SaveMarker
<1>17. CASE Exit
  BY <1>17 DEF Exit, ProcessEnds
<1>18. CASE Crash
  BY <1>18 DEF Crash, ProcessEnds
<1>19. ASSUME NEW j \in jobs, Get(j) PROVE LocalInv'
  BY <1>19 DEF Get
<1>20. ASSUME NEW b \in BOOLEAN, Upload(b) PROVE LocalInv'
  BY <1>20 DEF Upload, Commit, JobStems
<1>21. ASSUME NEW b \in BOOLEAN, UploadFails(b) PROVE LocalInv'
  BY <1>21 DEF UploadFails, Commit, JobStems
<1>22. ASSUME NEW b \in BOOLEAN, Drained(b) PROVE LocalInv'
  BY <1>22 DEF Drained, ProcessEnds
<1>23. CASE RemoveRead
  BY <1>23 DEF RemoveRead, Acquire
<1>24. CASE RemoveWrite
  BY <1>24 DEF RemoveWrite, SaveStems
<1>25. CASE Delete
  BY <1>25 DEF Delete
<1>. QED BY <1>1, <1>2, <1>3, <1>4, <1>5, <1>6, <1>7, <1>8, <1>9, <1>10, <1>11, <1>12, <1>13,
          <1>14, <1>15, <1>16, <1>17, <1>18, <1>19, <1>20, <1>21, <1>22, <1>23, <1>24, <1>25 DEF
          Next

\* The job of the region at hand is durable when submit returns.
LEMMA SubmitQueues ==
    ASSUME Submit, \A x, y \in cur : x = y
    PROVE  OwnQueued' = OwnQueued \cup cur
<1>1. PICK r \in cur : queued' = queued \cup {[id |-> ids, stem |-> r, command |-> command]}
  BY DEF Submit
<1>2. cur = {r} /\ command' = command
  BY <1>1 DEF Submit
<1>3. /\ [id |-> ids, stem |-> r, command |-> command].stem = r
      /\ [id |-> ids, stem |-> r, command |-> command].command = command
  OBVIOUS
<1>. QED BY <1>1, <1>2, <1>3 DEF OwnQueued

\* Every action keeps submitted regions queued until they are on the Hub.
LEMMA SubmittedStep ==
    ASSUME IInv, SubmittedInv, Next PROVE SubmittedInv'
<1>. USE Types DEF fileVars, disk, hub, runVars, work, history, SubmittedInv, OwnQueued, JobStems, Uploaded
<1>. TypeOK /\ JobsInv BY DEF IInv
<1>1. ASSUME NEW c \in {"sync", "core"}, Start(c) PROVE SubmittedInv'
  BY <1>1 DEF Start
<1>2. ASSUME NEW r \in Stems, StageLinks(r) PROVE SubmittedInv'
  BY <1>2 DEF StageLinks
<1>3. ASSUME NEW r \in Stems, Complete(r) PROVE SubmittedInv'
  BY <1>3 DEF Complete
<1>4. CASE ReplaceLinks
  BY <1>4 DEF ReplaceLinks
<1>5. CASE AddRead
  BY <1>5 DEF AddRead, Acquire
<1>6. CASE AddWrite
  BY <1>6 DEF AddWrite, SaveStems
<1>7. CASE MarkLoad
  BY <1>7 DEF MarkLoad
<1>8. CASE MarkRead
  BY <1>8 DEF MarkRead, Acquire
<1>9. CASE MarkWrite
  BY <1>9 DEF MarkWrite, SaveMarker
<1>10. CASE Submit
  <2>3. OwnQueued' = OwnQueued \cup cur
    BY <1>10, SubmitQueues DEF SubmittedInv
  <2>4. /\ submitted' = submitted \cup cur /\ cur' = {} /\ main' = "run"
        /\ UNCHANGED <<present, worker, job, deferred>>
    BY <1>10 DEF Submit
  <2>. QED BY <2>3, <2>4
<1>11. CASE Abort
  BY <1>11 DEF Abort
<1>12. CASE PlanDone
  BY <1>12 DEF PlanDone
<1>13. CASE Refresh
  BY <1>13 DEF Refresh
<1>14. CASE RefreshFails
  BY <1>14 DEF RefreshFails, ProcessEnds
<1>15. CASE ClearRead
  BY <1>15 DEF ClearRead, Acquire
<1>16. CASE ClearWrite
  BY <1>16 DEF ClearWrite, SaveMarker
<1>17. CASE Exit
  BY <1>17 DEF Exit, ProcessEnds
<1>18. CASE Crash
  BY <1>18 DEF Crash, ProcessEnds
<1>19. ASSUME NEW j \in jobs, Get(j) PROVE SubmittedInv'
  BY <1>19 DEF Get
<1>20. ASSUME NEW b \in BOOLEAN, Upload(b) PROVE SubmittedInv'
  BY <1>20 DEF Upload, Commit, JobStems
<1>21. ASSUME NEW b \in BOOLEAN, UploadFails(b) PROVE SubmittedInv'
  BY <1>21 DEF UploadFails, Commit, JobStems
<1>22. ASSUME NEW b \in BOOLEAN, Drained(b) PROVE SubmittedInv'
  BY <1>22 DEF Drained, ProcessEnds
<1>23. CASE RemoveRead
  BY <1>23 DEF RemoveRead, Acquire
<1>24. CASE RemoveWrite
  BY <1>24 DEF RemoveWrite, SaveStems
<1>25. CASE Delete
  BY <1>25 DEF Delete
<1>. QED BY <1>1, <1>2, <1>3, <1>4, <1>5, <1>6, <1>7, <1>8, <1>9, <1>10, <1>11, <1>12, <1>13,
          <1>14, <1>15, <1>16, <1>17, <1>18, <1>19, <1>20, <1>21, <1>22, <1>23, <1>24, <1>25 DEF
          Next

\* Every action of a sync keeps before it what the marker names and the Hub lacks.
LEMMA OwedStep ==
    ASSUME IInv, LocalInv, SubmittedInv, OwedInv, Next PROVE OwedInv'
<1>. USE EnvelopeFacts, Types DEF fileVars, disk, hub, runVars, work, history, OwedInv, Before, OwnQueued, JobStems
<1>. TypeOK /\ JobsInv /\ LocalInv /\ SubmittedInv BY DEF IInv
<1>1. ASSUME NEW c \in {"sync", "core"}, Start(c) PROVE OwedInv'
  <2>1. /\ main = "down" /\ main' = "run" /\ worker' = "get" /\ command' = c
        /\ UNCHANGED <<file, env, loaded, staged, deferred, cur, queued, present>>
    BY <1>1 DEF Start
  <2>2. c = "sync" => input' \cap Owed \subseteq plan'
    BY <1>1 DEF Start
  <2>3. \A x \in file.marker : x \in present \/ x \in Owed
    BY DEF LocalInv, Owed
  <2>4. deferred = {}
    BY <2>1 DEF SubmittedInv
  <2>. QED BY <2>1, <2>2, <2>3, <2>4
<1>2. ASSUME NEW r \in Stems, StageLinks(r) PROVE OwedInv'
  <2>1. /\ main = "run" /\ main' = "replaceLinks" /\ cur' = {r} /\ cur = {} /\ command = "sync"
        /\ staged' = [stems |-> file.stems \cup {r}, marker |-> file.marker \cup {r}]
        /\ UNCHANGED <<file, env, loaded, deferred, plan, queued, present, command, input, worker>>
    BY <1>2 DEF StageLinks, SubmittedInv
  <2>2. staged'.marker = file.marker \cup {r}
    BY <2>1
  <2>. QED BY <2>1, <2>2
<1>3. ASSUME NEW r \in Stems, Complete(r) PROVE OwedInv'
  <2>1. /\ main = "run" /\ main' \in {"addRead", "markLoad"} /\ cur' = {r} /\ cur = {}
        /\ plan' = plan \ {r}
        /\ UNCHANGED <<file, env, staged, deferred, queued, present, command, input, worker>>
    BY <1>3 DEF Complete, SubmittedInv
  <2>. QED BY <2>1
<1>4. CASE ReplaceLinks
  <2>1. /\ main = "replaceLinks" /\ main' = "run" /\ cur' = {} /\ file' = staged
        /\ UNCHANGED <<env, loaded, deferred, plan, queued, present, command, input, worker>>
    BY <1>4 DEF ReplaceLinks
  <2>2. command = "sync" => cur \subseteq plan
    BY <2>1 DEF SubmittedInv
  <2>. QED BY <2>1, <2>2
<1>5. CASE AddRead
  BY <1>5 DEF AddRead, Acquire
<1>6. CASE AddWrite
  BY <1>6 DEF AddWrite, SaveStems
<1>7. CASE MarkLoad
  BY <1>7 DEF MarkLoad
<1>8. CASE MarkRead
  BY <1>8 DEF MarkRead, Acquire
<1>9. CASE MarkWrite
  BY <1>9 DEF MarkWrite, SaveMarker
<1>10. CASE Submit
  <2>3. OwnQueued' = OwnQueued \cup cur
    BY <1>10, SubmitQueues DEF SubmittedInv
  <2>4. /\ main = "submit" /\ main' = "run" /\ cur' = {}
        /\ UNCHANGED <<file, env, loaded, staged, deferred, plan, present, command, input, worker>>
    BY <1>10 DEF Submit
  <2>. QED BY <2>3, <2>4
<1>11. CASE Abort
  BY <1>11 DEF Abort
<1>12. CASE PlanDone
  BY <1>12 DEF PlanDone
<1>13. CASE Refresh
  BY <1>13 DEF Refresh
<1>14. CASE RefreshFails
  BY <1>14 DEF RefreshFails, ProcessEnds
<1>15. CASE ClearRead
  BY <1>15 DEF ClearRead, Acquire
<1>16. CASE ClearWrite
  BY <1>16 DEF ClearWrite, SaveMarker
<1>17. CASE Exit
  BY <1>17 DEF Exit, ProcessEnds
<1>18. CASE Crash
  BY <1>18 DEF Crash, ProcessEnds
<1>19. ASSUME NEW j \in jobs, Get(j) PROVE OwedInv'
  BY <1>19 DEF Get
<1>20. ASSUME NEW b \in BOOLEAN, Upload(b) PROVE OwedInv'
  BY <1>20 DEF Upload, Commit, JobStems
<1>21. ASSUME NEW b \in BOOLEAN, UploadFails(b) PROVE OwedInv'
  BY <1>21 DEF UploadFails, Commit, JobStems
<1>22. ASSUME NEW b \in BOOLEAN, Drained(b) PROVE OwedInv'
  BY <1>22 DEF Drained, ProcessEnds
<1>23. CASE RemoveRead
  BY <1>23 DEF RemoveRead, Acquire
<1>24. CASE RemoveWrite
  BY <1>24 DEF RemoveWrite, SaveStems
<1>25. CASE Delete
  <2>1. /\ worker = "delete" /\ worker' = "get" /\ queued' = queued \ job
        /\ UNCHANGED <<file, env, loaded, staged, deferred, plan, cur, present, command, input, main>>
    BY <1>25 DEF Delete
  <2>2. \A x \in OwnQueued : x \in present \/ x \in OwnQueued'
    BY <2>1 DEF SubmittedInv, Uploaded
  <2>. QED BY <2>1, <2>2
<1>. QED BY <1>1, <1>2, <1>3, <1>4, <1>5, <1>6, <1>7, <1>8, <1>9, <1>10, <1>11, <1>12, <1>13,
          <1>14, <1>15, <1>16, <1>17, <1>18, <1>19, <1>20, <1>21, <1>22, <1>23, <1>24, <1>25 DEF
          Next

\* Every action keeps the refresh behind the publications it describes.
LEMMA RefreshStep ==
    ASSUME IInv, HubInv, Next PROVE RefreshInv'
<1>. USE Types DEF fileVars, disk, hub, runVars, work, history, RefreshInv, OnlyRegionsNotGivenUnpublished
<1>. TypeOK /\ JobsInv /\ LocalInv /\ SubmittedInv /\ OwedInv /\ RefreshInv BY DEF IInv, HubInv
<1>1. ASSUME NEW c \in {"sync", "core"}, Start(c) PROVE RefreshInv'
  BY <1>1 DEF Start
<1>2. ASSUME NEW r \in Stems, StageLinks(r) PROVE RefreshInv'
  BY <1>2 DEF StageLinks
<1>3. ASSUME NEW r \in Stems, Complete(r) PROVE RefreshInv'
  BY <1>3 DEF Complete
<1>4. CASE ReplaceLinks
  BY <1>4 DEF ReplaceLinks
<1>5. CASE AddRead
  BY <1>5 DEF AddRead, Acquire
<1>6. CASE AddWrite
  BY <1>6 DEF AddWrite, SaveStems
<1>7. CASE MarkLoad
  BY <1>7 DEF MarkLoad
<1>8. CASE MarkRead
  BY <1>8 DEF MarkRead, Acquire
<1>9. CASE MarkWrite
  BY <1>9 DEF MarkWrite, SaveMarker
<1>10. CASE Submit
  BY <1>10 DEF Submit
<1>11. CASE Abort
  BY <1>11 DEF Abort
<1>12. CASE PlanDone
  BY <1>12 DEF PlanDone
<1>13. CASE Refresh
  BY <1>13 DEF Refresh
<1>14. CASE RefreshFails
  BY <1>14 DEF RefreshFails, ProcessEnds
<1>15. CASE ClearRead
  BY <1>15 DEF ClearRead, Acquire
<1>16. CASE ClearWrite
  BY <1>16 DEF ClearWrite, SaveMarker
<1>17. CASE Exit
  BY <1>17 DEF Exit, ProcessEnds
<1>18. CASE Crash
  BY <1>18 DEF Crash, ProcessEnds
<1>19. ASSUME NEW j \in jobs, Get(j) PROVE RefreshInv'
  BY <1>19 DEF Get
<1>20. ASSUME NEW b \in BOOLEAN, Upload(b) PROVE RefreshInv'
  BY <1>20 DEF Upload, Commit, JobStems
<1>21. ASSUME NEW b \in BOOLEAN, UploadFails(b) PROVE RefreshInv'
  BY <1>21 DEF UploadFails, Commit, JobStems
<1>22. ASSUME NEW b \in BOOLEAN, Drained(b) PROVE RefreshInv'
  <2>1. /\ jobs = {} /\ worker = "get" /\ main \in {"close", "abort"}
        /\ UNCHANGED <<present, stale>>
    BY <1>22 DEF Drained
  <2>2. CASE /\ main = "close" /\ main' = "refresh" /\ ~failed /\ RefreshRequired(b)
             /\ UNCHANGED <<fileVars, disk, runVars, work, history>>
    <3>1. OwnQueued = {}
      BY <2>1, <2>2 DEF JobsInv, OwnQueued
    <3>2. cur = {} /\ plan = {}
      BY <2>2 DEF SubmittedInv
    <3>3. CASE command = "sync"
      <4>1. file.marker \cap input \subseteq present
        BY <2>2, <3>1, <3>2, <3>3 DEF OwedInv, Before
      <4>2. file.marker \subseteq Stems
        BY EnvelopeFacts
      <4>. QED BY <2>1, <2>2, <3>2, <3>3, <4>1, <4>2
    <3>4. CASE command # "sync"
      BY <2>1, <2>2, <3>1, <3>2, <3>4 DEF RefreshRequired, SubmittedInv
    <3>. QED BY <3>3, <3>4
  <2>3. CASE ProcessEnds
    BY <2>3 DEF ProcessEnds
  <2>. QED BY <1>22, <2>2, <2>3, Zenon DEF Drained
<1>23. CASE RemoveRead
  BY <1>23 DEF RemoveRead, Acquire
<1>24. CASE RemoveWrite
  BY <1>24 DEF RemoveWrite, SaveStems, JobsInv, Ending
<1>25. CASE Delete
  BY <1>25 DEF Delete
<1>. QED BY <1>1, <1>2, <1>3, <1>4, <1>5, <1>6, <1>7, <1>8, <1>9, <1>10, <1>11, <1>12, <1>13,
          <1>14, <1>15, <1>16, <1>17, <1>18, <1>19, <1>20, <1>21, <1>22, <1>23, <1>24, <1>25 DEF
          Next

\* Both invariants hold of a data root that was never used, and every step keeps them.
LEMMA Initially ==
    ASSUME Init
    PROVE  IInv /\ HubInv
<1>0. file = [stems |-> {}, marker |-> {}] /\ file \in Envelope /\ file.marker = {}
  BY EnvelopeFacts DEF Init
<1>1. TypeOK
  <2>1. FileTypeOK
    BY <1>0 DEF Init, FileTypeOK
  <2>2. LockTypeOK
    BY DEF Init, LockTypeOK
  <2>3. RegionTypeOK
    BY ConstantsAssumption DEF Init, RegionTypeOK
  <2>. QED BY <2>1, <2>2, <2>3, TypeParts
<1>2. JobsInv
  BY ConstantsAssumption DEF Init, JobsInv, Ending
<1>3. MarkerInv
  BY <1>0 DEF Init, MarkerInv, Covers, QueuedStems
<1>4. LocalInv
  BY <1>0 DEF Init, LocalInv
<1>5. SubmittedInv /\ OwedInv /\ RefreshInv
  BY <1>0 DEF Init, SubmittedInv, OwnQueued, Uploaded, Before, OwedInv, RefreshInv, OnlyRegionsNotGivenUnpublished
<1>. QED BY <1>1, <1>2, <1>3, <1>4, <1>5 DEF IInv, HubInv

LEMMA NextIInv ==
    ASSUME IInv, [Next]_vars PROVE IInv'
<1>1. CASE Next
  BY <1>1, TypeStep, JobsStep, MarkerStep DEF IInv
<1>2. CASE UNCHANGED vars
  BY <1>2 DEF IInv, TypeOK, JobsInv, Ending, MarkerInv, Covers, QueuedStems, vars, fileVars, disk,
              hub, runVars, work, history
<1>. QED BY <1>1, <1>2

LEMMA NextHubInv ==
    ASSUME IInv, HubInv, [Next]_vars PROVE HubInv'
<1>1. CASE Next
  BY <1>1, LocalStep, SubmittedStep, OwedStep, RefreshStep DEF HubInv
<1>2. CASE UNCHANGED vars
  BY <1>2 DEF HubInv, LocalInv, SubmittedInv, Uploaded, JobStems, OwnQueued, OwedInv, Before,
              RefreshInv, OnlyRegionsNotGivenUnpublished, vars, fileVars, disk, hub, runVars, work, history
<1>. QED BY <1>1, <1>2

------------------------------------------------------------------------------
(* Theorems *)

\* The inductive invariant of the marker holds in every reachable state.
THEOREM Invariance == Spec => []IInv
<1>1. Init => IInv
  BY Initially
<1>2. IInv /\ [Next]_vars => IInv'
  BY NextIInv
<1>. QED BY <1>1, <1>2, PTL DEF Spec

\* Every variable keeps its type, and the envelope's lock is held exactly by the
\* thread inside its read-modify-write (_ENVELOPE_LOCK).
THEOREM TypeCorrect == Spec => []TypeOK
<1>1. IInv => TypeOK
  BY DEF IInv
<1>. QED BY <1>1, Invariance, PTL

\* For any regions, jobs, crashes and failures, however the two commands alternate,
\* and also though a link migration replaces the envelope without the lock: a region
\* that waits in an upload queue, or was committed since the assets of the repository
\* were, is named by the durable marker, unless its job waited in the other command's
\* queue when the marker was last cleared (_record_deferred_metadata before submit,
\* clear only after a clean drain of the own queue).
THEOREM OnlyOvertakenAreUnrecorded == Spec => []OnlyOvertakenUnrecorded
<1>1. IInv => OnlyOvertakenUnrecorded
  BY DEF IInv, MarkerInv, Covers, QueuedStems, OnlyOvertakenUnrecorded
<1>. QED BY <1>1, Invariance, PTL

\* For any input and any mix of the commands: the assets of the whole repository are
\* built only when every recorded region is on the Hub that the run is responsible
\* for: all of them for process-dir, its input for unified sync (the refresh after
\* _close_uploads).
THEOREM AssetsDescribePublished == Spec => []OnlyRegionsNotGivenUnpublished
<1>1. Init => HubInv
  BY Initially
<1>2. IInv /\ HubInv /\ [Next]_vars => HubInv'
  BY NextHubInv
<1>3. HubInv => OnlyRegionsNotGivenUnpublished
  BY DEF HubInv, RefreshInv
<1>. QED BY <1>1, <1>2, <1>3, Invariance, PTL DEF Spec
==============================================================================
