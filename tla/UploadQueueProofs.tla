-------------------------- MODULE UploadQueueProofs --------------------------
(***************************************************************************)
(* Proofs about UploadQueue, for every value of its constants: the types,  *)
(* the discipline of sequences and snapshots, the order of the queue, and  *)
(* that the queue with its crashes and restarts implements DurableOutbox.  *)
(***************************************************************************)
EXTENDS UploadQueue, SequenceTheorems, WellFoundedInduction, TLAPS

------------------------------------------------------------------------------
(* The inductive invariant *)

Persisting == main \in {"copy", "write"}
Opening    == \/ main \in {"resume", "upgrade"}
              \/ Persisting /\ origin = "upgrade"
              \/ main = "unlinkLegacy"
Working    == worker \in {"verify", "attempt", "wait", "unlink"}

\* Attempts stay within the budget.
RetryInv == worker = "wait" => attempt < Attempts

\* Where the two threads can be together.
ThreadInv ==
    /\ main = "down" <=> worker = "none"
    /\ main = "down" => jobs = <<>> /\ job = Pill
    /\ main = "unlinkLegacy" => origin = "upgrade"
    /\ main = "put" => origin # "upgrade"
    /\ Opening => jobs = <<>> /\ worker = "get" /\ job = Pill
    /\ found # {} => Opening \/ main \in {"enqueue", "raised"}
    /\ worker = "dead" => main \in {"join", "drained"}
    /\ (worker = "dead" \/ main = "drained") => jobs = <<>>
    /\ \A n \in DOMAIN jobs : jobs[n] = Pill => main = "join"

\* Every sequence on disk is at most the high-water mark, which is below the
\* next one to be used.
SequenceInv ==
    /\ envelopes \subseteq accepted
    /\ delivered \subseteq accepted
    /\ \A e, f \in accepted : e.sequence = f.sequence => e = f
    /\ \A e \in accepted : e.sequence <= highwater
    /\ \A s \in Sequence : snapshot[s] # Missing => s <= highwater
    /\ main # "down" => highwater < nextSequence
    /\ Persisting => /\ current \in Job
                     /\ current.sequence = highwater
                     /\ \A e \in accepted : e.sequence < current.sequence

\* The snapshot of the job being written, of every envelope and of the job
\* being uploaded.
SnapshotInv ==
    /\ main = "write" => current.sha = Missing \/ snapshot[current.sequence] = current.sha
    /\ EnvelopeHasSnapshot
    /\ worker \in {"attempt", "wait", "unlink"} => SnapshotIntact

\* Whatever is queued, held or about to be queued is still on disk, and ahead
\* of it only older jobs are.
QueueInv ==
    /\ JobsInOrder
    /\ \A n \in DOMAIN jobs : jobs[n] # Pill => jobs[n] \in envelopes
    /\ found \subseteq envelopes
    /\ Working => job \in envelopes
    /\ worker = "unlink" => job \in delivered
    /\ worker = "rmtree" => job \in accepted /\ job \notin envelopes
    /\ main \in {"put", "unlinkLegacy"} =>
           /\ current \in envelopes
           /\ job.sequence < current.sequence
           /\ \A n \in DOMAIN jobs : jobs[n].sequence < current.sequence
    /\ job \in accepted \cup {Pill}

IInv == TypeOK /\ RetryInv /\ ThreadInv /\ SequenceInv /\ SnapshotInv /\ QueueInv

------------------------------------------------------------------------------
(* Lemmas *)

\* The queue after a put.
LEMMA AppendFacts ==
    ASSUME NEW X, NEW q \in Seq(X), NEW e \in X
    PROVE  /\ Append(q, e) \in Seq(X)
           /\ DOMAIN Append(q, e) = 1..Len(q) + 1
           /\ \A n \in 1..Len(q) : n \in DOMAIN q /\ Append(q, e)[n] = q[n]
           /\ Append(q, e)[Len(q) + 1] = e
           /\ Len(q) \in Nat /\ DOMAIN q = 1..Len(q)
  OBVIOUS

\* The queue after a get.
LEMMA TailFacts ==
    ASSUME NEW X, NEW q \in Seq(X), q # <<>>
    PROVE  /\ Head(q) = q[1] /\ 1 \in DOMAIN q /\ Head(q) \in X
           /\ Len(q) \in Nat /\ DOMAIN q = 1..Len(q)
           /\ Tail(q) \in Seq(X)
           /\ DOMAIN Tail(q) = 1..Len(q) - 1
           /\ \A n \in 1..Len(q) - 1 : n + 1 \in DOMAIN q /\ Tail(q)[n] = q[n + 1]
           /\ Len(q) = 1 => Tail(q) = <<>>
<1>1. Head(q) = q[1] /\ Len(q) \in Nat \ {0} /\ DOMAIN q = 1..Len(q)
  BY EmptySeq, LenProperties
<1>2. Tail(q) \in Seq(X) /\ Len(Tail(q)) = Len(q) - 1 /\ DOMAIN Tail(q) = 1..Len(Tail(q))
  BY HeadTailProperties, LenProperties
<1>3. \A n \in 1..Len(q) - 1 : n + 1 \in DOMAIN q /\ Tail(q)[n] = q[n + 1]
  BY <1>1, <1>2, HeadTailProperties
<1>4. Tail(q) # <<>> => Len(Tail(q)) # 0
  BY <1>2, EmptySeq, Zenon
<1>. QED BY <1>1, <1>2, <1>3, <1>4, HeadTailProperties


\* What the constants and the records are made of.
LEMMA Ranges ==
    /\ \A j \in Job : j.sequence \in Sequence /\ j.region \in Regions /\ j.sha \in 0..MaxVersion
    /\ Missing \in Content /\ Garbled \in Content
    /\ Version \subseteq Content /\ 0..MaxVersion \subseteq Content
    /\ \A s \in Nat, r \in Regions :
           1 <= s /\ s <= MaxSequence =>
               s \in Sequence /\ [sequence |-> s, region |-> r, sha |-> Missing] \in Job
    /\ Sequence \subseteq 0..MaxSequence
    /\ Garbled \notin 0..MaxVersion /\ Garbled # Missing
    /\ Pill \notin Job /\ Pill.sequence = 0
  BY ConstantsAssumption DEF Job, Pill, Sequence, Version, Content, Missing, Garbled

\* The jobs the two threads hold are jobs of the state directory.
LEMMA HeldJobs ==
    ASSUME IInv
    PROVE  /\ worker \in {"verify", "attempt", "wait", "unlink", "rmtree"} => job \in Job
           /\ main \in {"copy", "write", "put", "unlinkLegacy"} => current \in Job
  BY DEF IInv, TypeOK, DiskTypeOK, HubTypeOK, QueueInv, SequenceInv, Working, Persisting

\* Every non-empty set of natural numbers has a least element.
LEMMA LeastNatural ==
    ASSUME NEW T \in SUBSET Nat, T # {}
    PROVE  \E x \in T : \A y \in T : x <= y
<1>1. IsWellFoundedOn(OpToRel(<, Nat), Nat)
  BY NatLessThanWellFounded
<1>2. \A p, q \in Nat : p < q => <<p, q>> \in OpToRel(<, Nat)
  BY DEF OpToRel
<1>3. \E x \in T : \A y \in T : ~(<<y, x>> \in OpToRel(<, Nat))
  BY <1>1, WFMin, Zenon
<1>4. PICK x \in T : \A y \in T : ~(<<y, x>> \in OpToRel(<, Nat))
  BY <1>3, Zenon
<1>5. \A y \in T : ~(y < x)
  BY <1>2, <1>4, Zenon
<1>. QED BY <1>5

\* The job that is enqueued next is the one with the least sequence.
LEMMA FirstFoundIsLeast ==
    ASSUME found \subseteq Job, found # {}
    PROVE  FirstFound \in found /\ \A f \in found : FirstFound.sequence <= f.sequence
<1>1. \A e \in found : e.sequence \in Nat
  BY Ranges DEF Sequence
<1>2. SequencesOf(found) \in SUBSET Nat /\ SequencesOf(found) # {}
  BY <1>1 DEF SequencesOf
<1>3. PICK x \in SequencesOf(found) : \A y \in SequencesOf(found) : x <= y
  BY <1>2, LeastNatural
<1>4. \E e \in found : \A f \in found : e.sequence <= f.sequence
  BY <1>3 DEF SequencesOf
<1>. QED BY <1>4 DEF FirstFound

\* A process that opens continues right after the high-water mark.
LEMMA OpenSequence ==
    ASSUME IInv
    PROVE  NextSequenceFromStateDir = highwater + 1
<1>. DEFINE S == {highwater, 0} \cup SequencesOf(envelopes)
<1>1. highwater \in Nat /\ \A n \in S : n \in Nat /\ n <= highwater
  BY ConstantsAssumption, Ranges DEF IInv, TypeOK, DiskTypeOK, SequenceInv, SequencesOf, Sequence
<1>2. \A n \in S : (\A m \in S : m <= n) => n = highwater
  BY <1>1
<1>3. Largest(S) = highwater
  BY <1>1, <1>2 DEF Largest
<1>. QED BY <1>3 DEF NextSequenceFromStateDir

------------------------------------------------------------------------------
(* Every step preserves the types, the thread, sequence, snapshot and queue *)
(* invariants                                                               *)

\* Every action keeps the types.
LEMMA TypeStep == ASSUME IInv, Next PROVE TypeOK'
<1>. USE ConstantsAssumption, Ranges, HeldJobs DEF disk, mainVars, shared, workerVars, history
<1>. TypeOK /\ RetryInv BY DEF IInv
<1>. DiskTypeOK /\ MainTypeOK /\ WorkerTypeOK /\ HubTypeOK BY DEF TypeOK
<1>1. CASE Open
  <2>1. MainTypeOK' BY <1>1, OpenSequence DEF Open, MainTypeOK, DiskTypeOK
  <2>2. DiskTypeOK' /\ WorkerTypeOK' /\ HubTypeOK' BY <1>1 DEF Open, DiskTypeOK, WorkerTypeOK, HubTypeOK
  <2>. QED BY <2>1, <2>2 DEF TypeOK
<1>2. CASE Classify
  <2>1. MainTypeOK' BY <1>2 DEF Classify, MainTypeOK, DiskTypeOK
  <2>2. DiskTypeOK' /\ WorkerTypeOK' /\ HubTypeOK' BY <1>2 DEF Classify, DiskTypeOK, WorkerTypeOK, HubTypeOK
  <2>. QED BY <2>1, <2>2 DEF TypeOK
<1>3. CASE Restore
  <2>1. \A invalid \in SUBSET found : SequencesOf(invalid) \subseteq Sequence
    BY DEF SequencesOf, MainTypeOK
  <2>2. WorkerTypeOK' BY <1>3, <2>1 DEF Restore, WorkerTypeOK
  <2>3. HubTypeOK' BY <1>3, <2>1 DEF Restore, HubTypeOK
  <2>4. DiskTypeOK' /\ MainTypeOK' BY <1>3 DEF Restore, SequencesOf, DiskTypeOK, MainTypeOK
  <2>. QED BY <2>2, <2>3, <2>4 DEF TypeOK
<1>4. CASE EnqueueResumed
  <2>1. FirstFound \in Job
    BY <1>4, FirstFoundIsLeast DEF EnqueueResumed, MainTypeOK
  <2>2. WorkerTypeOK' BY <1>4, <2>1 DEF EnqueueResumed, WorkerTypeOK
  <2>3. DiskTypeOK' /\ MainTypeOK' /\ HubTypeOK' BY <1>4 DEF EnqueueResumed, DiskTypeOK, MainTypeOK, HubTypeOK
  <2>. QED BY <2>2, <2>3 DEF TypeOK
<1>5. CASE ResumeDone
  BY <1>5 DEF ResumeDone, TypeOK, DiskTypeOK, MainTypeOK, WorkerTypeOK, HubTypeOK
<1>6. CASE NoContainment
  BY <1>6 DEF NoContainment, TypeOK, DiskTypeOK, MainTypeOK, WorkerTypeOK, HubTypeOK
<1>7. ASSUME NEW r \in Regions, BeginUpgrade(r) PROVE TypeOK'
  <2>1. DiskTypeOK' BY <1>7 DEF BeginUpgrade, Allocate, Raise, Report, DiskTypeOK, MainTypeOK
  <2>2. MainTypeOK' BY <1>7 DEF BeginUpgrade, Allocate, Raise, Report, MainTypeOK
  <2>3. nextSequence \in Sequence
    BY <1>7 DEF BeginUpgrade, Allocate, MainTypeOK, Sequence
  <2>4. WorkerTypeOK' BY <1>7, <2>3 DEF BeginUpgrade, Allocate, Raise, Report, WorkerTypeOK
  <2>5. HubTypeOK' BY <1>7, <2>3 DEF BeginUpgrade, Allocate, Raise, Report, HubTypeOK
  <2>. QED BY <2>1, <2>2, <2>4, <2>5 DEF TypeOK
<1>8. ASSUME NEW r \in Regions, BeginContainment(r) PROVE TypeOK'
  <2>1. DiskTypeOK' BY <1>8 DEF BeginContainment, Allocate, Raise, DiskTypeOK, MainTypeOK
  <2>2. MainTypeOK' BY <1>8 DEF BeginContainment, Allocate, Raise, MainTypeOK
  <2>3. WorkerTypeOK' /\ HubTypeOK' BY <1>8 DEF BeginContainment, Allocate, Raise, WorkerTypeOK, HubTypeOK
  <2>. QED BY <2>1, <2>2, <2>3 DEF TypeOK
<1>9. ASSUME NEW r \in Regions, BeginSubmit(r) PROVE TypeOK'
  <2>1. DiskTypeOK' BY <1>9 DEF BeginSubmit, Allocate, Raise, DiskTypeOK, MainTypeOK
  <2>2. MainTypeOK' BY <1>9 DEF BeginSubmit, Allocate, Raise, MainTypeOK
  <2>3. WorkerTypeOK' /\ HubTypeOK' BY <1>9 DEF BeginSubmit, Allocate, Raise, WorkerTypeOK, HubTypeOK
  <2>. QED BY <2>1, <2>2, <2>3 DEF TypeOK
<1>10. ASSUME NEW r \in Regions, Rewrite(r) PROVE TypeOK'
  <2>1. DiskTypeOK' BY <1>10 DEF Rewrite, DiskTypeOK, Version
  <2>2. MainTypeOK' /\ WorkerTypeOK' /\ HubTypeOK' BY <1>10 DEF Rewrite, MainTypeOK, WorkerTypeOK, HubTypeOK
  <2>. QED BY <2>1, <2>2 DEF TypeOK
<1>11. CASE Copy
  <2>1. DiskTypeOK' BY <1>11 DEF Copy, DiskTypeOK
  <2>2. MainTypeOK' BY <1>11 DEF Copy, MainTypeOK, DiskTypeOK, Job, Version
  <2>3. WorkerTypeOK' /\ HubTypeOK' BY <1>11 DEF Copy, WorkerTypeOK, HubTypeOK
  <2>. QED BY <2>1, <2>2, <2>3 DEF TypeOK
<1>12. CASE WriteEnvelope
  <2>1. DiskTypeOK' BY <1>12 DEF WriteEnvelope, DiskTypeOK
  <2>2. HubTypeOK' BY <1>12 DEF WriteEnvelope, HubTypeOK
  <2>3. MainTypeOK' /\ WorkerTypeOK' BY <1>12 DEF WriteEnvelope, MainTypeOK, WorkerTypeOK
  <2>. QED BY <2>1, <2>2, <2>3 DEF TypeOK
<1>13. CASE UnlinkLegacy
  <2>1. MainTypeOK' BY <1>13 DEF UnlinkLegacy, HandedOver, MainTypeOK
  <2>2. DiskTypeOK' /\ WorkerTypeOK' /\ HubTypeOK' BY <1>13 DEF UnlinkLegacy, HandedOver, DiskTypeOK, WorkerTypeOK, HubTypeOK
  <2>. QED BY <2>1, <2>2 DEF TypeOK
<1>14. CASE Put
  <2>1. WorkerTypeOK' BY <1>14 DEF Put, HandedOver, WorkerTypeOK
  <2>2. DiskTypeOK' /\ MainTypeOK' /\ HubTypeOK' BY <1>14 DEF Put, HandedOver, DiskTypeOK, MainTypeOK, HubTypeOK
  <2>. QED BY <2>1, <2>2 DEF TypeOK
<1>15. CASE PersistFails
  <2>1. DiskTypeOK' BY <1>15 DEF PersistFails, Raise, Report, HandedOver, DiskTypeOK
  <2>2. WorkerTypeOK' BY <1>15 DEF PersistFails, Raise, Report, HandedOver, WorkerTypeOK
  <2>3. HubTypeOK' BY <1>15 DEF PersistFails, Raise, Report, HandedOver, HubTypeOK
  <2>4. MainTypeOK' BY <1>15 DEF PersistFails, Raise, Report, HandedOver, MainTypeOK
  <2>. QED BY <2>1, <2>2, <2>3, <2>4 DEF TypeOK
<1>16. CASE Interrupt
  BY <1>16 DEF Interrupt, TypeOK, DiskTypeOK, MainTypeOK, WorkerTypeOK, HubTypeOK
<1>17. ASSUME NEW abort \in BOOLEAN, Close(abort) PROVE TypeOK'
  BY <1>17 DEF Close, TypeOK, DiskTypeOK, MainTypeOK, WorkerTypeOK, HubTypeOK
<1>18. CASE PutPill
  BY <1>18 DEF PutPill, TypeOK, DiskTypeOK, MainTypeOK, WorkerTypeOK, HubTypeOK
<1>19. CASE Join
  BY <1>19 DEF Join, TypeOK, DiskTypeOK, MainTypeOK, WorkerTypeOK, HubTypeOK
<1>20. CASE Exit
  <2>1. <<>> \in Seq(Job \cup {Pill}) OBVIOUS
  <2>2. aborted' = FALSE /\ attempt' = 1 /\ failures' = {} /\ worker' = "none" /\ job' = Pill /\ jobs' = <<>>
    BY <1>20 DEF Exit, ProcessEnds
  <2>3. attempt' \in 1..Attempts BY <2>2
  <2>4. WorkerTypeOK' BY <2>1, <2>2, <2>3, Zenon DEF WorkerTypeOK
  <2>5. DiskTypeOK' /\ MainTypeOK' /\ HubTypeOK' BY <1>20 DEF Exit, ProcessEnds, DiskTypeOK, MainTypeOK, HubTypeOK
  <2>. QED BY <2>2, <2>3, <2>4, <2>5 DEF TypeOK
<1>21. CASE Get
  <2>1. WorkerTypeOK' BY <1>21 DEF Get, WorkerTypeOK
  <2>2. DiskTypeOK' /\ MainTypeOK' /\ HubTypeOK' BY <1>21 DEF Get, DiskTypeOK, MainTypeOK, HubTypeOK
  <2>. QED BY <2>1, <2>2 DEF TypeOK
<1>22. CASE Verify
  <2>1. WorkerTypeOK' BY <1>22 DEF Verify, Fail, Report, WorkerTypeOK
  <2>2. HubTypeOK' BY <1>22, ZenonT(40) DEF Verify, Fail, Report, HubTypeOK
  <2>3. DiskTypeOK' /\ MainTypeOK' BY <1>22 DEF Verify, Fail, Report, DiskTypeOK, MainTypeOK
  <2>. QED BY <2>1, <2>2, <2>3 DEF TypeOK
<1>23. CASE UploadSucceeds
  <2>1. HubTypeOK' BY <1>23 DEF UploadSucceeds, Commit, HubTypeOK, DiskTypeOK
  <2>2. DiskTypeOK' /\ MainTypeOK' /\ WorkerTypeOK' BY <1>23 DEF UploadSucceeds, Commit, DiskTypeOK, MainTypeOK, WorkerTypeOK
  <2>. QED BY <2>1, <2>2 DEF TypeOK
<1>24. ASSUME NEW transient \in BOOLEAN, NEW committed \in BOOLEAN, UploadFails(transient, committed) PROVE TypeOK'
  <2>1. WorkerTypeOK' BY <1>24 DEF UploadFails, Commit, Fail, Report, WorkerTypeOK
  <2>2. remote' \in [Regions -> Content] /\ applied' \in [Regions -> 0..MaxSequence]
    BY <1>24 DEF UploadFails, Commit, HubTypeOK, DiskTypeOK
  <2>3. accepted' \subseteq Job /\ delivered' \subseteq Job /\ reported' \subseteq Sequence
    BY <1>24, ZenonT(40) DEF UploadFails, Commit, Fail, Report, HubTypeOK
  <2>4. HubTypeOK' BY <2>2, <2>3 DEF HubTypeOK
  <2>5. DiskTypeOK' /\ MainTypeOK' BY <1>24 DEF UploadFails, Commit, Fail, Report, DiskTypeOK, MainTypeOK
  <2>. QED BY <2>1, <2>2, <2>3, <2>4, <2>5 DEF TypeOK
<1>25. CASE WaitEnds
  <2>1. attempt' \in 1..Attempts BY <1>25 DEF WaitEnds, WorkerTypeOK, RetryInv
  <2>2. WorkerTypeOK' BY <1>25, <2>1 DEF WaitEnds, Fail, Report, WorkerTypeOK
  <2>3. HubTypeOK' BY <1>25, ZenonT(40) DEF WaitEnds, Fail, Report, HubTypeOK
  <2>4. DiskTypeOK' /\ MainTypeOK' BY <1>25 DEF WaitEnds, Fail, Report, DiskTypeOK, MainTypeOK
  <2>. QED BY <2>1, <2>2, <2>3, <2>4 DEF TypeOK
<1>26. CASE Unlink
  BY <1>26 DEF Unlink, TypeOK, DiskTypeOK, MainTypeOK, WorkerTypeOK, HubTypeOK
<1>27. CASE UnlinkFails
  <2>1. WorkerTypeOK' BY <1>27 DEF UnlinkFails, Fail, Report, WorkerTypeOK
  <2>2. HubTypeOK' BY <1>27 DEF UnlinkFails, Fail, Report, HubTypeOK
  <2>3. DiskTypeOK' /\ MainTypeOK' BY <1>27 DEF UnlinkFails, Fail, Report, DiskTypeOK, MainTypeOK
  <2>. QED BY <2>1, <2>2, <2>3 DEF TypeOK
<1>28. CASE Rmtree
  <2>1. DiskTypeOK' BY <1>28 DEF Rmtree, DiskTypeOK
  <2>2. MainTypeOK' /\ WorkerTypeOK' /\ HubTypeOK' BY <1>28 DEF Rmtree, MainTypeOK, WorkerTypeOK, HubTypeOK
  <2>. QED BY <2>1, <2>2 DEF TypeOK
<1>29. CASE Crash
  <2>1. <<>> \in Seq(Job \cup {Pill}) OBVIOUS
  <2>2. aborted' = FALSE /\ attempt' = 1 /\ failures' = {} /\ worker' = "none" /\ job' = Pill /\ jobs' = <<>>
    BY <1>29 DEF Crash, ProcessEnds
  <2>3. attempt' \in 1..Attempts BY <2>2
  <2>4. WorkerTypeOK' BY <2>1, <2>2, <2>3, Zenon DEF WorkerTypeOK
  <2>5. DiskTypeOK' /\ MainTypeOK' /\ HubTypeOK' BY <1>29 DEF Crash, ProcessEnds, DiskTypeOK, MainTypeOK, HubTypeOK
  <2>. QED BY <2>2, <2>3, <2>4, <2>5 DEF TypeOK
<1>30. ASSUME NEW s \in Sequence, Tamper(s) PROVE TypeOK'
  <2>1. DiskTypeOK' BY <1>30 DEF Tamper, DiskTypeOK
  <2>2. MainTypeOK' /\ WorkerTypeOK' /\ HubTypeOK' BY <1>30 DEF Tamper, MainTypeOK, WorkerTypeOK, HubTypeOK
  <2>. QED BY <2>1, <2>2 DEF TypeOK
<1>. QED BY <1>1, <1>2, <1>3, <1>4, <1>5, <1>6, <1>7, <1>8, <1>9, <1>10, <1>11, <1>12, <1>13, <1>14, <1>15, <1>16, <1>17, <1>18, <1>19, <1>20, <1>21, <1>22, <1>23, <1>24, <1>25, <1>26, <1>27, <1>28, <1>29, <1>30 DEF Next, MainStep, WorkerStep

\* Every action keeps the retry budget and the positions of the two threads.
LEMMA ThreadStep ==
    ASSUME IInv, Next PROVE (RetryInv /\ ThreadInv)'
<1>. USE ConstantsAssumption DEF disk, mainVars, shared, workerVars, history, RetryInv, ThreadInv, Opening, Persisting
<1>. RetryInv /\ ThreadInv /\ QueueInv /\ DiskTypeOK /\ MainTypeOK /\ WorkerTypeOK BY DEF IInv, TypeOK
<1>1. CASE Open
  BY <1>1 DEF Open
<1>2. CASE Classify
  BY <1>2 DEF Classify
<1>3. CASE Restore
  BY <1>3 DEF Restore, SequencesOf
<1>4. CASE EnqueueResumed
  <2>1. FirstFound \in Job /\ jobs \in Seq(Job \cup {Pill})
    BY <1>4, FirstFoundIsLeast DEF EnqueueResumed, MainTypeOK, WorkerTypeOK
  <2>2. \A n \in DOMAIN jobs' : jobs'[n] = Pill => n \in DOMAIN jobs /\ jobs[n] = Pill
    BY <1>4, <2>1, Ranges, AppendFacts DEF EnqueueResumed
  <2>. QED BY <1>4, <2>2 DEF EnqueueResumed
<1>5. CASE ResumeDone
  BY <1>5 DEF ResumeDone
<1>6. CASE NoContainment
  BY <1>6 DEF NoContainment
<1>7. ASSUME NEW r \in Regions, BeginUpgrade(r) PROVE (RetryInv /\ ThreadInv)'
  BY <1>7 DEF BeginUpgrade, Allocate, Raise, Report
<1>8. ASSUME NEW r \in Regions, BeginContainment(r) PROVE (RetryInv /\ ThreadInv)'
  BY <1>8 DEF BeginContainment, Allocate, Raise
<1>9. ASSUME NEW r \in Regions, BeginSubmit(r) PROVE (RetryInv /\ ThreadInv)'
  BY <1>9 DEF BeginSubmit, Allocate, Raise
<1>10. ASSUME NEW r \in Regions, Rewrite(r) PROVE (RetryInv /\ ThreadInv)'
  BY <1>10 DEF Rewrite
<1>11. CASE Copy
  BY <1>11 DEF Copy
<1>12. CASE WriteEnvelope
  BY <1>12 DEF WriteEnvelope
<1>13. CASE UnlinkLegacy
  BY <1>13 DEF UnlinkLegacy, HandedOver
<1>14. CASE Put
  <2>1. current \in Job /\ jobs \in Seq(Job \cup {Pill})
    BY <1>14, HeldJobs DEF Put, WorkerTypeOK
  <2>2. \A n \in DOMAIN jobs' : jobs'[n] = Pill => n \in DOMAIN jobs /\ jobs[n] = Pill
    BY <1>14, <2>1, Ranges, AppendFacts DEF Put
  <2>. QED BY <1>14, <2>2 DEF Put, HandedOver
<1>15. CASE PersistFails
  BY <1>15 DEF PersistFails, Raise, Report, HandedOver
<1>16. CASE Interrupt
  BY <1>16 DEF Interrupt
<1>17. ASSUME NEW abort \in BOOLEAN, Close(abort) PROVE (RetryInv /\ ThreadInv)'
  BY <1>17 DEF Close
<1>18. CASE PutPill
  BY <1>18 DEF PutPill
<1>19. CASE Join
  BY <1>19 DEF Join
<1>20. CASE Exit
  BY <1>20 DEF Exit, ProcessEnds
<1>21. CASE Get
  <2>1. jobs \in Seq(Job \cup {Pill}) /\ jobs # <<>>
    BY <1>21 DEF Get, WorkerTypeOK
  <2>2. \A n \in DOMAIN jobs' : n + 1 \in DOMAIN jobs /\ jobs'[n] = jobs[n + 1]
    BY <1>21, <2>1, TailFacts DEF Get
  <2>3. Head(jobs) = Pill => Len(jobs) = 1
    <3>1. Len(jobs) \in Nat /\ DOMAIN jobs = 1..Len(jobs) /\ 1 \in DOMAIN jobs /\ Head(jobs) = jobs[1]
      BY <2>1, TailFacts
    <3>2. 1 < Len(jobs) => Len(jobs) \in DOMAIN jobs /\ jobs[1] # Pill
      BY <3>1 DEF QueueInv, JobsInOrder
    <3>. QED BY <3>1, <3>2
  <2>4. Head(jobs) = Pill => main = "join" /\ jobs' = <<>>
    BY <1>21, <2>1, <2>3, TailFacts DEF Get
  <2>. QED BY <1>21, <2>2, <2>4 DEF Get
<1>22. CASE Verify
  BY <1>22 DEF Verify, Fail, Report
<1>23. CASE UploadSucceeds
  BY <1>23 DEF UploadSucceeds, Commit
<1>24. ASSUME NEW transient \in BOOLEAN, NEW committed \in BOOLEAN, UploadFails(transient, committed) PROVE (RetryInv /\ ThreadInv)'
  BY <1>24 DEF UploadFails, Commit, Fail, Report
<1>25. CASE WaitEnds
  BY <1>25 DEF WaitEnds, Fail, Report
<1>26. CASE Unlink
  BY <1>26 DEF Unlink
<1>27. CASE UnlinkFails
  BY <1>27 DEF UnlinkFails, Fail, Report
<1>28. CASE Rmtree
  BY <1>28 DEF Rmtree
<1>29. CASE Crash
  BY <1>29 DEF Crash, ProcessEnds
<1>30. ASSUME NEW s \in Sequence, Tamper(s) PROVE (RetryInv /\ ThreadInv)'
  BY <1>30 DEF Tamper
<1>. QED BY <1>1, <1>2, <1>3, <1>4, <1>5, <1>6, <1>7, <1>8, <1>9, <1>10, <1>11, <1>12, <1>13, <1>14, <1>15, <1>16, <1>17, <1>18, <1>19, <1>20, <1>21, <1>22, <1>23, <1>24, <1>25, <1>26, <1>27, <1>28, <1>29, <1>30 DEF Next, MainStep, WorkerStep

\* No action reuses a sequence: all that exists stays below the next one.
LEMMA SequenceStep ==
    ASSUME IInv, Next PROVE SequenceInv'
<1>. USE ConstantsAssumption, Ranges, HeldJobs DEF disk, mainVars, shared, workerVars, history, SequenceInv, Persisting
<1>. ThreadInv /\ SequenceInv /\ SnapshotInv /\ QueueInv /\ DiskTypeOK /\ MainTypeOK /\ WorkerTypeOK /\ HubTypeOK BY DEF IInv, TypeOK
<1>1. CASE Open
  BY <1>1, OpenSequence DEF Open, DiskTypeOK
<1>2. CASE Classify
  BY <1>2 DEF Classify
<1>3. CASE Restore
  BY <1>3 DEF Restore, SequencesOf
<1>4. CASE EnqueueResumed
  BY <1>4 DEF EnqueueResumed
<1>5. CASE ResumeDone
  BY <1>5 DEF ResumeDone
<1>6. CASE NoContainment
  BY <1>6 DEF NoContainment
<1>7. ASSUME NEW r \in Regions, BeginUpgrade(r) PROVE SequenceInv'
  <2>1. highwater \in Nat /\ nextSequence \in Nat /\ highwater < nextSequence /\ 1 <= nextSequence
    BY <1>7 DEF BeginUpgrade, DiskTypeOK, MainTypeOK
  <2>2. \A e \in accepted : e.sequence \in Nat
    BY DEF HubTypeOK, Sequence
  <2>3. \A n \in Sequence : n \in Nat
    BY DEF Sequence
  <2>. QED BY <1>7, <2>1, <2>2, <2>3 DEF BeginUpgrade, Allocate, Raise, Report, DiskTypeOK
<1>8. ASSUME NEW r \in Regions, BeginContainment(r) PROVE SequenceInv'
  <2>1. highwater \in Nat /\ nextSequence \in Nat /\ highwater < nextSequence /\ 1 <= nextSequence
    BY <1>8 DEF BeginContainment, DiskTypeOK, MainTypeOK
  <2>2. \A e \in accepted : e.sequence \in Nat
    BY DEF HubTypeOK, Sequence
  <2>3. \A n \in Sequence : n \in Nat
    BY DEF Sequence
  <2>. QED BY <1>8, <2>1, <2>2, <2>3 DEF BeginContainment, Allocate, Raise, DiskTypeOK
<1>9. ASSUME NEW r \in Regions, BeginSubmit(r) PROVE SequenceInv'
  <2>1. highwater \in Nat /\ nextSequence \in Nat /\ highwater < nextSequence /\ 1 <= nextSequence
    BY <1>9 DEF BeginSubmit, DiskTypeOK, MainTypeOK
  <2>2. \A e \in accepted : e.sequence \in Nat
    BY DEF HubTypeOK, Sequence
  <2>3. \A n \in Sequence : n \in Nat
    BY DEF Sequence
  <2>. QED BY <1>9, <2>1, <2>2, <2>3 DEF BeginSubmit, Allocate, Raise, DiskTypeOK
<1>10. ASSUME NEW r \in Regions, Rewrite(r) PROVE SequenceInv'
  BY <1>10 DEF Rewrite
<1>11. CASE Copy
  <2>1. current' \in Job /\ current'.sequence = current.sequence
    BY <1>11 DEF Copy, DiskTypeOK, Job, Version
  <2>2. \A n \in Sequence : snapshot'[n] # Missing => n <= highwater
    BY <1>11 DEF Copy, DiskTypeOK, Sequence
  <2>. QED BY <1>11, <2>1, <2>2 DEF Copy
<1>12. CASE WriteEnvelope
  <2>1. current \in Job /\ current.sequence = highwater /\ \A e \in accepted : e.sequence < current.sequence
    BY <1>12 DEF WriteEnvelope
  <2>2. highwater \in Nat /\ \A e \in accepted : e.sequence \in Nat
    BY DEF DiskTypeOK, HubTypeOK, Sequence
  <2>3. \A e, f \in accepted' : e.sequence = f.sequence => e = f
    BY <1>12, <2>1, <2>2 DEF WriteEnvelope
  <2>4. \A e \in accepted' : e.sequence <= highwater
    BY <1>12, <2>1, <2>2 DEF WriteEnvelope
  <2>. QED BY <1>12, <2>3, <2>4 DEF WriteEnvelope
<1>13. CASE UnlinkLegacy
  BY <1>13 DEF UnlinkLegacy, HandedOver
<1>14. CASE Put
  BY <1>14 DEF Put, HandedOver
<1>15. CASE PersistFails
  BY <1>15 DEF PersistFails, Raise, Report, HandedOver
<1>16. CASE Interrupt
  BY <1>16 DEF Interrupt
<1>17. ASSUME NEW abort \in BOOLEAN, Close(abort) PROVE SequenceInv'
  BY <1>17 DEF Close
<1>18. CASE PutPill
  BY <1>18 DEF PutPill
<1>19. CASE Join
  BY <1>19 DEF Join
<1>20. CASE Exit
  BY <1>20 DEF Exit, ProcessEnds
<1>21. CASE Get
  BY <1>21 DEF Get
<1>22. CASE Verify
  BY <1>22 DEF Verify, Fail, Report
<1>23. CASE UploadSucceeds
  BY <1>23 DEF UploadSucceeds, Commit, QueueInv, Working
<1>24. ASSUME NEW transient \in BOOLEAN, NEW committed \in BOOLEAN, UploadFails(transient, committed) PROVE SequenceInv'
  BY <1>24 DEF UploadFails, Commit, QueueInv, Working
<1>25. CASE WaitEnds
  BY <1>25 DEF WaitEnds, Fail, Report
<1>26. CASE Unlink
  BY <1>26 DEF Unlink
<1>27. CASE UnlinkFails
  BY <1>27 DEF UnlinkFails, Fail, Report
<1>28. CASE Rmtree
  BY <1>28 DEF Rmtree
<1>29. CASE Crash
  BY <1>29 DEF Crash, ProcessEnds
<1>30. ASSUME NEW s \in Sequence, Tamper(s) PROVE SequenceInv'
  <2>1. snapshot[s] # Missing
    BY <1>30 DEF Tamper, Version, Missing
  <2>. QED BY <1>30, <2>1 DEF Tamper, DiskTypeOK
<1>. QED BY <1>1, <1>2, <1>3, <1>4, <1>5, <1>6, <1>7, <1>8, <1>9, <1>10, <1>11, <1>12, <1>13, <1>14, <1>15, <1>16, <1>17, <1>18, <1>19, <1>20, <1>21, <1>22, <1>23, <1>24, <1>25, <1>26, <1>27, <1>28, <1>29, <1>30 DEF Next, MainStep, WorkerStep

\* Every action leaves each envelope its intact snapshot.
LEMMA SnapshotStep ==
    ASSUME IInv, Next PROVE SnapshotInv'
<1>. USE ConstantsAssumption, Ranges, HeldJobs DEF disk, mainVars, shared, workerVars, history, SnapshotInv, EnvelopeHasSnapshot, SnapshotIntact
<1>. ThreadInv /\ SequenceInv /\ SnapshotInv /\ QueueInv /\ DiskTypeOK /\ MainTypeOK /\ WorkerTypeOK /\ HubTypeOK BY DEF IInv, TypeOK
<1>1. CASE Open
  BY <1>1 DEF Open
<1>2. CASE Classify
  BY <1>2 DEF Classify
<1>3. CASE Restore
  BY <1>3 DEF Restore, SequencesOf
<1>4. CASE EnqueueResumed
  BY <1>4 DEF EnqueueResumed
<1>5. CASE ResumeDone
  BY <1>5 DEF ResumeDone
<1>6. CASE NoContainment
  BY <1>6 DEF NoContainment
<1>7. ASSUME NEW r \in Regions, BeginUpgrade(r) PROVE SnapshotInv'
  <2>1. nextSequence \in Sequence /\ \A e \in envelopes : e.sequence # nextSequence
    BY <1>7 DEF BeginUpgrade, Allocate, SequenceInv, DiskTypeOK, MainTypeOK, Sequence
  <2>2. worker \in {"attempt", "wait", "unlink"} => job \in envelopes
    BY DEF QueueInv, Working
  <2>. QED BY <1>7, <2>1, <2>2 DEF BeginUpgrade, Allocate, Raise, Report, DiskTypeOK
<1>8. ASSUME NEW r \in Regions, BeginContainment(r) PROVE SnapshotInv'
  BY <1>8 DEF BeginContainment, Allocate, Raise
<1>9. ASSUME NEW r \in Regions, BeginSubmit(r) PROVE SnapshotInv'
  <2>1. nextSequence \in Sequence /\ \A e \in envelopes : e.sequence # nextSequence
    BY <1>9 DEF BeginSubmit, Allocate, SequenceInv, DiskTypeOK, MainTypeOK, Sequence
  <2>2. worker \in {"attempt", "wait", "unlink"} => job \in envelopes
    BY DEF QueueInv, Working
  <2>. QED BY <1>9, <2>1, <2>2 DEF BeginSubmit, Allocate, Raise, DiskTypeOK
<1>10. ASSUME NEW r \in Regions, Rewrite(r) PROVE SnapshotInv'
  BY <1>10 DEF Rewrite
<1>11. CASE Copy
  <2>1. current.sequence \in Sequence /\ \A e \in envelopes : e.sequence # current.sequence
    BY <1>11 DEF Copy, SequenceInv, Persisting, DiskTypeOK, Sequence
  <2>2. worker \in {"attempt", "wait", "unlink"} => job \in envelopes
    BY DEF QueueInv, Working
  <2>3. canonical[current.region] \in Version
    BY <1>11 DEF Copy, DiskTypeOK
  <2>4. current'.sequence = current.sequence /\ current'.sha = canonical[current.region]
    BY <1>11 DEF Copy, Job
  <2>5. \A n \in Sequence : n # current.sequence => snapshot'[n] = snapshot[n]
    BY <1>11 DEF Copy, DiskTypeOK
  <2>6. snapshot'[current.sequence] = canonical[current.region]
    BY <1>11, <2>1 DEF Copy, DiskTypeOK
  <2>7. EnvelopeHasSnapshot'
    BY <1>11, <2>1, <2>5 DEF Copy, DiskTypeOK
  <2>. QED BY <1>11, <2>1, <2>2, <2>4, <2>5, <2>6, <2>7 DEF Copy
<1>12. CASE WriteEnvelope
  BY <1>12 DEF WriteEnvelope
<1>13. CASE UnlinkLegacy
  BY <1>13 DEF UnlinkLegacy, HandedOver
<1>14. CASE Put
  BY <1>14 DEF Put, HandedOver
<1>15. CASE PersistFails
  <2>1. CASE origin = "upgrade"
    BY <1>15, <2>1 DEF PersistFails, Raise, Report
  <2>2. CASE origin # "upgrade"
    <3>1. Persisting
      BY <1>15, <2>2 DEF PersistFails, ThreadInv, Persisting
    <3>2. current.sequence \in Sequence /\ \A e \in envelopes : e.sequence # current.sequence
      BY <3>1 DEF SequenceInv, DiskTypeOK, Sequence
    <3>3. worker \in {"attempt", "wait", "unlink"} => job \in envelopes
      BY DEF QueueInv, Working
    <3>. QED BY <1>15, <2>2, <3>2, <3>3 DEF PersistFails, Raise, DiskTypeOK
  <2>. QED BY <2>1, <2>2
<1>16. CASE Interrupt
  BY <1>16 DEF Interrupt
<1>17. ASSUME NEW abort \in BOOLEAN, Close(abort) PROVE SnapshotInv'
  BY <1>17 DEF Close
<1>18. CASE PutPill
  BY <1>18 DEF PutPill
<1>19. CASE Join
  BY <1>19 DEF Join
<1>20. CASE Exit
  BY <1>20 DEF Exit, ProcessEnds
<1>21. CASE Get
  BY <1>21 DEF Get
<1>22. CASE Verify
  BY <1>22 DEF Verify, Fail, Report
<1>23. CASE UploadSucceeds
  BY <1>23 DEF UploadSucceeds, Commit
<1>24. ASSUME NEW transient \in BOOLEAN, NEW committed \in BOOLEAN, UploadFails(transient, committed) PROVE SnapshotInv'
  BY <1>24 DEF UploadFails, Commit, Fail, Report
<1>25. CASE WaitEnds
  BY <1>25 DEF WaitEnds, Fail, Report
<1>26. CASE Unlink
  BY <1>26 DEF Unlink
<1>27. CASE UnlinkFails
  BY <1>27 DEF UnlinkFails, Fail, Report
<1>28. CASE Rmtree
  <2>1. job \in accepted /\ job \notin envelopes
    BY <1>28 DEF Rmtree, QueueInv
  <2>2. \A e \in envelopes : e.sequence \in Sequence /\ e.sequence # job.sequence
    BY <2>1 DEF SequenceInv, DiskTypeOK
  <2>3. main = "write" => current.sequence # job.sequence /\ current.sequence \in Sequence
    BY <2>1 DEF SequenceInv, Persisting, HubTypeOK, Sequence
  <2>. QED BY <1>28, <2>2, <2>3 DEF Rmtree, DiskTypeOK
<1>29. CASE Crash
  BY <1>29 DEF Crash, ProcessEnds
<1>30. ASSUME NEW s \in Sequence, Tamper(s) PROVE SnapshotInv'
  <2>1. worker = "none"
    BY <1>30 DEF Tamper, ThreadInv
  <2>2. \A e \in envelopes : snapshot'[e.sequence] \in {snapshot[e.sequence], Garbled}
    BY <1>30 DEF Tamper, DiskTypeOK
  <2>. QED BY <1>30, <2>1, <2>2 DEF Tamper
<1>. QED BY <1>1, <1>2, <1>3, <1>4, <1>5, <1>6, <1>7, <1>8, <1>9, <1>10, <1>11, <1>12, <1>13, <1>14, <1>15, <1>16, <1>17, <1>18, <1>19, <1>20, <1>21, <1>22, <1>23, <1>24, <1>25, <1>26, <1>27, <1>28, <1>29, <1>30 DEF Next, MainStep, WorkerStep

\* Every action keeps the queue in step with the envelopes, in sequence order.
LEMMA QueueStep ==
    ASSUME IInv, Next PROVE QueueInv'
<1>. USE ConstantsAssumption, Ranges, HeldJobs DEF disk, mainVars, shared, workerVars, history, QueueInv, JobsInOrder, Working
<1>. ThreadInv /\ SequenceInv /\ SnapshotInv /\ QueueInv /\ DiskTypeOK /\ MainTypeOK /\ WorkerTypeOK /\ HubTypeOK BY DEF IInv, TypeOK
<1>1. CASE Open
  BY <1>1 DEF Open
<1>2. CASE Classify
  <2>1. jobs = <<>> /\ job = Pill
    BY <1>2 DEF Classify, ThreadInv, Opening
  <2>2. /\ found' \subseteq found \cup envelopes /\ main' \in {"raised", "upgrade"}
        /\ UNCHANGED <<envelopes, jobs, worker, job, accepted, delivered>>
    BY <1>2 DEF Classify
  <2>3. \A e \in envelopes : Pill.sequence < e.sequence
    BY DEF DiskTypeOK, Sequence
  <2>. QED BY <2>1, <2>2, <2>3
<1>3. CASE Restore
  <2>1. jobs = <<>> /\ job = Pill
    BY <1>3 DEF Restore, ThreadInv, Opening
  <2>2. found' \subseteq found /\ main' = "enqueue" /\ UNCHANGED <<envelopes, jobs, worker, job, accepted, delivered>>
    BY <1>3 DEF Restore
  <2>. QED BY <2>1, <2>2
<1>4. CASE EnqueueResumed
  <2>1. /\ FirstFound \in found /\ FirstFound \in Job /\ jobs \in Seq(Job \cup {Pill})
        /\ \A e \in found : FirstFound.sequence <= e.sequence
    BY <1>4, FirstFoundIsLeast DEF EnqueueResumed, MainTypeOK, WorkerTypeOK
  <2>2. \A e \in found' : e \in found /\ FirstFound.sequence < e.sequence
    BY <1>4, <2>1 DEF EnqueueResumed, SequenceInv, DiskTypeOK, Sequence
  <2>3. /\ jobs' = Append(jobs, FirstFound) /\ main' = "enqueue"
        /\ UNCHANGED <<envelopes, worker, job, accepted, delivered, current>>
    BY <1>4 DEF EnqueueResumed
  <2>4. /\ Len(jobs) \in Nat /\ DOMAIN jobs = 1..Len(jobs) /\ DOMAIN jobs' = 1..Len(jobs) + 1
        /\ \A n \in DOMAIN jobs : jobs'[n] = jobs[n]
        /\ jobs'[Len(jobs) + 1] = FirstFound
    BY <2>1, <2>3, AppendFacts
  <2>5. \A n \in DOMAIN jobs : jobs[n] # Pill
    BY <1>4 DEF EnqueueResumed, ThreadInv
  <2>6. \A n \in DOMAIN jobs : jobs[n].sequence < FirstFound.sequence
    BY <2>1
  <2>7. JobsInOrder'
    BY <2>1, <2>2, <2>3, <2>4, <2>5, <2>6
  <2>8. \A n \in DOMAIN jobs' : jobs'[n] # Pill => jobs'[n] \in envelopes'
    BY <2>1, <2>3, <2>4
  <2>. QED BY <2>2, <2>3, <2>7, <2>8
<1>5. CASE ResumeDone
  BY <1>5 DEF ResumeDone
<1>6. CASE NoContainment
  BY <1>6 DEF NoContainment
<1>7. ASSUME NEW r \in Regions, BeginUpgrade(r) PROVE QueueInv'
  <2>1. main' \notin {"put", "unlinkLegacy"}
    BY <1>7 DEF BeginUpgrade, Allocate, Raise
  <2>2. UNCHANGED <<envelopes, jobs, found, worker, job, accepted, delivered>>
    BY <1>7 DEF BeginUpgrade, Allocate
  <2>. QED BY <2>1, <2>2
<1>8. ASSUME NEW r \in Regions, BeginContainment(r) PROVE QueueInv'
  <2>1. main' \notin {"put", "unlinkLegacy"}
    BY <1>8 DEF BeginContainment, Allocate, Raise
  <2>2. UNCHANGED <<envelopes, jobs, found, worker, job, accepted, delivered>>
    BY <1>8 DEF BeginContainment, Allocate
  <2>. QED BY <2>1, <2>2
<1>9. ASSUME NEW r \in Regions, BeginSubmit(r) PROVE QueueInv'
  <2>1. main' \notin {"put", "unlinkLegacy"}
    BY <1>9 DEF BeginSubmit, Allocate, Raise
  <2>2. UNCHANGED <<envelopes, jobs, found, worker, job, accepted, delivered>>
    BY <1>9 DEF BeginSubmit, Allocate
  <2>. QED BY <2>1, <2>2
<1>10. ASSUME NEW r \in Regions, Rewrite(r) PROVE QueueInv'
  BY <1>10 DEF Rewrite
<1>11. CASE Copy
  BY <1>11 DEF Copy
<1>12. CASE WriteEnvelope
  <2>1. current \in Job /\ current \notin accepted /\ \A e \in accepted : e.sequence < current.sequence
    BY <1>12 DEF WriteEnvelope, SequenceInv, Persisting, HubTypeOK, Sequence
  <2>2. Pill.sequence < current.sequence
    BY <2>1 DEF Sequence
  <2>3. \A n \in DOMAIN jobs : jobs[n] # Pill /\ jobs[n] \in envelopes
    BY <1>12 DEF WriteEnvelope, ThreadInv
  <2>4. \A n \in DOMAIN jobs : jobs[n].sequence < current.sequence
    BY <2>1, <2>3 DEF SequenceInv
  <2>5. job.sequence < current.sequence
    BY <2>1, <2>2
  <2>6. envelopes' = envelopes \cup {current} /\ accepted' = accepted \cup {current}
    BY <1>12 DEF WriteEnvelope
  <2>. QED BY <1>12, <2>1, <2>4, <2>5, <2>6 DEF WriteEnvelope
<1>13. CASE UnlinkLegacy
  BY <1>13 DEF UnlinkLegacy, HandedOver
<1>14. CASE Put
  <2>1. current \in Job /\ jobs \in Seq(Job \cup {Pill}) /\ current # Pill
    BY <1>14 DEF Put, WorkerTypeOK
  <2>2. /\ jobs' = Append(jobs, current) /\ main' = "running"
        /\ UNCHANGED <<envelopes, found, worker, job, accepted, delivered>>
    BY <1>14 DEF Put
  <2>3. /\ Len(jobs) \in Nat /\ DOMAIN jobs = 1..Len(jobs) /\ DOMAIN jobs' = 1..Len(jobs) + 1
        /\ \A n \in DOMAIN jobs : jobs'[n] = jobs[n]
        /\ jobs'[Len(jobs) + 1] = current
    BY <2>1, <2>2, AppendFacts
  <2>4. /\ \A n \in DOMAIN jobs : jobs[n] # Pill /\ jobs[n].sequence < current.sequence
        /\ job.sequence < current.sequence /\ current \in envelopes
    BY <1>14 DEF Put, ThreadInv
  <2>5. found = {}
    BY <1>14 DEF Put, ThreadInv, Opening, Persisting
  <2>6. JobsInOrder'
    BY <2>1, <2>2, <2>3, <2>4, <2>5
  <2>7. \A n \in DOMAIN jobs' : jobs'[n] # Pill => jobs'[n] \in envelopes'
    BY <2>2, <2>3, <2>4
  <2>. QED BY <2>2, <2>5, <2>6, <2>7
<1>15. CASE PersistFails
  BY <1>15 DEF PersistFails, Raise, Report, HandedOver
<1>16. CASE Interrupt
  BY <1>16 DEF Interrupt
<1>17. ASSUME NEW abort \in BOOLEAN, Close(abort) PROVE QueueInv'
  BY <1>17 DEF Close
<1>18. CASE PutPill
  <2>1. jobs \in Seq(Job \cup {Pill}) /\ found = {}
    BY <1>18 DEF PutPill, WorkerTypeOK, ThreadInv, Opening, Persisting
  <2>2. /\ jobs' = Append(jobs, Pill) /\ main' = "join"
        /\ UNCHANGED <<envelopes, found, worker, job, accepted, delivered>>
    BY <1>18 DEF PutPill
  <2>3. /\ Len(jobs) \in Nat /\ DOMAIN jobs = 1..Len(jobs) /\ DOMAIN jobs' = 1..Len(jobs) + 1
        /\ \A n \in DOMAIN jobs : jobs'[n] = jobs[n]
        /\ jobs'[Len(jobs) + 1] = Pill
    BY <2>1, <2>2, AppendFacts
  <2>4. \A n \in DOMAIN jobs : jobs[n] # Pill
    BY <1>18 DEF PutPill, ThreadInv
  <2>5. JobsInOrder'
    BY <2>1, <2>2, <2>3, <2>4
  <2>6. \A n \in DOMAIN jobs' : jobs'[n] # Pill => jobs'[n] \in envelopes'
    BY <2>2, <2>3
  <2>. QED BY <2>1, <2>2, <2>5, <2>6
<1>19. CASE Join
  BY <1>19 DEF Join
<1>20. CASE Exit
  <2>1. jobs' = <<>> /\ job' = Pill /\ found' = {} /\ main' = "down" /\ worker' = "none"
    BY <1>20 DEF Exit, ProcessEnds
  <2>. QED BY <2>1
<1>21. CASE Get
  <2>1. jobs \in Seq(Job \cup {Pill}) /\ jobs # <<>>
    BY <1>21 DEF Get, WorkerTypeOK
  <2>2. /\ jobs' = Tail(jobs) /\ job' = Head(jobs) /\ worker' = (IF Head(jobs) = Pill THEN "dead" ELSE "verify")
        /\ UNCHANGED <<envelopes, found, accepted, delivered, main, current>>
    BY <1>21 DEF Get
  <2>3. /\ Len(jobs) \in Nat /\ DOMAIN jobs = 1..Len(jobs) /\ 1 \in DOMAIN jobs /\ job' = jobs[1]
        /\ DOMAIN jobs' = 1..Len(jobs) - 1
        /\ \A n \in DOMAIN jobs' : n + 1 \in DOMAIN jobs /\ jobs'[n] = jobs[n + 1]
    BY <2>1, <2>2, TailFacts
  <2>4. \A m, n \in DOMAIN jobs' : m < n =>
            /\ jobs'[m] # Pill
            /\ jobs'[n] # Pill => jobs'[m].sequence < jobs'[n].sequence
    BY <2>3
  <2>5. \A n \in DOMAIN jobs' : jobs'[n] # Pill => job'.sequence < jobs'[n].sequence
    BY <2>3
  <2>6. \A e \in found : /\ job'.sequence < e.sequence
                          /\ \A n \in DOMAIN jobs' : jobs'[n].sequence < e.sequence
    BY <2>3
  <2>7. job' \in envelopes \cup {Pill} /\ (job' # Pill => job' \in envelopes)
    BY <2>3
  <2>8. \A n \in DOMAIN jobs' : jobs'[n] # Pill => jobs'[n] \in envelopes
    BY <2>3
  <2>9. main \in {"put", "unlinkLegacy"} =>
            /\ job'.sequence < current.sequence
            /\ \A n \in DOMAIN jobs' : jobs'[n].sequence < current.sequence
    BY <2>3
  <2>. QED BY <2>2, <2>4, <2>5, <2>6, <2>7, <2>8, <2>9 DEF SequenceInv
<1>22. CASE Verify
  BY <1>22 DEF Verify, Fail, Report
<1>23. CASE UploadSucceeds
  BY <1>23 DEF UploadSucceeds, Commit
<1>24. ASSUME NEW transient \in BOOLEAN, NEW committed \in BOOLEAN, UploadFails(transient, committed) PROVE QueueInv'
  BY <1>24 DEF UploadFails, Commit, Fail, Report
<1>25. CASE WaitEnds
  BY <1>25 DEF WaitEnds, Fail, Report
<1>26. CASE Unlink
  <2>1. job \in envelopes /\ job.sequence \in Nat
    BY <1>26 DEF Unlink, Sequence
  <2>2. /\ envelopes' = envelopes \ {job} /\ worker' = "rmtree"
        /\ UNCHANGED <<jobs, found, accepted, delivered, main, current, job>>
    BY <1>26 DEF Unlink
  <2>3. \A n \in DOMAIN jobs : jobs[n] # Pill => jobs[n] # job
    BY <2>1
  <2>4. \A e \in found : e # job
    BY <2>1
  <2>5. main \in {"put", "unlinkLegacy"} => current # job
    BY <2>1
  <2>. QED BY <2>1, <2>2, <2>3, <2>4, <2>5 DEF SequenceInv
<1>27. CASE UnlinkFails
  BY <1>27 DEF UnlinkFails, Fail, Report
<1>28. CASE Rmtree
  BY <1>28 DEF Rmtree
<1>29. CASE Crash
  <2>1. jobs' = <<>> /\ job' = Pill /\ found' = {} /\ main' = "down" /\ worker' = "none"
    BY <1>29 DEF Crash, ProcessEnds
  <2>. QED BY <2>1
<1>30. ASSUME NEW s \in Sequence, Tamper(s) PROVE QueueInv'
  BY <1>30 DEF Tamper
<1>. QED BY <1>1, <1>2, <1>3, <1>4, <1>5, <1>6, <1>7, <1>8, <1>9, <1>10, <1>11, <1>12, <1>13, <1>14, <1>15, <1>16, <1>17, <1>18, <1>19, <1>20, <1>21, <1>22, <1>23, <1>24, <1>25, <1>26, <1>27, <1>28, <1>29, <1>30 DEF Next, MainStep, WorkerStep

\* The invariant holds of an empty state directory.
LEMMA InitInv == Init => IInv
<1>. SUFFICES ASSUME Init PROVE IInv
  OBVIOUS
<1>. USE ConstantsAssumption, Ranges
<1>1. DiskTypeOK
  BY DEF Init, DiskTypeOK, Version, Content
<1>2. MainTypeOK
  BY DEF Init, MainTypeOK
<1>3. WorkerTypeOK
  <2>1. <<>> \in Seq(Job \cup {Pill}) /\ attempt \in 1..Attempts
    BY DEF Init
  <2>. QED BY <2>1, Zenon DEF Init, WorkerTypeOK
<1>4. HubTypeOK
  BY DEF Init, HubTypeOK, Content
<1>5. RetryInv /\ ThreadInv
  BY DEF Init, RetryInv, ThreadInv, Opening, Persisting
<1>6. SequenceInv
  BY DEF Init, SequenceInv, Persisting
<1>7. SnapshotInv
  BY DEF Init, SnapshotInv, EnvelopeHasSnapshot
<1>8. QueueInv
  BY DEF Init, QueueInv, JobsInOrder, Working
<1>. QED BY <1>1, <1>2, <1>3, <1>4, <1>5, <1>6, <1>7, <1>8 DEF IInv, TypeOK

\* Every step keeps the invariant.
LEMMA NextInv == IInv /\ [Next]_vars => IInv'
<1>1. ASSUME IInv, Next PROVE IInv'
  BY <1>1, TypeStep, ThreadStep, SequenceStep, SnapshotStep, QueueStep DEF IInv
<1>2. ASSUME IInv, UNCHANGED vars PROVE IInv'
  BY <1>2 DEF IInv, TypeOK, DiskTypeOK, MainTypeOK, WorkerTypeOK, HubTypeOK, RetryInv, ThreadInv,
              SequenceInv, SnapshotInv, QueueInv, JobsInOrder, EnvelopeHasSnapshot, SnapshotIntact,
              Opening, Persisting, Working, vars, disk, mainVars, shared, workerVars, history
<1>. QED BY <1>1, <1>2

------------------------------------------------------------------------------
(* Theorems *)

\* The inductive invariant holds in every reachable state.
THEOREM Invariance == Spec => []IInv
  BY InitInv, NextInv, PTL DEF Spec

\* Every variable keeps its type, and no upload is tried more than Attempts
\* times (_run_upload_attempts), whatever crashes and restarts happen.
THEOREM TypeCorrect == Spec => []TypeOK
<1>1. IInv => TypeOK
  BY DEF IInv
<1>. QED BY <1>1, Invariance, PTL

\* No sequence is ever given to two jobs, nor to a job and to the leftovers of
\* an interrupted one (_allocate_sequence and .highwater).
THEOREM SequencesAreUnique == Spec => []SequenceNamesOneJob
<1>1. IInv => SequenceNamesOneJob
  BY Ranges DEF IInv, SequenceInv, SequenceNamesOneJob, TypeOK, DiskTypeOK, MainTypeOK, HubTypeOK,
                Sequence
<1>. QED BY <1>1, Invariance, PTL

\* At every crash point each envelope finds its snapshot (persist, delete).
THEOREM SnapshotsOutliveEnvelopes == Spec => []EnvelopeHasSnapshot
<1>1. IInv => EnvelopeHasSnapshot
  BY DEF IInv, SnapshotInv
<1>. QED BY <1>1, Invariance, PTL

\* Resumed and new jobs reach the worker in sequence order.
THEOREM QueueKeepsOrder == Spec => []JobsInOrder
<1>1. IInv => JobsInOrder
  BY DEF IInv, QueueInv
<1>. QED BY <1>1, Invariance, PTL

------------------------------------------------------------------------------
(* The queue implements the outbox *)

\* A commit publishes exactly what the held job recorded, and that job is still
\* in the outbox.
LEMMA CommitDelivers ==
    ASSUME IInv, worker = "attempt", Commit, UNCHANGED <<envelopes, accepted>>
    PROVE  job \in Job /\ Outbox!Deliver(job)
<1>1. job \in Job /\ job \in envelopes
  BY HeldJobs DEF IInv, QueueInv, Working
<1>2. job.sha # Missing => snapshot[job.sequence] = job.sha
  BY DEF IInv, SnapshotInv, SnapshotIntact
<1>. QED BY <1>1, <1>2 DEF Commit, Outbox!Deliver

\* Every step is a step of the durable outbox, or changes nothing of it.
LEMMA StepImplementsOutbox ==
    ASSUME IInv, [Next]_vars PROVE [Outbox!Next]_(Outbox!outboxVars)
<1>. USE DEF disk, mainVars, shared, workerVars, history
<1>1. CASE WriteEnvelope
  <2>1. current \in Job /\ \A e \in accepted : e.sequence # current.sequence
    BY <1>1 DEF WriteEnvelope, IInv, SequenceInv, Persisting, TypeOK, HubTypeOK, Job, Sequence
  <2>2. Outbox!Accept(current)
    BY <1>1, <2>1 DEF WriteEnvelope, Outbox!Accept
  <2>. QED BY <2>1, <2>2 DEF Outbox!Next
<1>2. CASE UploadSucceeds
  BY <1>2, CommitDelivers DEF UploadSucceeds, Outbox!Next
<1>3. ASSUME NEW transient \in BOOLEAN, NEW committed \in BOOLEAN, UploadFails(transient, committed)
      PROVE  [Outbox!Next]_(Outbox!outboxVars)
  <2>1. CASE committed
    BY <1>3, <2>1, CommitDelivers DEF UploadFails, Outbox!Next
  <2>2. CASE ~committed
    BY <1>3, <2>2 DEF UploadFails, Outbox!outboxVars
  <2>. QED BY <2>1, <2>2
<1>4. CASE Unlink
  <2>1. job \in Job /\ job \in envelopes /\ job \in delivered
    BY <1>4, HeldJobs DEF Unlink, IInv, QueueInv, Working
  <2>2. Outbox!Acknowledge(job)
    BY <1>4, <2>1 DEF Unlink, Outbox!Acknowledge
  <2>. QED BY <2>1, <2>2 DEF Outbox!Next
<1>5. CASE UNCHANGED vars
  BY <1>5 DEF vars, Outbox!outboxVars
<1>6. CASE /\ Next
           /\ ~WriteEnvelope /\ ~UploadSucceeds /\ ~Unlink
           /\ ~\E transient, committed \in BOOLEAN : UploadFails(transient, committed)
  <2>. SUFFICES UNCHANGED <<envelopes, delivered, accepted, remote>>
    BY DEF Outbox!outboxVars
  <2>1. CASE MainStep
    BY <1>6, <2>1 DEF MainStep, Open, Classify, Restore, EnqueueResumed, ResumeDone, NoContainment,
        BeginUpgrade, BeginContainment, BeginSubmit, Allocate, Rewrite, Copy, UnlinkLegacy, Put,
        PersistFails, Close, PutPill, Join, Exit, ProcessEnds
  <2>2. CASE WorkerStep
    BY <1>6, <2>2 DEF WorkerStep, Get, Verify, WaitEnds, UnlinkFails, Rmtree
  <2>3. CASE Interrupt \/ Crash \/ \E s \in Sequence : Tamper(s)
    BY <2>3 DEF Interrupt, Crash, ProcessEnds, Tamper
  <2>. QED BY <1>6, <2>1, <2>2, <2>3 DEF Next
<1>. QED BY <1>1, <1>2, <1>3, <1>4, <1>5, <1>6

\* The queue, with its threads, files, retries, crashes and restarts,
\* implements the at-least-once outbox.
THEOREM QueueImplementsOutbox == Spec => ImplementsOutbox
<1>1. Init => Outbox!Init
  BY DEF Init, Outbox!Init
<1>. QED BY <1>1, StepImplementsOutbox, Invariance, PTL DEF Spec, ImplementsOutbox, Outbox!Spec
------------------------------------------------------------------------------
(* What is still on disk is accounted for *)

\* The main thread holds a job of its own only while it persists or puts it, and
\* keeps it when it is interrupted; the worker is then busy with older ones.
CurrentInv ==
    /\ main \notin {"copy", "write", "put", "unlinkLegacy", "raised", "pill", "join", "drained"}
           => current = Pill
    /\ main \in {"raised", "pill", "join", "drained"} /\ current # Pill =>
           /\ job.sequence < current.sequence
           /\ \A n \in DOMAIN jobs : jobs[n].sequence < current.sequence

\* Where a job that is on disk can be, once the state directory has been classified.
Accounted(e) ==
    \/ e.sequence \in failures
    \/ e \in found
    \/ \E n \in DOMAIN jobs : jobs[n] = e
    \/ Working /\ e = job
    \/ e = current /\ main \in {"put", "unlinkLegacy", "raised"}
    \/ e = current /\ main \in {"pill", "join", "drained"} /\ aborted

\* The queue that could not be classified never has a job.
Unclassified == main \in {"down", "resume", "raised"} /\ worker \in {"none", "get"} /\ jobs = <<>>

AccountInv ==
    /\ Unclassified \/ (main \notin {"down", "resume"} /\ \A e \in envelopes : Accounted(e))
    /\ failures \subseteq reported
    /\ main = "drained" => worker = "dead"

\* The legacy envelope the main thread is replacing.
Upgrading == main \in {"copy", "write", "unlinkLegacy"} /\ origin = "upgrade"

\* A legacy envelope is still to be tried, being replaced, or reported.
LegacyInv ==
    main \notin {"down", "resume", "raised"} =>
        /\ main = "upgrade" \/ Upgrading \/ todo = {}
        /\ \/ failures # {}
           \/ legacy \subseteq todo
           \/ Upgrading /\ legacy \subseteq todo \cup {current.region}

\* A job that is on disk and older than what its region shows was reported.
RegressInv ==
    /\ \A r \in Regions : applied[r] = 0 \/ \E e \in accepted : e.sequence = applied[r]
    /\ \A e \in envelopes : e.sequence < applied[e.region] => e.sequence \in reported

AccountsInv == CurrentInv /\ AccountInv /\ LegacyInv /\ RegressInv

\* Every action keeps the main thread's job younger than the worker's.
LEMMA CurrentStep ==
    ASSUME IInv, CurrentInv, Next PROVE CurrentInv'
<1>. USE Ranges, HeldJobs DEF disk, mainVars, shared, workerVars, history, CurrentInv
<1>. ThreadInv /\ QueueInv /\ SequenceInv /\ MainTypeOK /\ WorkerTypeOK BY DEF IInv, TypeOK
<1>1. CASE Open
  BY <1>1 DEF Open
<1>2. CASE Classify
  BY <1>2 DEF Classify
<1>3. CASE Restore
  BY <1>3 DEF Restore, SequencesOf
<1>4. CASE EnqueueResumed
  BY <1>4 DEF EnqueueResumed
<1>5. CASE ResumeDone
  BY <1>5 DEF ResumeDone
<1>6. CASE NoContainment
  BY <1>6 DEF NoContainment
<1>7. ASSUME NEW r \in Regions, BeginUpgrade(r) PROVE CurrentInv'
  BY <1>7 DEF BeginUpgrade, Allocate, Raise, Report
<1>8. ASSUME NEW r \in Regions, BeginContainment(r) PROVE CurrentInv'
  BY <1>8 DEF BeginContainment, Allocate, Raise
<1>9. ASSUME NEW r \in Regions, BeginSubmit(r) PROVE CurrentInv'
  BY <1>9 DEF BeginSubmit, Allocate, Raise
<1>10. ASSUME NEW r \in Regions, Rewrite(r) PROVE CurrentInv'
  BY <1>10 DEF Rewrite
<1>11. CASE Copy
  BY <1>11 DEF Copy
<1>12. CASE WriteEnvelope
  BY <1>12 DEF WriteEnvelope
<1>13. CASE UnlinkLegacy
  BY <1>13 DEF UnlinkLegacy, HandedOver
<1>14. CASE Put
  BY <1>14 DEF Put, HandedOver
<1>15. CASE PersistFails
  BY <1>15 DEF PersistFails, Raise, Report, HandedOver
<1>16. CASE Interrupt
  <2>1. main \in {"enqueue", "put"} /\ main' \in {"raised", "pill"} /\ UNCHANGED <<current, jobs, job>>
    BY <1>16 DEF Interrupt
  <2>. QED BY <2>1 DEF QueueInv
<1>17. ASSUME NEW abort \in BOOLEAN, Close(abort) PROVE CurrentInv'
  <2>1. main = "running" /\ main' = "pill" /\ UNCHANGED <<current, jobs, job>>
    BY <1>17 DEF Close
  <2>. QED BY <2>1 DEF QueueInv
<1>18. CASE PutPill
  <2>1. jobs \in Seq(Job \cup {Pill}) /\ Pill \in Job \cup {Pill}
    BY DEF WorkerTypeOK
  <2>2. \A n \in DOMAIN jobs' : jobs'[n] = Pill \/ (n \in DOMAIN jobs /\ jobs'[n] = jobs[n])
    BY <1>18, <2>1, AppendFacts DEF PutPill
  <2>3. current # Pill => Pill.sequence < current.sequence
    BY DEF MainTypeOK, Sequence
  <2>4. /\ main = "pill" /\ main' = "join" /\ UNCHANGED <<current, job>>
    BY <1>18 DEF PutPill
  <2>. QED BY <2>2, <2>3, <2>4
<1>19. CASE Join
  BY <1>19 DEF Join
<1>20. CASE Exit
  BY <1>20 DEF Exit, ProcessEnds
<1>21. CASE Get
  <2>1. jobs \in Seq(Job \cup {Pill}) /\ jobs # <<>>
    BY <1>21 DEF Get, WorkerTypeOK
  <2>2. /\ \A n \in DOMAIN jobs' : n + 1 \in DOMAIN jobs /\ jobs'[n] = jobs[n + 1]
        /\ 1 \in DOMAIN jobs /\ job' = jobs[1]
    BY <1>21, <2>1, TailFacts DEF Get
  <2>3. UNCHANGED <<main, current>>
    BY <1>21 DEF Get
  <2>. QED BY <2>2, <2>3
<1>22. CASE Verify
  BY <1>22 DEF Verify, Fail, Report
<1>23. CASE UploadSucceeds
  BY <1>23 DEF UploadSucceeds, Commit
<1>24. ASSUME NEW transient \in BOOLEAN, NEW committed \in BOOLEAN,
              UploadFails(transient, committed)
       PROVE  CurrentInv'
  BY <1>24 DEF UploadFails, Commit, Fail, Report
<1>25. CASE WaitEnds
  BY <1>25 DEF WaitEnds, Fail, Report
<1>26. CASE Unlink
  BY <1>26 DEF Unlink
<1>27. CASE UnlinkFails
  BY <1>27 DEF UnlinkFails, Fail, Report
<1>28. CASE Rmtree
  BY <1>28 DEF Rmtree
<1>29. CASE Crash
  BY <1>29 DEF Crash, ProcessEnds
<1>30. ASSUME NEW s \in Sequence, Tamper(s) PROVE CurrentInv'
  BY <1>30 DEF Tamper
<1>. QED BY <1>1, <1>2, <1>3, <1>4, <1>5, <1>6, <1>7, <1>8, <1>9, <1>10, <1>11, <1>12, <1>13,
          <1>14, <1>15, <1>16, <1>17, <1>18, <1>19, <1>20, <1>21, <1>22, <1>23, <1>24, <1>25,
          <1>26, <1>27, <1>28, <1>29, <1>30 DEF Next, MainStep, WorkerStep

\* Every action keeps account of each envelope.
LEMMA AccountStep ==
    ASSUME IInv, CurrentInv, AccountInv, Next PROVE AccountInv'
<1>. USE Ranges, HeldJobs DEF disk, mainVars, shared, workerVars, history, AccountInv, Unclassified, Accounted, Working
<1>. CurrentInv /\ ThreadInv /\ QueueInv /\ SequenceInv /\ TypeOK BY DEF IInv
<1>1. CASE Open
  BY <1>1 DEF Open
<1>2. CASE Classify
  BY <1>2 DEF Classify
<1>3. CASE Restore
  BY <1>3 DEF Restore, SequencesOf
<1>4. CASE EnqueueResumed
  <2>1. FirstFound \in Job /\ jobs \in Seq(Job \cup {Pill})
    BY <1>4, FirstFoundIsLeast DEF EnqueueResumed, TypeOK, MainTypeOK, WorkerTypeOK
  <2>2. /\ \A n \in DOMAIN jobs : n \in DOMAIN jobs' /\ jobs'[n] = jobs[n]
        /\ \E n \in DOMAIN jobs' : jobs'[n] = FirstFound
    BY <1>4, <2>1, AppendFacts DEF EnqueueResumed
  <2>3. /\ main = "enqueue" /\ found' = found \ {FirstFound}
        /\ UNCHANGED <<envelopes, main, current, aborted, failures, worker, job, reported>>
    BY <1>4 DEF EnqueueResumed
  <2>. QED BY <2>2, <2>3
<1>5. CASE ResumeDone
  BY <1>5 DEF ResumeDone
<1>6. CASE NoContainment
  BY <1>6 DEF NoContainment
<1>7. ASSUME NEW r \in Regions, BeginUpgrade(r) PROVE AccountInv'
  BY <1>7 DEF BeginUpgrade, Allocate, Raise, Report
<1>8. ASSUME NEW r \in Regions, BeginContainment(r) PROVE AccountInv'
  BY <1>8 DEF BeginContainment, Allocate, Raise
<1>9. ASSUME NEW r \in Regions, BeginSubmit(r) PROVE AccountInv'
  BY <1>9 DEF BeginSubmit, Allocate, Raise
<1>10. ASSUME NEW r \in Regions, Rewrite(r) PROVE AccountInv'
  BY <1>10 DEF Rewrite
<1>11. CASE Copy
  BY <1>11 DEF Copy
<1>12. CASE WriteEnvelope
  <2>1. /\ main = "write" /\ main' \in {"put", "unlinkLegacy"} /\ envelopes' = envelopes \cup {current}
        /\ UNCHANGED <<found, jobs, current, aborted, failures, worker, job, reported>>
    BY <1>12 DEF WriteEnvelope
  <2>. QED BY <2>1
<1>13. CASE UnlinkLegacy
  BY <1>13 DEF UnlinkLegacy, HandedOver
<1>14. CASE Put
  <2>1. current \in Job /\ jobs \in Seq(Job \cup {Pill})
    BY <1>14, HeldJobs DEF Put, TypeOK, MainTypeOK, WorkerTypeOK
  <2>2. /\ \A n \in DOMAIN jobs : n \in DOMAIN jobs' /\ jobs'[n] = jobs[n]
        /\ \E n \in DOMAIN jobs' : jobs'[n] = current
    BY <1>14, <2>1, AppendFacts DEF Put
  <2>3. /\ main = "put" /\ main' = "running"
        /\ UNCHANGED <<envelopes, found, aborted, failures, worker, job, reported>>
    BY <1>14 DEF Put
  <2>. QED BY <2>2, <2>3
<1>15. CASE PersistFails
  <2>1. /\ UNCHANGED <<envelopes, found, jobs, worker, job>>
        /\ main \in {"copy", "write", "unlinkLegacy"}
        /\ main' \in {"upgrade", "raised", "pill"}
        /\ failures \subseteq failures'
        /\ \A x \in failures' \ failures : x \in reported'
        /\ reported \subseteq reported'
    BY <1>15 DEF PersistFails, Raise, Report
  <2>2. main = "unlinkLegacy" => current.sequence \in failures'
    BY <1>15 DEF PersistFails, Raise, Report, ThreadInv
  <2>. QED BY <2>1, <2>2
<1>16. CASE Interrupt
  BY <1>16 DEF Interrupt
<1>17. ASSUME NEW abort \in BOOLEAN, Close(abort) PROVE AccountInv'
  BY <1>17 DEF Close
<1>18. CASE PutPill
  <2>1. jobs \in Seq(Job \cup {Pill}) /\ Pill \in Job \cup {Pill}
    BY DEF TypeOK, WorkerTypeOK
  <2>2. \A n \in DOMAIN jobs : n \in DOMAIN jobs' /\ jobs'[n] = jobs[n]
    BY <1>18, <2>1, AppendFacts DEF PutPill
  <2>3. /\ main = "pill" /\ main' = "join"
        /\ UNCHANGED <<envelopes, found, current, aborted, failures, worker, job, reported>>
    BY <1>18 DEF PutPill
  <2>. QED BY <2>2, <2>3
<1>19. CASE Join
  BY <1>19 DEF Join
<1>20. CASE Exit
  BY <1>20 DEF Exit, ProcessEnds
<1>21. CASE Get
  <2>1. jobs \in Seq(Job \cup {Pill}) /\ jobs # <<>>
    BY <1>21 DEF Get, TypeOK, WorkerTypeOK
  <2>2. /\ worker = "get" /\ UNCHANGED <<envelopes, found, main, current, aborted, failures, reported>>
        /\ job' = Head(jobs) /\ jobs' = Tail(jobs)
        /\ worker' = IF Head(jobs) = Pill THEN "dead" ELSE "verify"
    BY <1>21 DEF Get
  <2>3. ASSUME NEW e \in envelopes, NEW n \in DOMAIN jobs, jobs[n] = e
        PROVE  Accounted(e)'
    <3>1. e # Pill
      BY DEF TypeOK, DiskTypeOK
    <3>2. CASE n = 1
      BY <2>1, <2>2, <2>3, <3>1, <3>2, TailFacts
    <3>3. CASE n # 1
      <4>1. n - 1 \in DOMAIN jobs' /\ jobs'[n - 1] = e
        BY <2>1, <2>2, <2>3, <3>3, TailFacts
      <4>. QED BY <4>1
    <3>. QED BY <3>2, <3>3
  <2>. QED BY <2>1, <2>2, <2>3
<1>22. CASE Verify
  BY <1>22 DEF Verify, Fail, Report
<1>23. CASE UploadSucceeds
  BY <1>23 DEF UploadSucceeds, Commit
<1>24. ASSUME NEW transient \in BOOLEAN, NEW committed \in BOOLEAN,
              UploadFails(transient, committed)
       PROVE  AccountInv'
  BY <1>24 DEF UploadFails, Commit, Fail, Report
<1>25. CASE WaitEnds
  BY <1>25 DEF WaitEnds, Fail, Report
<1>26. CASE Unlink
  <2>1. /\ worker = "unlink" /\ worker' = "rmtree" /\ envelopes' = envelopes \ {job}
        /\ UNCHANGED <<found, jobs, main, current, aborted, failures, job, reported>>
    BY <1>26 DEF Unlink
  <2>. QED BY <2>1
<1>27. CASE UnlinkFails
  BY <1>27 DEF UnlinkFails, Fail, Report
<1>28. CASE Rmtree
  BY <1>28 DEF Rmtree
<1>29. CASE Crash
  BY <1>29 DEF Crash, ProcessEnds
<1>30. ASSUME NEW s \in Sequence, Tamper(s) PROVE AccountInv'
  BY <1>30 DEF Tamper
<1>. QED BY <1>1, <1>2, <1>3, <1>4, <1>5, <1>6, <1>7, <1>8, <1>9, <1>10, <1>11, <1>12, <1>13,
          <1>14, <1>15, <1>16, <1>17, <1>18, <1>19, <1>20, <1>21, <1>22, <1>23, <1>24, <1>25,
          <1>26, <1>27, <1>28, <1>29, <1>30 DEF Next, MainStep, WorkerStep

\* Every action keeps account of each legacy envelope.
LEMMA LegacyStep ==
    ASSUME IInv, LegacyInv, Next PROVE LegacyInv'
<1>. USE DEF disk, mainVars, shared, workerVars, history, LegacyInv, Upgrading
<1>. ThreadInv /\ TypeOK BY DEF IInv
<1>1. CASE Open
  BY <1>1 DEF Open
<1>2. CASE Classify
  BY <1>2 DEF Classify
<1>3. CASE Restore
  BY <1>3 DEF Restore, SequencesOf
<1>4. CASE EnqueueResumed
  BY <1>4 DEF EnqueueResumed
<1>5. CASE ResumeDone
  BY <1>5 DEF ResumeDone
<1>6. CASE NoContainment
  BY <1>6 DEF NoContainment
<1>7. ASSUME NEW r \in Regions, BeginUpgrade(r) PROVE LegacyInv'
  BY <1>7 DEF BeginUpgrade, Allocate, Raise, Report
<1>8. ASSUME NEW r \in Regions, BeginContainment(r) PROVE LegacyInv'
  BY <1>8 DEF BeginContainment, Allocate, Raise
<1>9. ASSUME NEW r \in Regions, BeginSubmit(r) PROVE LegacyInv'
  BY <1>9 DEF BeginSubmit, Allocate, Raise
<1>10. ASSUME NEW r \in Regions, Rewrite(r) PROVE LegacyInv'
  BY <1>10 DEF Rewrite
<1>11. CASE Copy
  <2>1. current \in Job
    BY <1>11, HeldJobs DEF Copy
  <2>2. current'.region = current.region
    BY <1>11, <2>1 DEF Copy, Job
  <2>. QED BY <1>11, <2>2 DEF Copy
<1>12. CASE WriteEnvelope
  BY <1>12 DEF WriteEnvelope
<1>13. CASE UnlinkLegacy
  BY <1>13 DEF UnlinkLegacy, HandedOver
<1>14. CASE Put
  BY <1>14 DEF Put, HandedOver
<1>15. CASE PersistFails
  BY <1>15 DEF PersistFails, Raise, Report, HandedOver
<1>16. CASE Interrupt
  BY <1>16 DEF Interrupt
<1>17. ASSUME NEW abort \in BOOLEAN, Close(abort) PROVE LegacyInv'
  BY <1>17 DEF Close
<1>18. CASE PutPill
  BY <1>18 DEF PutPill
<1>19. CASE Join
  BY <1>19 DEF Join
<1>20. CASE Exit
  BY <1>20 DEF Exit, ProcessEnds
<1>21. CASE Get
  BY <1>21 DEF Get
<1>22. CASE Verify
  BY <1>22 DEF Verify, Fail, Report
<1>23. CASE UploadSucceeds
  BY <1>23 DEF UploadSucceeds, Commit
<1>24. ASSUME NEW transient \in BOOLEAN, NEW committed \in BOOLEAN,
              UploadFails(transient, committed)
       PROVE  LegacyInv'
  BY <1>24 DEF UploadFails, Commit, Fail, Report
<1>25. CASE WaitEnds
  BY <1>25 DEF WaitEnds, Fail, Report
<1>26. CASE Unlink
  BY <1>26 DEF Unlink
<1>27. CASE UnlinkFails
  BY <1>27 DEF UnlinkFails, Fail, Report
<1>28. CASE Rmtree
  BY <1>28 DEF Rmtree
<1>29. CASE Crash
  BY <1>29 DEF Crash, ProcessEnds
<1>30. ASSUME NEW s \in Sequence, Tamper(s) PROVE LegacyInv'
  BY <1>30 DEF Tamper
<1>. QED BY <1>1, <1>2, <1>3, <1>4, <1>5, <1>6, <1>7, <1>8, <1>9, <1>10, <1>11, <1>12, <1>13,
          <1>14, <1>15, <1>16, <1>17, <1>18, <1>19, <1>20, <1>21, <1>22, <1>23, <1>24, <1>25,
          <1>26, <1>27, <1>28, <1>29, <1>30 DEF Next, MainStep, WorkerStep

\* A commit leaves no older job of its region on disk that was not reported.
LEMMA CommitRegress ==
    ASSUME IInv, CurrentInv, AccountInv, RegressInv, worker = "attempt", Commit,
           UNCHANGED <<envelopes, accepted>>, reported \subseteq reported'
    PROVE  RegressInv'
<1>. ThreadInv /\ QueueInv /\ SequenceInv /\ TypeOK
  BY DEF IInv
<1>1. job \in Job /\ job \in envelopes /\ job \in accepted /\ job.region \in Regions
  BY HeldJobs, Ranges DEF QueueInv, Working, SequenceInv
<1>2. /\ applied'[job.region] = job.sequence
      /\ \A r \in Regions : r # job.region => applied'[r] = applied[r]
  BY <1>1 DEF Commit, TypeOK, HubTypeOK
<1>3. ASSUME NEW e \in envelopes, e.sequence < job.sequence
      PROVE  e.sequence \in reported
  <2>1. Accounted(e)
    BY DEF AccountInv, Unclassified
  <2>2. e \in Job /\ e # Pill /\ e.sequence \in Nat /\ job.sequence \in Nat
    BY <1>1, Ranges DEF TypeOK, DiskTypeOK, Sequence
  <2>3. e \notin found
    BY <1>3, <2>2 DEF QueueInv, JobsInOrder
  <2>4. ~\E n \in DOMAIN jobs : jobs[n] = e
    BY <1>3, <2>2 DEF QueueInv, JobsInOrder
  <2>5. e # current \/ main \notin {"put", "unlinkLegacy", "raised", "pill", "join", "drained"}
    BY <1>3, <2>2 DEF QueueInv, CurrentInv
  <2>6. e # job
    BY <1>3, <2>2
  <2>7. e.sequence \in failures
    BY <2>1, <2>3, <2>4, <2>5, <2>6 DEF Accounted
  <2>. QED BY <2>7 DEF AccountInv
<1>4. \A e \in envelopes : e.region \in Regions
  BY Ranges DEF TypeOK, DiskTypeOK
<1>. QED BY <1>1, <1>2, <1>3, <1>4 DEF RegressInv

\* Every action keeps the jobs that may still regress reported ones.
LEMMA RegressStep ==
    ASSUME IInv, CurrentInv, AccountInv, RegressInv, Next PROVE RegressInv'
<1>. USE Ranges, HeldJobs DEF disk, mainVars, shared, workerVars, history, RegressInv
<1>. CurrentInv /\ AccountInv /\ ThreadInv /\ QueueInv /\ SequenceInv /\ TypeOK BY DEF IInv
<1>1. CASE Open
  BY <1>1 DEF Open
<1>2. CASE Classify
  BY <1>2 DEF Classify
<1>3. CASE Restore
  BY <1>3 DEF Restore, SequencesOf
<1>4. CASE EnqueueResumed
  BY <1>4 DEF EnqueueResumed
<1>5. CASE ResumeDone
  BY <1>5 DEF ResumeDone
<1>6. CASE NoContainment
  BY <1>6 DEF NoContainment
<1>7. ASSUME NEW r \in Regions, BeginUpgrade(r) PROVE RegressInv'
  BY <1>7 DEF BeginUpgrade, Allocate, Raise, Report
<1>8. ASSUME NEW r \in Regions, BeginContainment(r) PROVE RegressInv'
  BY <1>8 DEF BeginContainment, Allocate, Raise
<1>9. ASSUME NEW r \in Regions, BeginSubmit(r) PROVE RegressInv'
  BY <1>9 DEF BeginSubmit, Allocate, Raise
<1>10. ASSUME NEW r \in Regions, Rewrite(r) PROVE RegressInv'
  BY <1>10 DEF Rewrite
<1>11. CASE Copy
  BY <1>11 DEF Copy
<1>12. CASE WriteEnvelope
  <2>1. current \in Job /\ \A e \in accepted : e.sequence < current.sequence
    BY <1>12 DEF WriteEnvelope, SequenceInv, Persisting
  <2>2. current.region \in Regions /\ current.sequence \in Nat /\ 0 < current.sequence
    BY <2>1 DEF Sequence
  <2>3. /\ envelopes' = envelopes \cup {current} /\ accepted' = accepted \cup {current}
        /\ UNCHANGED <<applied, reported>>
    BY <1>12 DEF WriteEnvelope
  <2>4. \A e \in accepted : e.sequence \in Nat
    BY DEF TypeOK, HubTypeOK, Sequence
  <2>5. ~(current.sequence < applied[current.region])
    BY <2>1, <2>2, <2>4
  <2>. QED BY <2>3, <2>5
<1>13. CASE UnlinkLegacy
  BY <1>13 DEF UnlinkLegacy, HandedOver
<1>14. CASE Put
  BY <1>14 DEF Put, HandedOver
<1>15. CASE PersistFails
  BY <1>15 DEF PersistFails, Raise, Report, HandedOver
<1>16. CASE Interrupt
  BY <1>16 DEF Interrupt
<1>17. ASSUME NEW abort \in BOOLEAN, Close(abort) PROVE RegressInv'
  BY <1>17 DEF Close
<1>18. CASE PutPill
  BY <1>18 DEF PutPill
<1>19. CASE Join
  BY <1>19 DEF Join
<1>20. CASE Exit
  BY <1>20 DEF Exit, ProcessEnds
<1>21. CASE Get
  BY <1>21 DEF Get
<1>22. CASE Verify
  BY <1>22 DEF Verify, Fail, Report
<1>23. CASE UploadSucceeds
  BY <1>23, CommitRegress DEF UploadSucceeds
<1>24. ASSUME NEW transient \in BOOLEAN, NEW committed \in BOOLEAN,
              UploadFails(transient, committed)
       PROVE  RegressInv'
  <2>1. CASE committed
    BY <1>24, <2>1, CommitRegress DEF UploadFails, Fail, Report
  <2>2. CASE ~committed
    BY <1>24, <2>2 DEF UploadFails, Fail, Report
  <2>. QED BY <2>1, <2>2
<1>25. CASE WaitEnds
  BY <1>25 DEF WaitEnds, Fail, Report
<1>26. CASE Unlink
  BY <1>26 DEF Unlink
<1>27. CASE UnlinkFails
  BY <1>27 DEF UnlinkFails, Fail, Report
<1>28. CASE Rmtree
  BY <1>28 DEF Rmtree
<1>29. CASE Crash
  BY <1>29 DEF Crash, ProcessEnds
<1>30. ASSUME NEW s \in Sequence, Tamper(s) PROVE RegressInv'
  BY <1>30 DEF Tamper
<1>. QED BY <1>1, <1>2, <1>3, <1>4, <1>5, <1>6, <1>7, <1>8, <1>9, <1>10, <1>11, <1>12, <1>13,
          <1>14, <1>15, <1>16, <1>17, <1>18, <1>19, <1>20, <1>21, <1>22, <1>23, <1>24, <1>25,
          <1>26, <1>27, <1>28, <1>29, <1>30 DEF Next, MainStep, WorkerStep

\* The accounts hold of an empty state directory, and every step keeps them.
LEMMA AccountsHold == Spec => []AccountsInv
<1>1. Init => AccountsInv
  BY DEF Init, AccountsInv, CurrentInv, AccountInv, Unclassified, LegacyInv, RegressInv
<1>2. ASSUME IInv, AccountsInv, Next PROVE AccountsInv'
  BY <1>2, CurrentStep, AccountStep, LegacyStep, RegressStep DEF AccountsInv
<1>3. ASSUME AccountsInv, UNCHANGED vars PROVE AccountsInv'
  BY <1>3 DEF AccountsInv, CurrentInv, AccountInv, Unclassified, Accounted, Working, LegacyInv,
              Upgrading, RegressInv, vars, disk, mainVars, shared, workerVars, history
<1>4. IInv /\ AccountsInv /\ [Next]_vars => AccountsInv'
  BY <1>2, <1>3
<1>. QED BY <1>1, <1>4, Invariance, PTL DEF Spec

\* When close_and_wait returns, whatever crashes and restarts came before: what the
\* state directory still holds was reported as failed by this very process, or is
\* the one job an aborted run was interrupted on; and without a report every legacy
\* envelope has been upgraded.  SyncApplication.run relies on it.
THEOREM DrainedIsDelivered == Spec => []DrainedMeansDelivered
<1>1. IInv /\ AccountsInv => DrainedMeansDelivered
  <2> SUFFICES ASSUME IInv, AccountsInv, main = "drained"
               PROVE  /\ \A e \in envelopes : e.sequence \in failures \/ (aborted /\ e = current)
                      /\ failures = {} => legacy = {}
    BY DEF DrainedMeansDelivered
  <2>1. jobs = <<>> /\ found = {} /\ worker # "none"
    BY DEF IInv, ThreadInv, Opening, Persisting
  <2>2. worker = "dead" /\ DOMAIN jobs = {}
    BY <2>1 DEF AccountsInv, AccountInv
  <2>3. \A e \in envelopes : Accounted(e)
    BY DEF AccountsInv, AccountInv, Unclassified
  <2>4. \A e \in envelopes : e.sequence \in failures \/ (aborted /\ e = current)
    BY <2>1, <2>2, <2>3 DEF Accounted, Working
  <2>5. failures = {} => legacy = {}
    BY DEF AccountsInv, LegacyInv, Upgrading
  <2>. QED BY <2>4, <2>5
<1>. QED BY <1>1, Invariance, AccountsHold, PTL

\* For any number of crashes, restarts and retries: a commit puts an older job over
\* a newer one of the same region only if some process had reported the older one
\* as failed (_ordered_pending_jobs, resume_pending).
THEOREM RegressionsAreReported == Spec => OnlyReportedJobsRegress
<1>1. ASSUME IInv, RegressInv, worker = "attempt", Commit
      PROVE  \A r \in Regions : applied'[r] < applied[r] => applied'[r] \in reported
  <2>1. job \in Job /\ job \in envelopes /\ job.region \in Regions
    BY <1>1, HeldJobs, Ranges DEF IInv, QueueInv, Working
  <2>2. /\ applied'[job.region] = job.sequence
        /\ \A r \in Regions : r # job.region => applied'[r] = applied[r]
        /\ \A r \in Regions : applied[r] \in Nat
    BY <1>1, <2>1, ConstantsAssumption DEF Commit, IInv, TypeOK, HubTypeOK
  <2>. QED BY <1>1, <2>1, <2>2 DEF RegressInv
<1>2. ASSUME IInv, RegressInv, [Next]_vars
      PROVE  \A r \in Regions : applied'[r] < applied[r] => applied'[r] \in reported
  <2>1. CASE worker = "attempt" /\ Commit
    BY <1>1, <1>2, <2>1
  <2>2. CASE applied' = applied
    BY <1>2, <2>2, ConstantsAssumption DEF IInv, TypeOK, HubTypeOK
  <2>3. (worker = "attempt" /\ Commit) \/ applied' = applied
    <3>. USE DEF disk, mainVars, shared, workerVars, history
    <3>1. CASE UNCHANGED vars
      BY <3>1 DEF vars
    <3>2. CASE MainStep
      BY <3>2 DEF MainStep, Open, Classify, Restore, EnqueueResumed, ResumeDone, NoContainment,
          BeginUpgrade, BeginContainment, BeginSubmit, Allocate, Rewrite, Copy, WriteEnvelope,
          UnlinkLegacy, Put, PersistFails, Close, PutPill, Join, Exit, ProcessEnds
    <3>3. CASE WorkerStep
      BY <3>3 DEF WorkerStep, Get, Verify, UploadSucceeds, UploadFails, WaitEnds, Unlink,
          UnlinkFails, Rmtree
    <3>4. CASE Interrupt \/ Crash \/ \E s \in Sequence : Tamper(s)
      BY <3>4 DEF Interrupt, Crash, ProcessEnds, Tamper
    <3>. QED BY <1>2, <3>1, <3>2, <3>3, <3>4 DEF Next
  <2>. QED BY <2>1, <2>2, <2>3
<1>3. AccountsInv => RegressInv
  BY DEF AccountsInv
<1>. QED BY <1>2, <1>3, Invariance, AccountsHold, PTL DEF Spec, OnlyReportedJobsRegress
==============================================================================
