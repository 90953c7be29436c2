------------------------ MODULE WikidataRecoveryProofs ------------------------
(***************************************************************************)
(* Proofs about WikidataRecovery, for every number of tables and manifests *)
(* and every bound: the types, that a repair happens as a whole or not at  *)
(* all, and that a receipt never vouches for tables with something left to *)
(* repair.                                                                 *)
(***************************************************************************)
EXTENDS WikidataRecovery, TLAPS

------------------------------------------------------------------------------
(* The inductive invariant *)

\* Two contents tell the same story about the region.
Same(c, d) == c.repaired = d.repaired /\ c.generation = d.generation

\* Where there can be a journal and a directory, and where a repair has reason to be.
ControlInv ==
    /\ pc \in {"build", "stage", "prepare", "rmdir", "receipt"} => journal = "none"
    /\ pc \in {"committing", "forward", "committed", "rollback", "cleanup", "unlink"}
           => journal # "none"
    /\ pc \in {"stage", "prepare"} => directory /\ repairable
    /\ pc = "rollback" => then # "receipt"
    /\ pc = "receipt" => then = "receipt"

\* What is staged so far is the repaired form of its target.
StagedInv ==
    \A i \in Artifacts : pc = "prepare" \/ (pc = "stage" /\ i < index) =>
        /\ staged[i] \in Content /\ staged[i].repaired
        /\ staged[i].generation = target[i].generation

\* The journal records the repaired form of one generation, and what is left of
\* its backups tells one story.
JournalInv ==
    journal # "none" =>
        /\ entries \in [Artifacts -> Content]
        /\ \A i, j \in Artifacts : entries[i].repaired /\ entries[i].generation = entries[j].generation
        /\ \A i, j \in Artifacts :
               backup[i] # Nothing /\ backup[j] # Nothing => Same(backup[i], backup[j])

\* How far a replacement or its undoing has come.
ProgressInv ==
    /\ pc = "forward" => \A i \in Artifacts : i < index => Same(target[i], entries[i])
    /\ pc = "rollback" => \A i \in Artifacts : i > index =>
           backup[i] # Nothing /\ Same(target[i], backup[i])
    /\ pc \in {"committed", "cleanup", "unlink"} =>
           \A i, j \in Artifacts : Same(target[i], target[j])
    /\ pc \in {"committed", "cleanup", "unlink", "rmdir", "receipt"} /\ then = "receipt" =>
           \A i \in Artifacts : target[i].repaired

\* A receipt for damaged tables was stored when nothing could repair them: whatever
\* can be put back into place is younger, and so are the tables once they can be
\* repaired.
ReceiptInv ==
    \A i \in TableSet : receipt[i] # Nothing /\ ~receipt[i].repaired => \A j \in Artifacts :
        /\ receipt[i].generation <= target[j].generation
        /\ repairable => receipt[i].generation < target[j].generation
        /\ journal # "none" => receipt[i].generation < entries[j].generation
        /\ journal # "none" /\ backup[j] # Nothing =>
               receipt[i].generation < backup[j].generation

IInv ==
    /\ TypeOK /\ ControlInv /\ StagedInv /\ JournalInv /\ ProgressInv
    /\ NoTornRepair /\ ReceiptInv
------------------------------------------------------------------------------
(* Lemmas *)

\* Artifacts are numbered, tables are artifacts, and no file is not a content.
LEMMA Ranges ==
    /\ Last \in Nat /\ 1 \in Artifacts /\ Last \in Artifacts /\ Last \in TableSet
    /\ Artifacts \subseteq Nat /\ TableSet \subseteq Artifacts /\ 1..Shared \subseteq Artifacts
    /\ \A i \in Artifacts : 1 <= i /\ i <= Last
    /\ \A i \in Artifacts : i < Last => i + 1 \in Artifacts
    /\ \A i \in Artifacts : i > 1 => i - 1 \in Artifacts
    /\ Nothing \notin Content
  BY ConstantsAssumption DEF Last, Artifacts, TableSet, Content, Nothing

\* The fields of a content, and of one with one field changed.
LEMMA FieldUpdates ==
    ASSUME NEW c \in Content
    PROVE  /\ c.generation \in 0..MaxGeneration /\ c.repaired \in BOOLEAN /\ c.others \in 0..MaxOthers
           /\ c.generation \in Nat
           /\ [c EXCEPT !.repaired = TRUE] \in Content
           /\ [c EXCEPT !.repaired = TRUE].repaired
           /\ [c EXCEPT !.repaired = TRUE].generation = c.generation
           /\ c.others < MaxOthers => [c EXCEPT !.others = @ + 1] \in Content
           /\ [c EXCEPT !.others = @ + 1].repaired = c.repaired
           /\ [c EXCEPT !.others = @ + 1].generation = c.generation
<1>1. c.generation \in 0..MaxGeneration /\ c.repaired \in BOOLEAN /\ c.others \in 0..MaxOthers
  BY DEF Content
<1>2. c.generation \in Nat
  BY <1>1
<1>3. /\ [c EXCEPT !.repaired = TRUE] \in Content
      /\ [c EXCEPT !.repaired = TRUE].repaired
      /\ [c EXCEPT !.repaired = TRUE].generation = c.generation
  BY DEF Content
<1>4. /\ c.others < MaxOthers => [c EXCEPT !.others = @ + 1] \in Content
      /\ [c EXCEPT !.others = @ + 1].repaired = c.repaired
      /\ [c EXCEPT !.others = @ + 1].generation = c.generation
  BY ConstantsAssumption DEF Content
<1>. QED BY <1>1, <1>2, <1>3, <1>4, Zenon

\* A content after the region has been processed again.
LEMMA ReprocessedContent ==
    ASSUME NEW c \in Content, NEW g \in 0..MaxGeneration
    PROVE  /\ [c EXCEPT !.repaired = FALSE, !.generation = g] \in Content
           /\ ~[c EXCEPT !.repaired = FALSE, !.generation = g].repaired
           /\ [c EXCEPT !.repaired = FALSE, !.generation = g].generation = g
<1>1. [c EXCEPT !.repaired = FALSE] \in Content /\ ~[c EXCEPT !.repaired = FALSE].repaired
  BY DEF Content
<1>2. \A d \in Content : /\ [d EXCEPT !.generation = g] \in Content
                        /\ [d EXCEPT !.generation = g].generation = g
                        /\ [d EXCEPT !.generation = g].repaired = d.repaired
  BY DEF Content
<1>3. /\ [c EXCEPT !.repaired = FALSE, !.generation = g] \in Content
      /\ [c EXCEPT !.repaired = FALSE, !.generation = g].generation = g
      /\ [c EXCEPT !.repaired = FALSE, !.generation = g].repaired
             = [c EXCEPT !.repaired = FALSE].repaired
  BY <1>1, <1>2, Zenon
<1>. QED BY <1>1, <1>3, Zenon

\* The types, one fact each.
LEMMA Types ==
    ASSUME TypeOK
    PROVE  /\ target \in [Artifacts -> Content]
           /\ staged \in [Artifacts -> Content \cup {Nothing}]
           /\ backup \in [Artifacts -> Content \cup {Nothing}]
           /\ entries \in [Artifacts -> Content \cup {Nothing}]
           /\ receipt \in [TableSet -> Content \cup {Nothing}]
           /\ index \in Artifacts /\ index \in Nat
           /\ \A i \in Artifacts : target[i].generation \in Nat
           /\ \A i \in TableSet : receipt[i] # Nothing => receipt[i].generation \in Nat
           /\ TablesNow \in [TableSet -> Content]
<1>1. \A c \in Content : c.generation \in Nat
  BY FieldUpdates
<1>2. receipt \in [TableSet -> Content \cup {Nothing}]
  BY DEF TypeOK
<1>3. \A i \in TableSet : receipt[i] # Nothing => receipt[i] \in Content
  BY <1>2
<1>. QED BY <1>1, <1>2, <1>3, Ranges DEF TypeOK, TablesNow

------------------------------------------------------------------------------
(* The invariant holds *)

LEMMA InitIInv == Init => IInv
<1> SUFFICES ASSUME Init PROVE IInv
  OBVIOUS
<1> USE Ranges
<1>1. [generation |-> 0, repaired |-> FALSE, others |-> 0] \in Content
  BY ConstantsAssumption DEF Content
<1>2. TypeOK
  <2>1. NoFiles \in [Artifacts -> Content \cup {Nothing}]
    BY DEF NoFiles
  <2>2. {directory, repairable, mine} \subseteq BOOLEAN
    BY Zenon DEF Init
  <2>3. {staged, backup, entries} \subseteq [Artifacts -> Content \cup {Nothing}]
    BY <2>1, Zenon DEF Init
  <2>. QED BY <1>1, <2>2, <2>3, ConstantsAssumption DEF Init, TypeOK
<1>3. ControlInv /\ StagedInv /\ JournalInv /\ ProgressInv
  BY DEF Init, ControlInv, StagedInv, JournalInv, ProgressInv
<1>4. NoTornRepair /\ ReceiptInv
  BY DEF Init, NoTornRepair, ReceiptInv
<1>. QED BY <1>2, <1>3, <1>4 DEF IInv

\* Steps that only move the process on: starting, looking for a journal, giving
\* up, crashing.
LEMMA MovingPreserves ==
    ASSUME IInv,
           \/ \E b \in BOOLEAN : Begin(b)
           \/ RecoverNothing \/ RecoverInterrupted \/ MkdirFails \/ StageFails \/ RollbackFails
           \/ Crash
    PROVE  IInv'
<1> USE Ranges
<1>1. /\ UNCHANGED <<target, directory, staged, backup, journal, entries, receipt, repairable>>
      /\ pc' \in {"down", "recover", "build", "forward", "rollback"}
      /\ pc' = "build" => journal = "none"
      /\ pc' \in {"forward", "rollback"} => journal # "none" /\ then' = "recover"
      /\ pc' = "forward" => index' = 1
      /\ pc' = "rollback" => index' = Last
  BY DEF Begin, RecoverNothing, RecoverInterrupted, MkdirFails, StageFails, RollbackFails, Crash,
         files, IInv, TypeOK
<1>a. index' \in Artifacts /\ then' \in {"down", "recover", "receipt"}
  BY DEF Begin, RecoverNothing, RecoverInterrupted, MkdirFails, StageFails, RollbackFails, Crash,
         IInv, TypeOK
<1>b. crashes' \in 0..MaxCrashes
  BY ConstantsAssumption
     DEF Begin, RecoverNothing, RecoverInterrupted, MkdirFails, StageFails, RollbackFails, Crash,
         IInv, TypeOK
<1>c. mine' \in BOOLEAN
  <2>1. mine \in BOOLEAN
    BY Zenon DEF IInv, TypeOK
  <2>. QED BY <2>1, Zenon
       DEF Begin, RecoverNothing, RecoverInterrupted, MkdirFails, StageFails, RollbackFails, Crash
<1>2. /\ index' \in Artifacts /\ then' \in {"down", "recover", "receipt"}
      /\ mine' \in BOOLEAN /\ crashes' \in 0..MaxCrashes
  BY <1>a, <1>b, <1>c
<1>3. TypeOK'
  BY <1>1, <1>2 DEF IInv, TypeOK
<1>4. ControlInv' /\ StagedInv'
  BY <1>1 DEF IInv, ControlInv, StagedInv
<1>5. JournalInv' /\ NoTornRepair' /\ ReceiptInv'
  BY <1>1 DEF IInv, JournalInv, NoTornRepair, ReceiptInv
<1>6. ProgressInv'
  <2>1. \A i \in Artifacts : ~(i < 1) /\ ~(i > Last)
    OBVIOUS
  <2>. QED BY <1>1, <2>1 DEF ProgressInv
<1>. QED BY <1>3, <1>4, <1>5, <1>6 DEF IInv

\* A receipt is stored when nothing can be repaired, or when it just has been.
LEMMA ReceiptPreserves ==
    ASSUME IInv, RepairUnchanged \/ RecordReceipt
    PROVE  IInv'
<1> USE Ranges
<1>1. /\ UNCHANGED <<target, directory, staged, backup, journal, entries, repairable, index, mine,
                      then, crashes>>
      /\ pc' = "down" /\ receipt' = TablesNow /\ journal = "none"
  BY DEF RepairUnchanged, RecordReceipt, files, IInv, ControlInv
<1>2. TypeOK'
  BY <1>1, Types DEF IInv, TypeOK
<1>3. ControlInv' /\ StagedInv' /\ JournalInv' /\ ProgressInv' /\ NoTornRepair'
  BY <1>1 DEF IInv, ControlInv, StagedInv, JournalInv, ProgressInv, NoTornRepair
<1>4. ReceiptInv'
  <2>1. \A i \in TableSet : receipt'[i] = target[i]
    BY <1>1 DEF TablesNow
  <2>2. CASE RepairUnchanged
    <3>1. ~repairable
      BY <2>2 DEF RepairUnchanged
    <3>2. \A i, j \in Artifacts : target[i].generation <= target[j].generation
      BY <1>1, Types DEF IInv, NoTornRepair
    <3>. QED BY <1>1, <2>1, <3>1, <3>2 DEF ReceiptInv
  <2>3. CASE RecordReceipt
    <3>1. pc = "receipt"
      BY <2>3 DEF RecordReceipt
    <3>2. then = "receipt"
      BY <3>1 DEF IInv, ControlInv
    <3>. QED BY <1>1, <2>1, <3>1, <3>2 DEF IInv, ProgressInv, ReceiptInv
  <2>. QED BY <2>2, <2>3
<1>. QED BY <1>2, <1>3, <1>4 DEF IInv
\* A directory is made and the repaired forms are staged; nothing else changes.
LEMMA StagingPreserves ==
    ASSUME IInv, Mkdir \/ Stage
    PROVE  IInv'
<1> USE Ranges
<1>1. /\ UNCHANGED <<target, backup, journal, entries, receipt, repairable, mine, then, crashes>>
      /\ pc' \in {"stage", "prepare"} /\ journal = "none" /\ directory' /\ repairable
  BY Zenon DEF Mkdir, Stage, IInv, ControlInv
<1>2. ControlInv' /\ JournalInv' /\ ProgressInv' /\ NoTornRepair' /\ ReceiptInv'
  BY <1>1 DEF IInv, ControlInv, JournalInv, ProgressInv, NoTornRepair, ReceiptInv
<1>3. CASE Mkdir
  <2>1. TypeOK'
    BY <1>1, <1>3 DEF Mkdir, IInv, TypeOK
  <2>2. StagedInv'
    BY <1>3 DEF Mkdir, StagedInv
  <2>. QED BY <1>2, <2>1, <2>2 DEF IInv
<1>4. CASE Stage
  <2>1. index \in Artifacts /\ target[index] \in Content
    BY Types DEF IInv
  <2>2. /\ Repaired(index) \in Content /\ Repaired(index).repaired
        /\ Repaired(index).generation = target[index].generation
    BY <2>1, FieldUpdates DEF Repaired
  <2>3. /\ staged' \in [Artifacts -> Content \cup {Nothing}]
        /\ staged'[index] = Repaired(index)
        /\ \A i \in Artifacts : i # index => staged'[i] = staged[i]
    BY <1>4, <2>1, <2>2, Types DEF Stage, IInv
  <2>4. index' \in Artifacts
    BY <1>4, <2>1 DEF Stage
  <2>5. TypeOK'
    BY <1>1, <1>4, <2>3, <2>4 DEF Stage, IInv, TypeOK
  <2>6. \A i \in Artifacts : i <= index =>
            /\ staged'[i] \in Content /\ staged'[i].repaired
            /\ staged'[i].generation = target[i].generation
    BY <1>4, <2>1, <2>2, <2>3 DEF Stage, IInv, StagedInv
  <2>7. StagedInv'
    <3>1. \A i \in Artifacts : pc' = "prepare" \/ (pc' = "stage" /\ i < index') => i <= index
      BY <1>4, <2>1 DEF Stage
    <3>. QED BY <1>1, <2>6, <3>1 DEF StagedInv
  <2>. QED BY <1>2, <2>5, <2>7 DEF IInv
<1>. QED BY <1>3, <1>4

\* The journal is written over the staged files and the backups, and enters its
\* next phases.
LEMMA JournalPreserves ==
    ASSUME IInv, Prepare \/ Committing \/ Committed
    PROVE  IInv'
<1> USE Ranges
<1>1. UNCHANGED <<target, directory, staged, receipt, repairable, mine, crashes>>
  BY DEF Prepare, Committing, Committed
<1>2. CASE Prepare
  <2>1. /\ pc = "prepare" /\ pc' = "committing" /\ backup' = target /\ entries' = staged
        /\ journal = "none" /\ journal' = "prepared" /\ directory /\ repairable
        /\ UNCHANGED <<index, then>>
    BY <1>2 DEF Prepare, IInv, ControlInv
  <2>2. staged \in [Artifacts -> Content] /\ target \in [Artifacts -> Content]
    BY <2>1, Types DEF IInv, StagedInv
  <2>3. TypeOK'
    BY <1>1, <2>1, <2>2 DEF IInv, TypeOK
  <2>4. ControlInv' /\ StagedInv' /\ ProgressInv' /\ NoTornRepair'
    BY <2>1 DEF ControlInv, StagedInv, ProgressInv, NoTornRepair
  <2>5. \A i, j \in Artifacts : Same(target[i], target[j])
    BY <2>1 DEF IInv, NoTornRepair, Same
  <2>6. \A i \in Artifacts : staged[i].repaired /\ staged[i].generation = target[i].generation
    BY <2>1 DEF IInv, StagedInv
  <2>7. JournalInv'
    BY <2>1, <2>2, <2>5, <2>6 DEF JournalInv, Same
  <2>8. ReceiptInv'
    BY <1>1, <2>1, <2>6 DEF IInv, ReceiptInv
  <2>. QED BY <2>3, <2>4, <2>7, <2>8 DEF IInv
<1>3. CASE Committing
  <2>1. /\ pc = "committing" /\ pc' = "forward" /\ index' = 1 /\ then' = "receipt"
        /\ journal # "none" /\ journal' = "committing" /\ UNCHANGED <<backup, entries>>
    BY <1>3 DEF Committing, IInv, ControlInv
  <2>2. TypeOK'
    BY <1>1, <2>1 DEF IInv, TypeOK
  <2>3. ControlInv' /\ StagedInv' /\ ProgressInv' /\ NoTornRepair'
    <3>1. \A i \in Artifacts : ~(i < 1)
      OBVIOUS
    <3>. QED BY <2>1, <3>1 DEF ControlInv, StagedInv, ProgressInv, NoTornRepair
  <2>4. JournalInv' /\ ReceiptInv'
    BY <1>1, <2>1 DEF IInv, JournalInv, ReceiptInv
  <2>. QED BY <2>2, <2>3, <2>4 DEF IInv
<1>4. CASE Committed
  <2>1. /\ pc = "committed" /\ pc' = "cleanup" /\ journal # "none" /\ journal' = "committed"
        /\ UNCHANGED <<backup, entries, index, then>>
    BY <1>4 DEF Committed, IInv, ControlInv
  <2>2. TypeOK'
    BY <1>1, <2>1 DEF IInv, TypeOK
  <2>3. ControlInv' /\ StagedInv' /\ ProgressInv' /\ NoTornRepair'
    BY <1>1, <2>1 DEF IInv, ControlInv, StagedInv, ProgressInv, NoTornRepair
  <2>4. JournalInv' /\ ReceiptInv'
    BY <1>1, <2>1 DEF IInv, JournalInv, ReceiptInv
  <2>. QED BY <2>2, <2>3, <2>4 DEF IInv
<1>. QED BY <1>2, <1>3, <1>4

\* What a replacement by the recorded artifact does, whether or not it then fails.
LEMMA ForwardFacts ==
    ASSUME IInv, pc = "forward", target' = [target EXCEPT ![index] = entries[index]]
    PROVE  /\ target' \in [Artifacts -> Content] /\ index \in Artifacts
           /\ target'[index] = entries[index]
           /\ \A i \in Artifacts : i # index => target'[i] = target[i]
           /\ \A i \in Artifacts : i <= index => Same(target'[i], entries[i])
           /\ \A i \in TableSet : receipt[i] # Nothing /\ ~receipt[i].repaired =>
                  \A j \in Artifacts : /\ receipt[i].generation <= target'[j].generation
                                       /\ repairable => receipt[i].generation < target'[j].generation
<1> USE Ranges
<1>1. journal # "none" /\ entries \in [Artifacts -> Content]
  BY DEF IInv, ControlInv, JournalInv
<1>2. /\ target' \in [Artifacts -> Content] /\ index \in Artifacts
      /\ target'[index] = entries[index]
      /\ \A i \in Artifacts : i # index => target'[i] = target[i]
  BY <1>1, Types DEF IInv
<1>3. \A i \in Artifacts : i <= index => Same(target'[i], entries[i])
  BY <1>2 DEF IInv, ProgressInv, Same
<1>4. ASSUME NEW i \in TableSet, receipt[i] # Nothing, ~receipt[i].repaired, NEW j \in Artifacts
      PROVE  /\ receipt[i].generation <= target'[j].generation
             /\ repairable => receipt[i].generation < target'[j].generation
  <2>1. receipt[i] \in Content
    BY <1>4, Types DEF IInv
  <2>2. receipt[i].generation \in Nat /\ entries[j].generation \in Nat
    BY <1>1, <2>1, FieldUpdates
  <2>3. receipt[i].generation < entries[j].generation
    BY <1>1, <1>4 DEF IInv, ReceiptInv
  <2>4. /\ receipt[i].generation <= target[j].generation
        /\ repairable => receipt[i].generation < target[j].generation
    BY <1>4 DEF IInv, ReceiptInv
  <2>5. CASE j = index
    BY <1>2, <2>2, <2>3, <2>5
  <2>6. CASE j # index
    BY <1>2, <2>4, <2>6
  <2>. QED BY <2>5, <2>6
<1>. QED BY <1>2, <1>3, <1>4
\* Replacing an artifact keeps to the journal: at the last one everything is as
\* recorded.
LEMMA ForwardPreserves ==
    ASSUME IInv, RollForward \/ \E copied \in BOOLEAN : RollForwardFails(copied)
    PROVE  IInv'
<1> USE Ranges
<1>1. /\ pc = "forward" /\ journal # "none"
      /\ UNCHANGED <<directory, staged, backup, journal, entries, receipt, repairable, mine, crashes>>
  BY DEF RollForward, RollForwardFails, files, IInv, ControlInv
<1>2. JournalInv'
  BY <1>1 DEF IInv, JournalInv
<1>3. NoTornRepair'
  BY <1>1 DEF NoTornRepair
<1>4. /\ target' \in [Artifacts -> Content]
      /\ \A i \in TableSet : receipt[i] # Nothing /\ ~receipt[i].repaired =>
             \A j \in Artifacts : /\ receipt[i].generation <= target'[j].generation
                                  /\ repairable => receipt[i].generation < target'[j].generation
  <2>1. CASE target' = [target EXCEPT ![index] = entries[index]]
    BY <1>1, <2>1, ForwardFacts
  <2>2. CASE target' = target
    BY <2>2, Types DEF IInv, ReceiptInv
  <2>. QED BY <2>1, <2>2 DEF RollForward, RollForwardFails
<1>5. ReceiptInv'
  BY <1>1, <1>4 DEF IInv, ReceiptInv
<1>6. CASE RollForward
  <2>1. /\ target' = [target EXCEPT ![index] = entries[index]] /\ then' = then
        /\ IF index < Last THEN index' = index + 1 /\ pc' = pc
                           ELSE index' = 1 /\ pc' = "committed"
    BY <1>6 DEF RollForward
  <2>2. index \in Artifacts /\ \A i \in Artifacts : i <= index => Same(target'[i], entries[i])
    BY <1>1, <2>1, ForwardFacts
  <2>3. index' \in Artifacts /\ pc' \in {"forward", "committed"}
    BY <1>1, <2>1, <2>2
  <2>4. TypeOK'
    BY <1>1, <1>4, <2>1, <2>3 DEF IInv, TypeOK
  <2>5. ControlInv' /\ StagedInv'
    BY <1>1, <2>3 DEF ControlInv, StagedInv
  <2>6. ProgressInv'
    <3>1. CASE index < Last
      <4>1. \A i \in Artifacts : i < index + 1 => i <= index
        BY <2>2
      <4>. QED BY <1>1, <2>1, <2>2, <3>1, <4>1 DEF ProgressInv, Same
    <3>2. CASE ~(index < Last)
      <4>1. \A i \in Artifacts : i <= index
        BY <2>2, <3>2
      <4>2. \A i \in Artifacts : Same(target'[i], entries[i])
        BY <2>2, <4>1
      <4>3. \A i \in Artifacts : entries[i].repaired \in BOOLEAN
        BY <1>1, FieldUpdates DEF IInv, JournalInv
      <4>4. \A i, j \in Artifacts : /\ entries[i].repaired = TRUE
                                   /\ entries[i].generation = entries[j].generation
        BY <1>1, <4>3 DEF IInv, JournalInv
      <4>5. \A i, j \in Artifacts : target'[i].repaired /\ Same(target'[i], target'[j])
        BY <4>2, <4>4 DEF Same
      <4>. QED BY <2>1, <3>2, <4>5 DEF ProgressInv, Same
    <3>. QED BY <3>1, <3>2
  <2>. QED BY <1>2, <1>3, <1>5, <2>4, <2>5, <2>6 DEF IInv
<1>7. CASE \E copied \in BOOLEAN : RollForwardFails(copied)
  <2>1. \/ pc' = "rollback" /\ index' = Last /\ then' = "down"
        \/ pc' = "down" /\ index' = 1 /\ then' = then
    BY <1>7 DEF RollForwardFails
  <2>2. TypeOK'
    BY <1>1, <1>4, <2>1 DEF IInv, TypeOK
  <2>3. ControlInv' /\ StagedInv'
    BY <1>1, <2>1 DEF ControlInv, StagedInv
  <2>4. ProgressInv'
    <3>1. \A i \in Artifacts : ~(i > Last)
      OBVIOUS
    <3>. QED BY <2>1, <3>1 DEF ProgressInv
  <2>. QED BY <1>2, <1>3, <1>5, <2>2, <2>3, <2>4 DEF IInv
<1>. QED BY <1>6, <1>7

\* Undoing a replacement ends with every artifact as it was backed up.
LEMMA RollbackPreserves ==
    ASSUME IInv, Rollback
    PROVE  IInv'
<1> USE Ranges
<1>1. /\ pc = "rollback" /\ journal # "none" /\ then # "receipt" /\ backup[index] # Nothing
      /\ UNCHANGED <<directory, staged, backup, journal, entries, receipt, repairable, mine, then,
                      crashes>>
      /\ target' = [target EXCEPT ![index] = backup[index]]
      /\ IF index > 1 THEN index' = index - 1 /\ pc' = pc
                      ELSE index' = 1 /\ pc' = "cleanup"
  BY DEF Rollback, files, IInv, ControlInv
<1>2. /\ target' \in [Artifacts -> Content] /\ index \in Artifacts
      /\ target'[index] = backup[index] /\ backup[index] \in Content
      /\ \A i \in Artifacts : i # index => target'[i] = target[i]
  BY <1>1, Types DEF IInv
<1>3. index' \in Artifacts /\ pc' \in {"rollback", "cleanup"}
  BY <1>1, <1>2
<1>4. TypeOK'
  BY <1>1, <1>2, <1>3 DEF IInv, TypeOK
<1>5. ControlInv' /\ StagedInv' /\ NoTornRepair' /\ JournalInv'
  BY <1>1, <1>3 DEF IInv, ControlInv, StagedInv, NoTornRepair, JournalInv
<1>6. \A i \in Artifacts : i >= index => backup[i] # Nothing /\ Same(target'[i], backup[i])
  BY <1>1, <1>2 DEF IInv, ProgressInv, Same
<1>7. ProgressInv'
  <2>1. CASE index > 1
    <3>1. \A i \in Artifacts : i > index - 1 => i >= index
      BY <1>2
    <3>. QED BY <1>1, <1>6, <2>1, <3>1 DEF ProgressInv, Same
  <2>2. CASE ~(index > 1)
    <3>1. \A i \in Artifacts : i >= index
      BY <1>2, <2>2
    <3>2. \A i, j \in Artifacts : Same(target'[i], target'[j])
      BY <1>1, <1>6, <3>1 DEF IInv, JournalInv, Same
    <3>. QED BY <1>1, <2>2, <3>2 DEF ProgressInv, Same
  <2>. QED BY <2>1, <2>2
<1>8. ReceiptInv'
  <2> SUFFICES ASSUME NEW i \in TableSet, receipt[i] # Nothing, ~receipt[i].repaired,
                      NEW j \in Artifacts
               PROVE  /\ receipt[i].generation <= target'[j].generation
                      /\ repairable => receipt[i].generation < target'[j].generation
                      /\ receipt[i].generation < entries[j].generation
                      /\ backup[j] # Nothing => receipt[i].generation < backup[j].generation
    BY <1>1 DEF ReceiptInv
  <2>1. /\ receipt[i].generation <= target[j].generation
        /\ repairable => receipt[i].generation < target[j].generation
        /\ receipt[i].generation < entries[j].generation
        /\ backup[j] # Nothing => receipt[i].generation < backup[j].generation
    BY <1>1 DEF IInv, ReceiptInv
  <2>2. receipt[i].generation \in Nat /\ backup[index].generation \in Nat
    <3>1. backup[index].generation \in Nat
      BY <1>2, FieldUpdates
    <3>. QED BY <3>1, Types DEF IInv
  <2>3. CASE j = index
    BY <1>1, <1>2, <2>1, <2>2, <2>3
  <2>4. CASE j # index
    BY <1>2, <2>1, <2>4
  <2>. QED BY <2>3, <2>4
<1>. QED BY <1>4, <1>5, <1>7, <1>8 DEF IInv

\* The transaction directory is emptied, the journal after the files it names.
LEMMA CleanupPreserves ==
    ASSUME IInv, Cleanup \/ UnlinkJournal \/ Rmdir
    PROVE  IInv'
<1> USE Ranges
<1>1. UNCHANGED <<target, receipt, repairable, mine, then, crashes>>
  BY DEF Cleanup, UnlinkJournal, Rmdir
<1>2. CASE Cleanup
  <2>1. /\ pc = "cleanup" /\ pc' \in {"cleanup", "unlink"} /\ journal # "none"
        /\ UNCHANGED <<directory, journal, entries>>
    BY <1>2 DEF Cleanup, IInv, ControlInv
  <2>2. /\ staged' \in [Artifacts -> Content \cup {Nothing}]
        /\ backup' \in [Artifacts -> Content \cup {Nothing}]
        /\ \A i \in Artifacts : backup'[i] # Nothing => backup'[i] = backup[i]
    BY <1>2, Types DEF Cleanup, IInv
  <2>3. index' \in Artifacts
    BY <1>2, Types DEF Cleanup, IInv
  <2>4. TypeOK'
    BY <1>1, <2>1, <2>2, <2>3 DEF IInv, TypeOK
  <2>5. ControlInv' /\ StagedInv' /\ NoTornRepair'
    BY <2>1 DEF ControlInv, StagedInv, NoTornRepair
  <2>6. JournalInv'
    BY <2>1, <2>2 DEF IInv, JournalInv, Same
  <2>7. ProgressInv'
    BY <1>1, <2>1 DEF IInv, ProgressInv
  <2>8. ReceiptInv'
    BY <1>1, <2>1, <2>2 DEF IInv, ReceiptInv
  <2>. QED BY <2>4, <2>5, <2>6, <2>7, <2>8 DEF IInv
<1>3. CASE UnlinkJournal
  <2>1. /\ pc = "unlink" /\ pc' = "rmdir" /\ journal' = "none" /\ entries' = NoFiles
        /\ UNCHANGED <<directory, staged, backup, index>>
    BY <1>3 DEF UnlinkJournal
  <2>2. TypeOK'
    <3>1. NoFiles \in [Artifacts -> Content \cup {Nothing}]
      BY DEF NoFiles
    <3>. QED BY <1>1, <2>1, <3>1 DEF IInv, TypeOK
  <2>3. ControlInv' /\ StagedInv' /\ JournalInv'
    BY <2>1 DEF ControlInv, StagedInv, JournalInv
  <2>4. ProgressInv' /\ NoTornRepair'
    BY <1>1, <2>1 DEF IInv, ProgressInv, NoTornRepair, Same
  <2>5. ReceiptInv'
    BY <1>1, <2>1 DEF IInv, ReceiptInv
  <2>. QED BY <2>2, <2>3, <2>4, <2>5 DEF IInv
<1>4. CASE Rmdir
  <2>1. /\ pc = "rmdir" /\ pc' = then /\ journal = "none" /\ directory' = FALSE
        /\ UNCHANGED <<staged, backup, journal, entries, index>>
        /\ then \in {"down", "recover", "receipt"}
    BY <1>4 DEF Rmdir, IInv, ControlInv, TypeOK
  <2>2. TypeOK'
    BY <1>1, <2>1 DEF IInv, TypeOK
  <2>3. ControlInv' /\ StagedInv' /\ JournalInv'
    BY <1>1, <2>1 DEF ControlInv, StagedInv, JournalInv
  <2>4. ProgressInv' /\ NoTornRepair'
    BY <1>1, <2>1 DEF IInv, ProgressInv, NoTornRepair
  <2>5. ReceiptInv'
    BY <1>1, <2>1 DEF IInv, ReceiptInv
  <2>. QED BY <2>2, <2>3, <2>4, <2>5 DEF IInv
<1>. QED BY <1>2, <1>3, <1>4

\* Another region's entry changes nothing that the invariant speaks of.
LEMMA OtherRegionPreserves ==
    ASSUME IInv, NEW k \in 1..Shared, OtherRegion(k)
    PROVE  IInv'
<1> USE Ranges
<1>1. UNCHANGED <<directory, staged, backup, journal, entries, receipt, repairable, pc, index, mine,
                  then, crashes>>
  BY DEF OtherRegion, files
<1>2. target \in [Artifacts -> Content] /\ target[k] \in Content
  BY Types DEF IInv
<1>3. [target[k] EXCEPT !.others = @ + 1] \in Content
  BY <1>2, FieldUpdates DEF OtherRegion
<1>4. target' = [target EXCEPT ![k] = [target[k] EXCEPT !.others = @ + 1]]
  BY <1>2 DEF OtherRegion
<1>5. target' \in [Artifacts -> Content]
  BY <1>2, <1>3, <1>4
<1>6. ASSUME NEW i \in Artifacts
      PROVE  target'[i].repaired = target[i].repaired /\ target'[i].generation = target[i].generation
  <2>1. CASE i = k
    BY <1>2, <1>4, <2>1, FieldUpdates
  <2>2. CASE i # k
    BY <1>2, <1>4, <2>2
  <2>. QED BY <2>1, <2>2
<1>7. TypeOK'
  BY <1>1, <1>5 DEF IInv, TypeOK
<1>8. ControlInv' /\ JournalInv'
  BY <1>1 DEF IInv, ControlInv, JournalInv
<1>9. StagedInv' /\ NoTornRepair' /\ ReceiptInv'
  BY <1>1, <1>6 DEF IInv, StagedInv, NoTornRepair, ReceiptInv
<1>10. ProgressInv'
  BY <1>1, <1>6 DEF IInv, ProgressInv, Same
<1>. QED BY <1>7, <1>8, <1>9, <1>10 DEF IInv

\* The region is processed again: everything is damaged, or not, and a generation
\* younger than any receipt.
LEMMA ReprocessPreserves ==
    ASSUME IInv, NEW r \in BOOLEAN, Reprocess(r)
    PROVE  IInv'
<1> USE Ranges
<1>1. /\ pc = "down" /\ repairable' = r
      /\ UNCHANGED <<directory, staged, backup, journal, entries, receipt, pc, index, mine, then,
                      crashes>>
  BY Zenon DEF Reprocess, files
<1>2. target \in [Artifacts -> Content] /\ target[Last].generation \in 0..MaxGeneration
  <2>1. target \in [Artifacts -> Content] /\ target[Last] \in Content
    BY Types DEF IInv
  <2>. QED BY <2>1, FieldUpdates
<1>3. target[Last].generation < MaxGeneration
  BY Zenon DEF Reprocess
<1>4. PICK h \in 0..MaxGeneration : h = target[Last].generation + 1
  BY <1>2, <1>3, ConstantsAssumption
<1>5. target' = [i \in Artifacts |-> [target[i] EXCEPT !.repaired = FALSE, !.generation = h]]
  BY <1>4, Zenon DEF Reprocess
<1>6. ASSUME NEW i \in Artifacts
      PROVE  target'[i] \in Content /\ ~target'[i].repaired /\ target'[i].generation = h
  <2>1. target'[i] = [target[i] EXCEPT !.repaired = FALSE, !.generation = h]
    BY <1>5, Zenon
  <2>2. target[i] \in Content
    BY <1>2
  <2>3. /\ [target[i] EXCEPT !.repaired = FALSE, !.generation = h] \in Content
        /\ ~[target[i] EXCEPT !.repaired = FALSE, !.generation = h].repaired
        /\ [target[i] EXCEPT !.repaired = FALSE, !.generation = h].generation = h
    BY <1>4, <2>2, ReprocessedContent, Zenon
  <2>. QED BY <2>1, <2>3, Zenon
<1>7. target' \in [Artifacts -> Content]
  <2>1. target' = [i \in Artifacts |-> target'[i]]
    BY <1>5, Zenon
  <2>. QED BY <1>6, <2>1
<1>8. TypeOK'
  BY <1>1, <1>7 DEF IInv, TypeOK
<1>9. ControlInv' /\ StagedInv' /\ JournalInv' /\ ProgressInv'
  BY <1>1 DEF IInv, ControlInv, StagedInv, JournalInv, ProgressInv
<1>10. NoTornRepair'
  <2>1. \A i \in Artifacts : target'[i].repaired \in BOOLEAN
    BY <1>6, FieldUpdates
  <2>. QED BY <1>6, <2>1 DEF NoTornRepair
<1>11. ReceiptInv'
  <2>1. \A i \in TableSet : receipt[i] # Nothing /\ ~receipt[i].repaired => receipt[i].generation < h
    <3>1. \A i \in TableSet : receipt[i] # Nothing => receipt[i].generation \in Nat
      BY Types DEF IInv
    <3>. QED BY <1>2, <1>4, <3>1 DEF IInv, ReceiptInv
  <2>2. \A i \in TableSet : receipt[i] # Nothing => receipt[i].generation \in Nat
    BY Types DEF IInv
  <2>. QED BY <1>1, <1>4, <1>6, <2>1, <2>2 DEF IInv, ReceiptInv
<1>. QED BY <1>8, <1>9, <1>10, <1>11 DEF IInv

\* Every step preserves the invariant.
LEMMA NextIInv == IInv /\ [Next]_vars => IInv'
<1> SUFFICES ASSUME IInv, [Next]_vars PROVE IInv'
  OBVIOUS
<1>1. CASE UNCHANGED vars
  <2>1. UNCHANGED <<target, directory, staged, backup, journal, entries, receipt, repairable, pc,
                    index, mine, then, crashes>>
    BY <1>1 DEF vars, files
  <2>2. TypeOK' /\ ControlInv' /\ StagedInv' /\ JournalInv'
    BY <2>1 DEF IInv, TypeOK, ControlInv, StagedInv, JournalInv
  <2>3. ProgressInv' /\ NoTornRepair' /\ ReceiptInv'
    BY <2>1 DEF IInv, ProgressInv, NoTornRepair, ReceiptInv
  <2>. QED BY <2>2, <2>3 DEF IInv
<1>2. CASE Next
  <2>1. CASE \E b \in BOOLEAN : Begin(b) \/ Reprocess(b)
    BY <2>1, MovingPreserves, ReprocessPreserves, Zenon
  <2>2. CASE Step
    BY <2>2, MovingPreserves, ReceiptPreserves, StagingPreserves, JournalPreserves, ForwardPreserves,
       RollbackPreserves, CleanupPreserves, Zenon DEF Step
  <2>3. CASE Raise \/ Crash \/ \E i \in 1..Shared : OtherRegion(i)
    BY <2>3, MovingPreserves, ForwardPreserves, OtherRegionPreserves, Zenon DEF Raise
  <2>. QED BY <1>2, <2>1, <2>2, <2>3, Zenon DEF Next
<1>. QED BY <1>1, <1>2

------------------------------------------------------------------------------
(* Theorems *)

\* The invariant holds in every state of every behaviour of repairs, crashes and
\* reprocessing.
THEOREM Invariance == Spec => []IInv
<1>. QED BY InitIInv, NextIInv, PTL DEF Spec

\* Every variable keeps its type, and a journal lies in its transaction directory
\* (commit_replacements, _cleanup).
THEOREM TypeCorrect == Spec => []TypeOK
<1>1. IInv => TypeOK
  BY DEF IInv
<1>. QED BY <1>1, Invariance, PTL

\* For any number of tables and manifests, any number of crashes in any phase and
\* of other regions' updates at any time: unless a journal says that a repair is
\* under way, tables and manifests tell the same story (commit_replacements,
\* _commit_or_rollback, recover_interrupted_transactions).
THEOREM RepairIsAtomic == Spec => []NoTornRepair
<1>1. IInv => NoTornRepair
  BY DEF IInv
<1>. QED BY <1>1, Invariance, PTL

\* A receipt that matches the tables spares them the audit, and does so only for
\* tables with nothing left to repair: also after the region has been processed
\* again under an open journal, and an older generation was rolled back into place
\* (record_region_recovery_receipt, reuse_receipt).
THEOREM ReceiptsAreTrustworthy == Spec => []ReceiptMeansHealthy
<1>1. IInv => ReceiptMeansHealthy
  <2> SUFFICES ASSUME IInv, receipt = TablesNow, repairable, NEW i \in TableSet
               PROVE  target[i].repaired
    BY DEF ReceiptMeansHealthy
  <2>1. i \in Artifacts /\ receipt[i] = target[i] /\ target[i] # Nothing /\ target[i].generation \in Nat
    BY Types, Ranges DEF IInv, TablesNow
  <2>2. ~(receipt[i].generation < target[i].generation)
    BY <2>1
  <2>. QED BY <2>1, <2>2 DEF IInv, ReceiptInv
<1>. QED BY <1>1, Invariance, PTL
==============================================================================
