------------------------- MODULE LinkMigrationProofs -------------------------
(***************************************************************************)
(* Proofs about LinkMigration, for every number of tables and manifests    *)
(* and every bound: the types, that the shared manifests never run ahead   *)
(* of the tables, that a half migrated region has its journal, and that no *)
(* replacement or rollback undoes what other regions had recorded when the *)
(* run read a manifest.                                                    *)
(***************************************************************************)
EXTENDS LinkMigration, TLAPS

------------------------------------------------------------------------------
(* The inductive invariant *)

\* Staged in this run from the artifact as it was, which has since only grown.
Fresh(i) ==
    /\ staged[i] \in Content /\ staged[i].mine
    /\ staged[i].others = seen[i] /\ seen[i] <= target[i].others

\* The journal's entry for an artifact, and its backup: the artifact before it was
\* migrated, with everything this run saw in it.
Recorded(i) == entries[i] \in Content /\ entries[i].mine
BackedUp(i) == backup[i] \in Content /\ ~backup[i].mine /\ seen[i] <= backup[i].others

\* What a run has staged, up to the artifact that is replaced next.
StagedInv ==
    /\ pc = "stage" => \A i \in Artifacts : i < index => Fresh(i)
    /\ pc \in {"commit", "backup", "journal"} => \A i \in Artifacts : Fresh(i)
    /\ pc \in {"apply", "recover"} => \A i \in Artifacts : index <= i => staged[i].others = seen[i]
    /\ pc \in {"commit", "journal"} => index = 0

\* The journal and the backups it is written over.
JournalInv ==
    /\ journal => \A i \in Artifacts : Recorded(i)
    /\ pc \in {"backup", "journal"} => ~journal
    /\ pc = "backup" => \A i \in Artifacts : i < index => Recorded(i) /\ BackedUp(i)
    /\ pc = "journal" => \A i \in Artifacts : Recorded(i) /\ BackedUp(i)
    /\ pc = "apply" /\ index = 0 => \A i \in Artifacts : BackedUp(i)
    /\ pc = "rollback" => \A i \in Artifacts : i <= index => BackedUp(i)

\* The migrated artifacts are always the first ones, and none before the journal.
Prefix == \A i, j \in Artifacts : j < i /\ target[i].mine => target[j].mine

OrderInv ==
    /\ Prefix
    /\ pc \in {"stage", "commit", "backup", "journal"} => \A i \in Artifacts : ~target[i].mine
    /\ pc = "apply" /\ index = 0 => \A i \in Artifacts : ~target[i].mine
    /\ pc \in {"apply", "recover"} => \A i \in Artifacts : i < index => target[i].mine
    /\ pc = "rollback" => \A i \in Artifacts : 0 < i => ~target[i].mine
    /\ pc = "rolledBack" => ~target[0].mine
    /\ pc = "cleanup" => \A i \in Artifacts : target[i].mine

IInv == TypeOK /\ StagedInv /\ JournalInv /\ OrderInv /\ HalfMigratedHasJournal

------------------------------------------------------------------------------
(* Lemmas *)

\* Artifacts are numbers, the link table the first of them and the shared
\* manifests after the tables; no file is not a content.
LEMMA Ranges ==
    /\ 0 \in Artifacts /\ Last \in Artifacts /\ Shared \subseteq Artifacts /\ Artifacts \subseteq Nat
    /\ \A i \in Artifacts : i <= Last
    /\ \A i \in Artifacts : i < Last => i + 1 \in Artifacts
    /\ \A i \in Artifacts : ~(i < Last) => i = Last
    /\ \A i \in Artifacts : i > 0 => i - 1 \in Artifacts
    /\ \A i \in Shared : \A t \in 0..Tables : t \in Artifacts /\ t < i
    /\ \A i \in Shared : i # 0
    /\ Nothing \notin Content
  BY ConstantsAssumption DEF Artifacts, Content, Nothing, Last, Shared

\* Changing one field of a content.
LEMMA FieldUpdates ==
    ASSUME NEW c \in Content
    PROVE  /\ c.generation \in 0..MaxGeneration /\ c.mine \in BOOLEAN /\ c.others \in 0..MaxOthers
           /\ \A m \in BOOLEAN : /\ [c EXCEPT !.mine = m] \in Content
                                 /\ [c EXCEPT !.mine = m].mine = m
           /\ \A g \in 0..MaxGeneration : /\ [c EXCEPT !.generation = g] \in Content
                                          /\ [c EXCEPT !.generation = g].generation = g
                                          /\ [c EXCEPT !.generation = g].mine = c.mine
           /\ c.others < MaxOthers => [c EXCEPT !.others = @ + 1] \in Content
           /\ [c EXCEPT !.others = @ + 1].mine = c.mine
           /\ [c EXCEPT !.others = @ + 1].generation = c.generation
           /\ [c EXCEPT !.others = @ + 1].others = c.others + 1
  BY ConstantsAssumption DEF Content

\* This region's part of a content is replaced: by its migration, or because the
\* region is processed again.
LEMMA ContentUpdates ==
    ASSUME NEW c \in Content, NEW g \in 0..MaxGeneration, NEW m \in BOOLEAN
    PROVE  /\ [c EXCEPT !.mine = m, !.generation = g] \in Content
           /\ [c EXCEPT !.mine = m, !.generation = g].mine = m
           /\ [c EXCEPT !.mine = m, !.generation = g].others = c.others
<1>1. \A d \in Content : /\ [d EXCEPT !.generation = g] \in Content
                        /\ [d EXCEPT !.generation = g].others = d.others
                        /\ [d EXCEPT !.generation = g].mine = d.mine
  BY DEF Content
<1>2. /\ [c EXCEPT !.mine = m] \in Content /\ [c EXCEPT !.mine = m].mine = m
      /\ [c EXCEPT !.mine = m].others = c.others
  BY DEF Content
<1>. QED BY <1>1, <1>2, Zenon

\* _apply_single and _recover_entry put the recorded artifact in its place and
\* touch no other one; what was not in its place yet comes from this run's staging.
LEMMA InstallFacts ==
    ASSUME IInv, pc \in {"apply", "recover"}, Install
    PROVE  /\ index \in Artifacts
           /\ target' \in [Artifacts -> Content]
           /\ target'[index].mine
           /\ \A i \in Artifacts : i # index => target'[i] = target[i]
           /\ staged' \in [Artifacts -> Content \cup {Nothing}]
           /\ \A i \in Artifacts : i # index => staged'[i] = staged[i]
           /\ target'[index] = target[index] \/ target'[index].others = seen[index]
<1>1. journal /\ index \in Artifacts /\ entries[index] \in Content /\ entries[index].mine
  BY Ranges DEF IInv, TypeOK, JournalInv, Recorded
<1>2. staged[index].others = seen[index]
  BY <1>1, Ranges DEF IInv, StagedInv
<1>3. /\ target' = [target EXCEPT ![index] = entries[index]]
      /\ target \in [Artifacts -> Content] /\ staged \in [Artifacts -> Content \cup {Nothing}]
  BY DEF Install, IInv, TypeOK
<1>4. /\ target' \in [Artifacts -> Content] /\ target'[index] = entries[index]
      /\ \A i \in Artifacts : i # index => target'[i] = target[i]
  BY <1>1, <1>3
<1>5. /\ staged' \in [Artifacts -> Content \cup {Nothing}]
      /\ \A i \in Artifacts : i # index => staged'[i] = staged[i]
  BY <1>1, <1>3 DEF Install
<1>6. target'[index] = target[index] \/ target'[index].others = seen[index]
  BY <1>2, <1>4 DEF Install
<1>. QED BY <1>1, <1>4, <1>5, <1>6

------------------------------------------------------------------------------
(* The invariant holds *)

LEMMA InitIInv == Init => IInv
<1> SUFFICES ASSUME Init PROVE IInv
  OBVIOUS
<1>1. [generation |-> 0, mine |-> FALSE, others |-> 0] \in Content
  BY ConstantsAssumption DEF Content
<1>2. TypeOK
  BY <1>1, Ranges, ConstantsAssumption DEF Init, TypeOK
<1>3. StagedInv /\ JournalInv
  BY DEF Init, StagedInv, JournalInv
<1>4. OrderInv /\ HalfMigratedHasJournal
  BY Ranges DEF Init, OrderInv, Prefix, HalfMigratedHasJournal
<1>. QED BY <1>2, <1>3, <1>4 DEF IInv

\* A region whose link table is the old one has no migrated artifact at all.
LEMMA PlanPreserves == ASSUME IInv, Plan PROVE IInv'
<1> USE Ranges
<1>1. target \in [Artifacts -> Content] /\ UNCHANGED <<target, staged, journal, entries, backup>>
  BY DEF IInv, TypeOK, Plan
<1>2. \A i \in Artifacts : target[i].others \in 0..MaxOthers
  BY <1>1, FieldUpdates
<1>3. seen' \in [Artifacts -> 0..MaxOthers]
  BY <1>2 DEF Plan
<1>4. TypeOK'
  BY <1>3 DEF IInv, TypeOK, Plan
<1>5. \A i \in Artifacts : ~target[i].mine
  BY <1>1 DEF IInv, OrderInv, Prefix, Plan
<1>6. StagedInv' /\ HalfMigratedHasJournal'
  BY <1>1, <1>5 DEF IInv, StagedInv, Plan, HalfMigratedHasJournal
<1>7. JournalInv'
  BY <1>1 DEF IInv, JournalInv, Recorded, Plan
<1>8. OrderInv'
  BY <1>1, <1>5 DEF IInv, OrderInv, Prefix, Plan
<1>. QED BY <1>4, <1>6, <1>7, <1>8 DEF IInv

\* Staging writes nothing but staged files.
LEMMA StagePreserves == ASSUME IInv, Stage PROVE IInv'
<1> USE Ranges
<1>0. /\ index \in Artifacts /\ target[index] \in Content
      /\ target[0].generation \in 0..MaxGeneration /\ target[index].others \in 0..MaxOthers
      /\ UNCHANGED <<target, journal, entries, backup, crashes>> /\ pc = "stage"
  BY FieldUpdates DEF IInv, TypeOK, Stage
<1>1. /\ Migrated(index) \in Content /\ Migrated(index).mine
      /\ Migrated(index).others = target[index].others
  BY <1>0, ContentUpdates, Zenon DEF Migrated
<1>2. /\ staged' \in [Artifacts -> Content \cup {Nothing}]
      /\ staged'[index] = Migrated(index)
      /\ \A i \in Artifacts : i # index => staged'[i] = staged[i]
  BY <1>0, <1>1 DEF IInv, TypeOK, Stage
<1>3. /\ seen' \in [Artifacts -> 0..MaxOthers] /\ seen'[index] = target[index].others
      /\ \A i \in Artifacts : i # index => seen'[i] = seen[i]
  BY <1>0 DEF IInv, TypeOK, Stage
<1>4. TypeOK'
  BY <1>0, <1>2, <1>3 DEF IInv, TypeOK, Stage, NextArtifact
<1>5. ASSUME NEW i \in Artifacts, i <= index PROVE Fresh(i)'
  <2>1. CASE i = index
    BY <1>0, <1>1, <1>2, <1>3, <2>1, ConstantsAssumption DEF Fresh
  <2>2. CASE i # index
    <3>0. i < index
      BY <1>0, <1>5, <2>2
    <3>1. Fresh(i)
      BY <1>0, <3>0 DEF IInv, StagedInv
    <3>. QED BY <1>0, <1>2, <1>3, <2>2, <3>1 DEF Fresh
  <2>. QED BY <2>1, <2>2
<1>6. StagedInv'
  <2>1. CASE index < Last
    <3>1. pc' = "stage" /\ index' = index + 1
      BY <1>0, <2>1 DEF Stage, NextArtifact
    <3>2. \A i \in Artifacts : i < index' => i <= index
      BY <1>0, <3>1
    <3>. QED BY <1>5, <3>1, <3>2 DEF StagedInv
  <2>2. CASE ~(index < Last)
    <3>1. pc' = "commit" /\ index' = 0 /\ \A i \in Artifacts : i <= index
      BY <1>0, <2>2 DEF Stage, NextArtifact
    <3>. QED BY <1>5, <3>1 DEF StagedInv
  <2>. QED BY <2>1, <2>2
<1>7. pc' \in {"stage", "commit"}
  BY <1>0 DEF Stage, NextArtifact
<1>8. JournalInv'
  BY <1>0, <1>7 DEF IInv, JournalInv, Recorded
<1>9. OrderInv' /\ HalfMigratedHasJournal'
  BY <1>0, <1>7 DEF IInv, OrderInv, Prefix, HalfMigratedHasJournal
<1>. QED BY <1>4, <1>6, <1>8, <1>9 DEF IInv

\* Finding an old journal, or none, and writing a new one.
LEMMA JournalPreserves == ASSUME IInv, FindJournal \/ NoJournal \/ WriteJournal PROVE IInv'
<1> USE Ranges
<1>0. UNCHANGED <<target, staged, entries, backup, index, crashes, seen>>
  BY DEF FindJournal, NoJournal, WriteJournal
<1>1. TypeOK'
  BY <1>0 DEF IInv, TypeOK, FindJournal, NoJournal, WriteJournal
<1>2. StagedInv'
  BY <1>0 DEF IInv, StagedInv, Fresh, FindJournal, NoJournal, WriteJournal
<1>3. JournalInv'
  BY <1>0 DEF IInv, StagedInv, JournalInv, Recorded, BackedUp, FindJournal, NoJournal, WriteJournal
<1>4. OrderInv' /\ HalfMigratedHasJournal'
  BY <1>0 DEF IInv, StagedInv, OrderInv, Prefix, HalfMigratedHasJournal, FindJournal, NoJournal,
     WriteJournal
<1>. QED BY <1>1, <1>2, <1>3, <1>4 DEF IInv

\* A backup is a copy of an artifact that is not migrated yet.
LEMMA BackUpPreserves == ASSUME IInv, BackUp PROVE IInv'
<1> USE Ranges
<1>0. /\ pc = "backup" /\ ~journal /\ index \in Artifacts
      /\ UNCHANGED <<target, staged, journal, crashes, seen>>
      /\ target[index] \in Content /\ ~target[index].mine /\ Fresh(index)
  BY DEF IInv, TypeOK, StagedInv, JournalInv, OrderInv, BackUp
<1>1. /\ backup' \in [Artifacts -> Content \cup {Nothing}]
      /\ backup'[index] = target[index]
      /\ \A i \in Artifacts : i # index => backup'[i] = backup[i]
  BY <1>0 DEF IInv, TypeOK, BackUp
<1>2. /\ entries' \in [Artifacts -> Content \cup {Nothing}]
      /\ entries'[index] = staged[index]
      /\ \A i \in Artifacts : i # index => entries'[i] = entries[i]
  BY <1>0 DEF IInv, TypeOK, BackUp
<1>3. pc' \in {"backup", "journal"} /\ index' \in Artifacts
  BY <1>0 DEF BackUp, NextArtifact
<1>4. TypeOK'
  BY <1>0, <1>1, <1>2, <1>3 DEF IInv, TypeOK
<1>5. ASSUME NEW i \in Artifacts, i <= index PROVE (Recorded(i) /\ BackedUp(i))'
  <2>1. CASE i = index
    BY <1>0, <1>1, <1>2, <2>1 DEF Fresh, Recorded, BackedUp
  <2>2. CASE i # index
    <3>1. Recorded(i) /\ BackedUp(i)
      BY <1>0, <1>5, <2>2 DEF IInv, JournalInv
    <3>. QED BY <1>0, <1>1, <1>2, <2>2, <3>1 DEF Recorded, BackedUp
  <2>. QED BY <2>1, <2>2
<1>6. JournalInv'
  <2>1. CASE index < Last
    <3>1. pc' = "backup" /\ index' = index + 1
      BY <1>0, <2>1 DEF BackUp, NextArtifact
    <3>2. \A i \in Artifacts : i < index' => i <= index
      BY <1>0, <3>1
    <3>. QED BY <1>0, <1>5, <3>1, <3>2 DEF JournalInv
  <2>2. CASE ~(index < Last)
    <3>1. pc' = "journal" /\ index' = 0 /\ \A i \in Artifacts : i <= index
      BY <1>0, <2>2 DEF BackUp, NextArtifact
    <3>. QED BY <1>0, <1>5, <3>1 DEF JournalInv
  <2>. QED BY <2>1, <2>2
<1>7. StagedInv'
  <2>1. \A i \in Artifacts : Fresh(i)'
    BY <1>0 DEF IInv, StagedInv, Fresh
  <2>2. pc' = "journal" => index' = 0
    BY <1>0 DEF BackUp, NextArtifact
  <2>. QED BY <1>3, <2>1, <2>2 DEF StagedInv
<1>8. OrderInv' /\ HalfMigratedHasJournal'
  BY <1>0, <1>3 DEF IInv, OrderInv, Prefix, HalfMigratedHasJournal
<1>. QED BY <1>4, <1>6, <1>7, <1>8 DEF IInv

\* An artifact put in its place by a commit or by a roll-forward: the artifacts
\* before it are in their places.
LEMMA InstallingPreserves == ASSUME IInv, Apply \/ Recover PROVE IInv'
<1> USE Ranges
<1>1. /\ pc \in {"apply", "recover"} /\ journal /\ Install /\ NextArtifact("cleanup")
      /\ UNCHANGED <<journal, entries, backup, crashes, seen>>
  BY DEF IInv, TypeOK, Apply, Recover
<1>2. /\ index \in Artifacts /\ target' \in [Artifacts -> Content] /\ target'[index].mine
      /\ staged' \in [Artifacts -> Content \cup {Nothing}]
      /\ \A i \in Artifacts : i # index => target'[i] = target[i] /\ staged'[i] = staged[i]
  BY <1>1, InstallFacts
<1>3. ASSUME NEW i \in Artifacts, i <= index PROVE target'[i].mine
  <2>1. i < index => target[i].mine
    BY <1>1 DEF IInv, OrderInv
  <2>2. i < index \/ i = index
    BY <1>2, <1>3
  <2>. QED BY <1>2, <2>1, <2>2
<1>4. TypeOK'
  BY <1>1, <1>2 DEF IInv, TypeOK, NextArtifact
<1>5. Prefix'
  BY <1>2, <1>3 DEF IInv, OrderInv, Prefix
<1>6. CASE index < Last
  <2>1. pc' = pc /\ index' = index + 1
    BY <1>1, <1>6 DEF NextArtifact
  <2>2. index' # 0 /\ \A i \in Artifacts : (i < index' => i <= index) /\ (index' <= i => index <= i /\ i # index)
    BY <1>2, <2>1
  <2>3. StagedInv'
    BY <1>1, <1>2, <2>1, <2>2 DEF IInv, StagedInv
  <2>4. JournalInv'
    BY <1>1, <2>1, <2>2 DEF IInv, JournalInv, Recorded
  <2>5. OrderInv' /\ HalfMigratedHasJournal'
    BY <1>1, <1>3, <1>5, <2>1, <2>2 DEF OrderInv, HalfMigratedHasJournal
  <2>. QED BY <1>4, <2>3, <2>4, <2>5 DEF IInv
<1>7. CASE ~(index < Last)
  <2>1. pc' = "cleanup" /\ index' = 0 /\ \A i \in Artifacts : i <= index
    BY <1>1, <1>2, <1>7 DEF NextArtifact
  <2>2. StagedInv' /\ JournalInv'
    BY <1>1, <2>1 DEF IInv, StagedInv, JournalInv, Recorded
  <2>3. OrderInv' /\ HalfMigratedHasJournal'
    BY <1>1, <1>3, <1>5, <2>1 DEF OrderInv, HalfMigratedHasJournal
  <2>. QED BY <1>4, <2>2, <2>3 DEF IInv
<1>. QED BY <1>6, <1>7

\* A failure in a commit or a roll-forward, whether the artifact at hand was
\* replaced or not: only the one at the first artifact is undone.
LEMMA FailingPreserves ==
    ASSUME IInv, RecoverFails \/ \E installed \in BOOLEAN : Fail(installed)
    PROVE  IInv'
<1> USE Ranges
<1>1. /\ pc \in {"apply", "recover"} /\ journal
      /\ UNCHANGED <<journal, entries, backup, crashes, seen>>
      /\ Install \/ UNCHANGED <<target, staged>>
  BY DEF IInv, TypeOK, RecoverFails, Fail
<1>2. \/ pc' = "down" /\ index' = 0
      \/ pc = "apply" /\ index = 0 /\ pc' = "rollback" /\ index' = Last
  BY DEF RecoverFails, Fail
<1>3. /\ index \in Artifacts /\ target' \in [Artifacts -> Content]
      /\ staged' \in [Artifacts -> Content \cup {Nothing}]
      /\ target'[index].mine \/ target' = target
      /\ \A i \in Artifacts : i # index => target'[i] = target[i]
  <2>1. CASE Install
    BY <1>1, <2>1, InstallFacts
  <2>2. CASE UNCHANGED <<target, staged>>
    BY <2>2 DEF IInv, TypeOK
  <2>. QED BY <1>1, <2>1, <2>2
<1>4. TypeOK'
  BY <1>1, <1>2, <1>3 DEF IInv, TypeOK
<1>5. StagedInv'
  BY <1>2 DEF StagedInv
<1>6. JournalInv'
  BY <1>1, <1>2 DEF IInv, JournalInv, Recorded, BackedUp
<1>7. Prefix'
  <2>1. \A i \in Artifacts : i < index => target'[i].mine
    BY <1>1, <1>3 DEF IInv, OrderInv
  <2>. QED BY <1>3, <2>1 DEF IInv, OrderInv, Prefix
<1>8. OrderInv' /\ HalfMigratedHasJournal'
  BY <1>1, <1>2, <1>3, <1>7 DEF IInv, OrderInv, HalfMigratedHasJournal
<1>. QED BY <1>4, <1>5, <1>6, <1>8 DEF IInv

\* The rollback restores the artifacts from the last to the link table.
LEMMA RollbackPreserves == ASSUME IInv, Rollback PROVE IInv'
<1> USE Ranges
<1>1. /\ pc = "rollback" /\ journal /\ index \in Artifacts
      /\ UNCHANGED <<staged, journal, entries, crashes, seen>>
      /\ backup[index] \in Content /\ ~backup[index].mine
  BY DEF IInv, TypeOK, JournalInv, BackedUp, Rollback
<1>2. /\ target' \in [Artifacts -> Content] /\ ~target'[index].mine
      /\ \A i \in Artifacts : i # index => target'[i] = target[i]
  BY <1>1 DEF IInv, TypeOK, Rollback
<1>3. /\ backup' \in [Artifacts -> Content \cup {Nothing}]
      /\ \A i \in Artifacts : i # index => backup'[i] = backup[i]
  BY <1>1 DEF IInv, TypeOK, Rollback
<1>4. \/ index > 0 /\ index' = index - 1 /\ pc' = "rollback"
      \/ index = 0 /\ index' = 0 /\ pc' = "rolledBack"
  BY <1>1 DEF Rollback
<1>5. TypeOK'
  BY <1>1, <1>2, <1>3, <1>4 DEF IInv, TypeOK
<1>6. StagedInv'
  BY <1>4 DEF StagedInv
<1>7. JournalInv'
  <2>1. ASSUME NEW i \in Artifacts, i <= index', pc' = "rollback" PROVE BackedUp(i)'
    <3>1. i # index /\ i <= index
      BY <1>1, <1>4, <2>1
    <3>2. BackedUp(i)
      BY <1>1, <3>1 DEF IInv, JournalInv
    <3>. QED BY <1>1, <1>3, <3>1, <3>2 DEF BackedUp
  <2>. QED BY <1>1, <1>4, <2>1 DEF IInv, JournalInv, Recorded
<1>8. \A i \in Artifacts : 0 < i => ~target'[i].mine
  BY <1>1, <1>2 DEF IInv, OrderInv
<1>9. OrderInv' /\ HalfMigratedHasJournal'
  BY <1>1, <1>2, <1>4, <1>8 DEF OrderInv, Prefix, HalfMigratedHasJournal
<1>. QED BY <1>5, <1>6, <1>7, <1>9 DEF IInv

\* The cleanup and a crash leave the artifacts alone.
LEMMA StoppingPreserves == ASSUME IInv, Cleanup \/ Rmtree \/ Crash PROVE IInv'
<1> USE Ranges
<1>1. /\ UNCHANGED <<target, seen>> /\ crashes' \in 0..MaxCrashes
      /\ pc' \in {"down", "rmtree"} /\ index' \in Artifacts
  BY ConstantsAssumption DEF IInv, TypeOK, Cleanup, Rmtree, Crash
<1>2. TypeOK'
  BY <1>1 DEF IInv, TypeOK, Cleanup, Rmtree, Crash
<1>3. StagedInv'
  BY <1>1 DEF StagedInv
<1>4. JournalInv'
  BY <1>1 DEF IInv, JournalInv, Recorded, Cleanup, Rmtree, Crash
<1>5. OrderInv'
  BY <1>1 DEF IInv, OrderInv, Prefix
<1>6. HalfMigratedHasJournal'
  BY <1>1 DEF IInv, OrderInv, HalfMigratedHasJournal, Cleanup, Rmtree, Crash
<1>. QED BY <1>2, <1>3, <1>4, <1>5, <1>6 DEF IInv

\* Another region's entry changes nothing of this region's, and only adds.
LEMMA OtherRegionPreserves == ASSUME IInv, NEW i \in Shared, OtherRegion(i) PROVE IInv'
<1> USE Ranges
<1>1. /\ target \in [Artifacts -> Content] /\ target[i] \in Content /\ i \in Artifacts
      /\ UNCHANGED <<staged, journal, entries, backup, pc, index, crashes, seen>>
  BY DEF IInv, TypeOK, OtherRegion
<1>2. /\ target'[i] = [target[i] EXCEPT !.others = @ + 1]
      /\ \A j \in Artifacts : j # i => target'[j] = target[j]
      /\ target' = [target EXCEPT ![i] = [target[i] EXCEPT !.others = @ + 1]]
  BY <1>1 DEF OtherRegion
<1>3. [target[i] EXCEPT !.others = @ + 1] \in Content
  BY <1>1, FieldUpdates DEF OtherRegion
<1>4. target' \in [Artifacts -> Content]
  BY <1>1, <1>2, <1>3
<1>5. /\ target'[i].mine = target[i].mine /\ target'[i].others = target[i].others + 1
      /\ target[i].others \in Nat
  BY <1>1, <1>2, FieldUpdates, ConstantsAssumption
<1>6. \A j \in Artifacts : target'[j].mine = target[j].mine
  BY <1>2, <1>5
<1>7. \A j \in Artifacts : seen[j] <= target[j].others => seen[j] <= target'[j].others
  <2>1. \A j \in Artifacts : seen[j] \in Nat
    BY <1>1, ConstantsAssumption DEF IInv, TypeOK
  <2>. QED BY <1>1, <1>2, <1>5, <2>1
<1>8. StagedInv'
  <2>1. \A j \in Artifacts : Fresh(j) => Fresh(j)'
    BY <1>1, <1>7 DEF Fresh
  <2>. QED BY <1>1, <2>1 DEF IInv, StagedInv
<1>9. TypeOK' /\ JournalInv'
  BY <1>1, <1>4 DEF IInv, TypeOK, JournalInv, Recorded, BackedUp
<1>10. OrderInv' /\ HalfMigratedHasJournal'
  BY <1>1, <1>6 DEF IInv, OrderInv, Prefix, HalfMigratedHasJournal
<1>. QED BY <1>8, <1>9, <1>10 DEF IInv

\* A region that is processed again starts over with legacy links everywhere.
LEMMA ReprocessPreserves == ASSUME IInv, Reprocess PROVE IInv'
<1> USE Ranges
<1>0. target \in [Artifacts -> Content] /\ target[0].generation \in 0..MaxGeneration
  BY FieldUpdates DEF IInv, TypeOK
<1>b. target[0].generation < MaxGeneration
  BY Zenon DEF Reprocess
<1>1. PICK h \in 0..MaxGeneration : h = target[0].generation + 1
  BY <1>0, <1>b, ConstantsAssumption
<1>2. target' = [i \in Artifacts |-> [target[i] EXCEPT !.mine = FALSE, !.generation = h]]
  BY <1>1, Zenon DEF Reprocess
<1>3. ASSUME NEW i \in Artifacts PROVE target'[i] \in Content /\ ~target'[i].mine
  <2>1. target[i] \in Content /\ target'[i] = [target[i] EXCEPT !.mine = FALSE, !.generation = h]
    BY <1>0, <1>2, Zenon
  <2>. QED BY <2>1, ContentUpdates, Zenon
<1>4. target' \in [Artifacts -> Content]
  <2>1. target' = [i \in Artifacts |-> target'[i]]
    BY Zenon DEF Reprocess
  <2>. QED BY <1>3, <2>1
<1>5. pc = "down" /\ UNCHANGED <<staged, journal, entries, backup, pc, index, crashes, seen>>
  BY Zenon DEF Reprocess
<1>6. TypeOK'
  BY <1>4, <1>5 DEF IInv, TypeOK
<1>7. StagedInv' /\ JournalInv'
  BY <1>5 DEF IInv, StagedInv, JournalInv, Recorded
<1>8. OrderInv' /\ HalfMigratedHasJournal'
  BY <1>3, <1>5 DEF OrderInv, Prefix, HalfMigratedHasJournal
<1>. QED BY <1>6, <1>7, <1>8 DEF IInv

\* Every step preserves the invariant.
LEMMA NextIInv == IInv /\ [Next]_vars => IInv'
<1> SUFFICES ASSUME IInv, [Next]_vars PROVE IInv'
  OBVIOUS
<1>1. CASE UNCHANGED vars
  <2>1. /\ UNCHANGED <<target, staged, journal, entries, backup, pc, index, crashes, seen>>
    BY <1>1 DEF vars
  <2>2. TypeOK' /\ StagedInv'
    BY <2>1 DEF IInv, TypeOK, StagedInv, Fresh
  <2>3. JournalInv' /\ OrderInv' /\ HalfMigratedHasJournal'
    BY <2>1 DEF IInv, JournalInv, Recorded, BackedUp, OrderInv, Prefix, HalfMigratedHasJournal
  <2>. QED BY <2>2, <2>3 DEF IInv
<1>2. CASE Next
  BY <1>2, PlanPreserves, StagePreserves, JournalPreserves, BackUpPreserves, InstallingPreserves,
     FailingPreserves, RollbackPreserves, StoppingPreserves, OtherRegionPreserves,
     ReprocessPreserves, Zenon DEF Next, Migrate
<1>. QED BY <1>1, <1>2

------------------------------------------------------------------------------
(* Theorems *)

\* The invariant holds in every state of every behaviour of the migration.
THEOREM Invariance == Spec => []IInv
<1>. QED BY InitIInv, NextIInv, PTL DEF Spec

\* Every variable keeps its type, and whatever crashes and fails, a replacement is
\* only ever in progress under a journal (commit_ordered_replacements writes the
\* journal first).
THEOREM TypeCorrect == Spec => []TypeOK
<1>1. IInv => TypeOK
  BY DEF IInv
<1>. QED BY <1>1, Invariance, PTL

\* For any number of tables, manifests, crashes, failures and other regions'
\* updates, also by an upload worker: no manifest ever names canonical links or
\* normalized tables that are not in place (the order of suffixes in
\* commit_ordered_replacements, and a rollback that takes the last entry first).
THEOREM ManifestsComeLast == Spec => []ManifestsLast
<1>1. IInv => ManifestsLast
  <2>1. \A i \in Shared : \A t \in 0..Tables : t \in Artifacts /\ t < i /\ i \in Artifacts
    BY Ranges
  <2>. QED BY <2>1 DEF IInv, OrderInv, Prefix, ManifestsLast
<1>. QED BY <1>1, Invariance, PTL

\* For any number of artifacts, crashes, half rollbacks, failed roll-forwards and
\* reprocessing: a region that is half migrated still has its journal
\* (_cleanup runs only after the last replacement or the last restored backup).
THEOREM HalfMigratedHaveJournals == Spec => []HalfMigratedHasJournal
<1>1. IInv => HalfMigratedHasJournal
  BY DEF IInv
<1>. QED BY <1>1, Invariance, PTL

\* No replacement, rollback or roll-forward takes a shared manifest back to before
\* the run at hand read it, also with a journal of an earlier run
\* (stage_stem_replacements stages anew before commit_ordered_replacements
\* compares the staged files with the journal).
THEOREM OnlyConcurrentUpdatesAreLost == Spec => OnlyConcurrentUpdatesLost
<1> USE Ranges
<1>1. ASSUME IInv, [Next]_vars, NEW i \in Shared, target'[i].others < target[i].others
      PROVE  target'[i].others >= seen[i]
  <2>0. i \in Artifacts /\ seen[i] \in Nat /\ target[i] \in Content /\ target[i].others \in Nat
    <3>1. i \in Artifacts /\ seen[i] \in 0..MaxOthers /\ target[i] \in Content
      BY <1>1 DEF IInv, TypeOK
    <3>2. target[i].others \in 0..MaxOthers
      BY <3>1, FieldUpdates
    <3>. QED BY <3>1, <3>2, ConstantsAssumption
  <2>1. ASSUME target'[i] = target[i] PROVE FALSE
    BY <1>1, <2>0, <2>1
  <2>2. CASE Install /\ pc \in {"apply", "recover"}
    <3>1. i = index
      BY <1>1, <2>0, <2>1, <2>2, InstallFacts
    <3>2. target'[index].others = seen[index]
      BY <1>1, <2>1, <2>2, <3>1, InstallFacts
    <3>. QED BY <2>0, <3>1, <3>2
  <2>3. CASE Rollback
    <3>1. i = index /\ target'[i] = backup[i]
      BY <1>1, <2>0, <2>1, <2>3 DEF IInv, TypeOK, Rollback
    <3>2. seen[i] <= backup[i].others /\ backup[i] \in Content
      BY <1>1, <2>0, <2>3, <3>1 DEF IInv, JournalInv, BackedUp, Rollback
    <3>3. backup[i].others \in 0..MaxOthers
      BY <3>2, FieldUpdates
    <3>. QED BY <2>0, <3>1, <3>2, <3>3, ConstantsAssumption
  <2>4. CASE Reprocess
    <3>1. target'[i] = [target[i] EXCEPT !.mine = FALSE, !.generation = target[0].generation + 1]
      BY <2>0, <2>4, Zenon DEF Reprocess
    <3>2. target'[i].others = target[i].others
      BY <2>0, <3>1 DEF Content
    <3>. QED BY <1>1, <2>0, <3>2
  <2>5. ASSUME NEW j \in Shared, OtherRegion(j) PROVE FALSE
    <3>1. target \in [Artifacts -> Content] /\ j \in Artifacts
      BY <1>1 DEF IInv, TypeOK
    <3>2. i = j /\ target'[i] = [target[i] EXCEPT !.others = @ + 1]
      BY <2>0, <2>1, <2>5, <3>1 DEF OtherRegion
    <3>3. target'[i].others = target[i].others + 1
      BY <2>0, <3>2, FieldUpdates
    <3>. QED BY <1>1, <2>0, <3>3
  <2>6. CASE target' = target
    BY <2>1, <2>6
  <2>7. \/ Install /\ pc \in {"apply", "recover"}
        \/ Rollback
        \/ Reprocess
        \/ \E j \in Shared : OtherRegion(j)
        \/ target' = target
    BY <1>1 DEF Next, Migrate, vars, Plan, Stage, FindJournal, NoJournal, BackUp, WriteJournal,
       Apply, Fail, Recover, RecoverFails, Cleanup, Rmtree, Crash
  <2>. QED BY <2>2, <2>3, <2>4, <2>5, <2>6, <2>7
<1>2. IInv /\ [Next]_vars =>
        [\A i \in Shared : target'[i].others < target[i].others => target'[i].others >= seen[i]]_vars
  BY <1>1
<1>. QED BY <1>2, Invariance, PTL DEF Spec, OnlyConcurrentUpdatesLost
==============================================================================
