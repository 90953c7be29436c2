---------------------------- MODULE LinkMigration ----------------------------
(***************************************************************************)
(* The journaled transaction that migrates one region's link table         *)
(* (pipeline/_link_migration): plan, stage every artifact, write a journal,*)
(* replace the tables first and the shared manifests after them, clean up. *)
(* A failure at the first replacement is rolled back, a later one leaves   *)
(* the journal for a roll-forward by the next run of the stem.             *)
(*                                                                         *)
(* Data abstraction: artifact 0 is the link table, 1..Tables are the       *)
(* Wikivoyage tables that lose rejected rows, and the rest, in the order   *)
(* they are replaced, are the manifests shared by all regions              *)
(* (augmentation, rejection ledger, pending publications, processed PBFs). *)
(* A content is what this region has in it ("mine": migrated tables, or an *)
(* entry for them), the generation of the link table that is about, and    *)
(* how many updates of other regions it includes.  Equal contents are      *)
(* equal hashes.                                                           *)
(***************************************************************************)
EXTENDS Naturals

CONSTANTS Tables,         \* number of Wikivoyage tables that are replaced
          Manifests,      \* number of shared manifests
          MaxGeneration,  \* bound: times the region is processed again
          MaxOthers,      \* bound: updates of one manifest by other regions
          MaxCrashes      \* bound: crashes

ASSUME ConstantsAssumption ==
    /\ Tables \in Nat
    /\ Manifests \in Nat \ {0}
    /\ MaxGeneration \in Nat /\ MaxOthers \in Nat /\ MaxCrashes \in Nat

Last      == Tables + Manifests
Artifacts == 0..Last
Shared    == (Tables + 1)..Last        \* the shared manifests
Content   == [generation : 0..MaxGeneration, mine : BOOLEAN, others : 0..MaxOthers]
Nothing   == [generation |-> 0, mine |-> FALSE, others |-> MaxOthers + 1]  \* no file

VARIABLES
    target,   \* disk: the artifacts
    staged,   \* disk: .link_migration_staging/<stem>
    journal,  \* disk: is there a journal
    entries,  \* disk: the staged hashes the journal records
    backup,   \* disk: copies of the artifacts taken before the journal
    pc,       \* the process: where it is
    index,    \* the process: the artifact at hand
    crashes,  \* crashes so far
    seen      \* history: the updates of others each artifact had when this run read it

vars == <<target, staged, journal, entries, backup, pc, index, crashes, seen>>

Init ==
    /\ target = [i \in Artifacts |-> [generation |-> 0, mine |-> FALSE, others |-> 0]]
    /\ staged = [i \in Artifacts |-> Nothing]
    /\ journal = FALSE
    /\ entries = [i \in Artifacts |-> Nothing]
    /\ backup = [i \in Artifacts |-> Nothing]
    /\ pc = "down" /\ index = 0
    /\ crashes = 0
    /\ seen = [i \in Artifacts |-> 0]

------------------------------------------------------------------------------
(* Planning and staging *)

\* Mutant: a journal that is there is rolled forward at once.
PlanRecoversFirst ==
    /\ pc = "down"
    /\ ~target[0].mine
    /\ pc' = IF journal THEN "recover" ELSE "stage"
    /\ index' = 0
    /\ seen' = [i \in Artifacts |-> target[i].others]
    /\ UNCHANGED <<target, staged, journal, entries, backup, crashes>>

\* classify_stem looks at the link table alone: legacy is migratable, canonical
\* needs nothing.
Plan ==
    /\ pc = "down"
    /\ ~target[0].mine
    /\ pc' = "stage" /\ index' = 0
    /\ seen' = [i \in Artifacts |-> target[i].others]
    /\ UNCHANGED <<target, staged, journal, entries, backup, crashes>>

\* The artifact with this region's part merged in: canonical links, or the entry
\* for them.
Migrated(i) == [target[i] EXCEPT !.mine = TRUE, !.generation = target[0].generation]

\* On to the next artifact, or past the last one to the next phase.
NextArtifact(phase) ==
    IF index < Last THEN index' = index + 1 /\ UNCHANGED pc
                    ELSE index' = 0 /\ pc' = phase

\* stage_stem_replacements, one artifact after the other.
Stage ==
    /\ pc = "stage"
    /\ staged' = [staged EXCEPT ![index] = Migrated(index)]
    /\ seen' = [seen EXCEPT ![index] = target[index].others]
    /\ NextArtifact("commit")
    /\ UNCHANGED <<target, journal, entries, backup, crashes>>

------------------------------------------------------------------------------
(* commit_ordered_replacements *)

\* An existing journal is rolled forward instead of the new replacements.
FindJournal ==
    /\ pc = "commit" /\ journal
    /\ pc' = "recover"
    /\ UNCHANGED <<target, staged, journal, entries, backup, index, crashes, seen>>

NoJournal ==
    /\ pc = "commit" /\ ~journal
    /\ pc' = "backup"
    /\ UNCHANGED <<target, staged, journal, entries, backup, index, crashes, seen>>

\* _prepare_entry copies a target and notes the hash of the staged file.
BackUp ==
    /\ pc = "backup"
    /\ backup' = [backup EXCEPT ![index] = target[index]]
    /\ entries' = [entries EXCEPT ![index] = staged[index]]
    /\ NextArtifact("journal")
    /\ UNCHANGED <<target, staged, journal, crashes, seen>>

WriteJournal ==
    /\ pc = "journal"
    /\ journal' = TRUE
    /\ pc' = "apply"
    /\ UNCHANGED <<target, staged, entries, backup, index, crashes, seen>>

\* Mutant: the manifests go first.
ApplyManifestsFirst ==
    /\ pc = "apply"
    /\ LET i == Last - index IN
       /\ target' = [target EXCEPT ![i] = staged[i]]
       /\ staged' = [staged EXCEPT ![i] = Nothing]
    /\ NextArtifact("cleanup")
    /\ UNCHANGED <<journal, entries, backup, crashes, seen>>

\* _apply_single: the artifact in its place, the staged file gone.
Install ==
    /\ target[index] = entries[index] \/ staged[index] = entries[index]
    /\ target' = [target EXCEPT ![index] = entries[index]]
    /\ staged' = IF target[index] = entries[index] THEN staged
                 ELSE [staged EXCEPT ![index] = Nothing]

Apply ==
    /\ pc = "apply"
    /\ Install
    /\ NextArtifact("cleanup")
    /\ UNCHANGED <<journal, entries, backup, crashes, seen>>

\* Mutant: a failed transaction is always rolled back and its journal dropped.
FailRemovingJournal(installed) ==
    /\ pc = "apply"
    /\ IF installed THEN Install ELSE UNCHANGED <<target, staged>>
    /\ IF index = 0 THEN pc' = "rollback" /\ index' = Last ELSE pc' = "down" /\ index' = 0
    /\ journal' = (index = 0)
    /\ UNCHANGED <<entries, backup, crashes, seen>>

\* _record_transaction_failure: an error at the first artifact starts a rollback,
\* after a later one the journal stays.  The replacement that raised may have
\* happened (a failed verification).
Fail(installed) ==
    /\ pc = "apply"
    /\ IF installed THEN Install ELSE UNCHANGED <<target, staged>>
    /\ IF index = 0 THEN pc' = "rollback" /\ index' = Last ELSE pc' = "down" /\ index' = 0
    /\ UNCHANGED <<journal, entries, backup, crashes, seen>>

\* _rollback_entries: the last entry first, each target replaced by its backup.
Rollback ==
    /\ pc = "rollback"
    /\ target' = [target EXCEPT ![index] = backup[index]]
    /\ backup' = [backup EXCEPT ![index] = Nothing]
    /\ IF index > 0 THEN index' = index - 1 /\ UNCHANGED pc
                    ELSE pc' = "rolledBack" /\ UNCHANGED index
    /\ UNCHANGED <<staged, journal, entries, crashes, seen>>

\* _recover_entry: move the staged file into place if the target is not it.
Recover ==
    /\ pc = "recover"
    /\ Install
    /\ NextArtifact("cleanup")
    /\ UNCHANGED <<journal, entries, backup, crashes, seen>>

\* "staged file unavailable", or the replaced file does not verify: the run fails,
\* the journal stays.
RecoverFails ==
    /\ pc = "recover"
    /\ \/ /\ target[index] # entries[index] /\ staged[index] # entries[index]
          /\ UNCHANGED <<target, staged>>
       \/ Install
    /\ pc' = "down" /\ index' = 0
    /\ UNCHANGED <<journal, entries, backup, crashes, seen>>

\* _cleanup empties the journal directory; after a rollback the run then fails.
Cleanup ==
    /\ pc \in {"cleanup", "rolledBack"}
    /\ journal' = FALSE
    /\ entries' = [i \in Artifacts |-> Nothing]
    /\ backup' = [i \in Artifacts |-> Nothing]
    /\ pc' = IF pc = "cleanup" THEN "rmtree" ELSE "down"
    /\ UNCHANGED <<target, staged, index, crashes, seen>>

Rmtree ==
    /\ pc = "rmtree"
    /\ staged' = [i \in Artifacts |-> Nothing]
    /\ pc' = "down"
    /\ UNCHANGED <<target, journal, entries, backup, index, crashes, seen>>

------------------------------------------------------------------------------
(* The environment *)

\* A kill, or an error outside the replacements.
Crash ==
    /\ pc # "down" /\ crashes < MaxCrashes
    /\ crashes' = crashes + 1
    /\ pc' = "down" /\ index' = 0
    /\ UNCHANGED <<target, staged, journal, entries, backup, seen>>

\* Another region's entry in a shared manifest is written: by this process
\* between two transactions, or by the upload worker of a run with --push at any
\* time (finalize_local_retirement, remove_pending_publications).
OtherRegion(i) ==
    /\ target[i].others < MaxOthers
    /\ target' = [target EXCEPT ![i].others = @ + 1]
    /\ UNCHANGED <<staged, journal, entries, backup, pc, index, crashes, seen>>

\* The region is processed again: a new legacy link table, new entries.
Reprocess ==
    /\ pc = "down"
    /\ target[0].generation < MaxGeneration
    /\ target' = [i \in Artifacts |->
           [target[i] EXCEPT !.mine = FALSE, !.generation = target[0].generation + 1]]
    /\ UNCHANGED <<staged, journal, entries, backup, pc, index, crashes, seen>>

Migrate ==
    \/ Plan \/ Stage \/ FindJournal \/ NoJournal \/ BackUp \/ WriteJournal \/ Apply
    \/ \E installed \in BOOLEAN : Fail(installed)
    \/ Rollback \/ Recover \/ RecoverFails \/ Cleanup \/ Rmtree

Next == Migrate \/ Crash \/ Reprocess \/ \E i \in Shared : OtherRegion(i)

Spec == Init /\ [][Next]_vars

\* A started migration goes on, and an operator runs the command again for as
\* long as it finds something to do.
FairSpec == Spec /\ WF_vars(Migrate)

------------------------------------------------------------------------------
(* Properties *)

\* Every variable keeps its type, and a journal is written before any artifact
\* is replaced.
TypeOK ==
    /\ target \in [Artifacts -> Content]
    /\ staged \in [Artifacts -> Content \cup {Nothing}]
    /\ entries \in [Artifacts -> Content \cup {Nothing}]
    /\ backup \in [Artifacts -> Content \cup {Nothing}]
    /\ pc \in {"down", "stage", "commit", "backup", "journal", "apply", "rollback", "rolledBack",
               "recover", "cleanup", "rmtree"}
    /\ index \in Artifacts
    /\ crashes \in 0..MaxCrashes
    /\ seen \in [Artifacts -> 0..MaxOthers]
    /\ pc \in {"apply", "rollback", "rolledBack", "recover", "cleanup"} => journal

\* Wherever the process stops, no manifest names a canonical link table, or
\* normalized Wikivoyage tables, that are not in place (the sort by suffix in
\* commit_ordered_replacements).
ManifestsLast ==
    \A i \in Shared :
        target[i].mine /\ target[i].generation = target[0].generation =>
            \A t \in 0..Tables : target[t].mine

\* A region that is only half migrated still has its journal: whatever crashes,
\* errors, half rollbacks, failed roll-forwards and reprocessing happened, a
\* journal is removed only when every artifact is migrated or the link table is
\* the old one (tests/migration/test_transaction_rollforward.py).
HalfMigratedHasJournal ==
    target[0].mine /\ (\E i \in Artifacts : ~target[i].mine) => journal

\* No replacement, rollback or roll-forward takes a shared manifest back to before
\* this run read it: what other regions recorded between a crash and the run that
\* finds its journal is never undone, because that run stages everything anew
\* before it compares with the journal.  Only what the upload worker writes while
\* the run is between staging and replacing can be lost.
OnlyConcurrentUpdatesLost ==
    [][\A i \in Shared :
           target'[i].others < target[i].others => target'[i].others >= seen[i]]_vars

\* A migration that replaced the link table also completes its manifests, after
\* whatever crash (tests/migration/test_single_transaction.py: "Crash injection
\* after every write boundary must leave the stem in a state where a fresh
\* restart converges").
RestartConverges ==
    target[0].mine ~> \A i \in Artifacts : target[i].mine
==============================================================================
