--------------------------- MODULE WikidataRecovery ---------------------------
(***************************************************************************)
(* The journaled repair of one finalized region                            *)
(* (pipeline/_wikidata_recovery): recover what an interrupted repair of    *)
(* any region left, stage the repaired tables and manifests, back up and   *)
(* journal, replace, clean up, store a receipt.  Unlike the link migration *)
(* it copies staged files, replaces in path order (the shared manifests    *)
(* sort before the tables), and has three journal phases: "prepared" is    *)
(* rolled back, "committing" and "committed" are rolled forward.           *)
(*                                                                         *)
(* Data abstraction: artifacts 1..Shared are manifests shared by all       *)
(* regions, the rest are tables of this region.  A content is the          *)
(* generation of the region it is about, whether that is the repaired one, *)
(* and how many updates of other regions it includes.                      *)
(***************************************************************************)
EXTENDS Naturals

CONSTANTS Shared,         \* number of shared manifests
          Tables,         \* number of tables
          MaxGeneration,  \* bound: times the region is processed again
          MaxOthers,      \* bound: updates of one manifest by other regions
          MaxCrashes      \* bound: crashes

ASSUME ConstantsAssumption ==
    /\ Shared \in Nat \ {0} /\ Tables \in Nat \ {0}
    /\ MaxGeneration \in Nat /\ MaxOthers \in Nat /\ MaxCrashes \in Nat

Last      == Shared + Tables
Artifacts == 1..Last
TableSet  == (Shared + 1)..Last
Content   == [generation : 0..MaxGeneration, repaired : BOOLEAN, others : 0..MaxOthers]
Nothing   == [generation |-> 0, repaired |-> FALSE, others |-> MaxOthers + 1]  \* no file
NoFiles   == [i \in Artifacts |-> Nothing]

VARIABLES
    target,      \* disk: the artifacts
    directory,   \* disk: transactions/<stem> exists
    staged,      \* disk: staged files in it
    backup,      \* disk: backups in it
    journal,     \* disk: the phase its journal records, or "none"
    entries,     \* disk: the staged hashes the journal records
    receipt,     \* disk: the tables the audit receipt vouches for
    repairable,  \* upstream has what the damaged rows miss
    pc, index,   \* the process: the step and the artifact at hand
    mine,        \* the process: this region is being repaired (not another one)
    then,        \* the process: where to go on after the cleanup
    crashes      \* crashes so far

files == <<directory, staged, backup, journal, entries>>
vars  == <<target, files, receipt, repairable, pc, index, mine, then, crashes>>

TablesNow == [i \in TableSet |-> target[i]]

Init ==
    /\ target = [i \in Artifacts |-> [generation |-> 0, repaired |-> FALSE, others |-> 0]]
    /\ directory = FALSE /\ staged = NoFiles /\ backup = NoFiles
    /\ journal = "none" /\ entries = NoFiles
    /\ receipt = [i \in TableSet |-> Nothing]
    /\ repairable \in BOOLEAN
    /\ pc = "down" /\ index = 1 /\ mine = FALSE /\ then = "down"
    /\ crashes = 0

------------------------------------------------------------------------------
(* repair_wikidata_region *)

\* The audit finds damage and no receipt for these very tables.
RequiresRepair == receipt # TablesNow /\ \E i \in TableSet : ~target[i].repaired

Begin(forMine) ==
    /\ pc = "down"
    /\ forMine => RequiresRepair
    /\ mine' = forMine
    /\ pc' = "recover" /\ index' = 1
    /\ UNCHANGED <<target, files, receipt, repairable, then, crashes>>

\* recover_interrupted_transactions: a directory without a journal is passed over.
RecoverNothing ==
    /\ pc = "recover" /\ journal = "none"
    /\ pc' = IF mine THEN "build" ELSE "down"
    /\ UNCHANGED <<target, files, receipt, repairable, index, mine, then, crashes>>

\* Mutant: a transaction that was being committed is dropped.
RecoverDiscarding ==
    /\ pc = "recover" /\ journal # "none"
    /\ then' = "recover"
    /\ IF journal = "prepared" THEN pc' = "rollback" /\ index' = Last
                               ELSE pc' = "cleanup" /\ index' = 1
    /\ UNCHANGED <<target, files, receipt, repairable, mine, crashes>>

RecoverInterrupted ==
    /\ pc = "recover" /\ journal # "none"
    /\ then' = "recover"
    /\ IF journal = "prepared" THEN pc' = "rollback" /\ index' = Last
                               ELSE pc' = "forward" /\ index' = 1
    /\ UNCHANGED <<target, files, receipt, repairable, mine, crashes>>

\* The outputs equal the inputs: the receipt is stored, nothing is replaced.
RepairUnchanged ==
    /\ pc = "build" /\ ~repairable
    /\ receipt' = TablesNow
    /\ pc' = "down"
    /\ UNCHANGED <<target, files, repairable, index, mine, then, crashes>>

\* directory.mkdir(exist_ok=False)
Mkdir ==
    /\ pc = "build" /\ repairable
    /\ ~directory
    /\ directory' = TRUE
    /\ pc' = "stage" /\ index' = 1
    /\ UNCHANGED <<target, staged, backup, journal, entries, receipt, repairable, mine, then,
                   crashes>>

MkdirFails ==
    /\ pc = "build" /\ repairable
    /\ directory
    /\ pc' = "down"
    /\ UNCHANGED <<target, files, receipt, repairable, index, mine, then, crashes>>

\* A table with the affected rows merged again, or a manifest with this region's
\* entry replaced.
Repaired(i) == [target[i] EXCEPT !.repaired = TRUE]

Stage ==
    /\ pc = "stage"
    /\ staged' = [staged EXCEPT ![index] = Repaired(index)]
    /\ IF index < Last THEN index' = index + 1 /\ UNCHANGED pc
                       ELSE index' = 1 /\ pc' = "prepare"
    /\ UNCHANGED <<target, directory, backup, journal, entries, receipt, repairable, mine,
                   then, crashes>>

\* A write raises: the directory and what is in it stay.
StageFails ==
    /\ pc = "stage"
    /\ pc' = "down" /\ index' = 1
    /\ UNCHANGED <<target, files, receipt, repairable, mine, then, crashes>>

------------------------------------------------------------------------------
(* commit_replacements *)

\* Mutant: the receipt is stored before the replacements.
PrepareWithReceipt ==
    /\ pc = "prepare"
    /\ backup' = target
    /\ entries' = staged
    /\ journal' = "prepared"
    /\ receipt' = TablesNow
    /\ pc' = "committing"
    /\ UNCHANGED <<target, directory, staged, repairable, index, mine, then, crashes>>

\* Hash the staged files, back up the targets, write the journal.
Prepare ==
    /\ pc = "prepare"
    /\ backup' = target
    /\ entries' = staged
    /\ journal' = "prepared"
    /\ pc' = "committing"
    /\ UNCHANGED <<target, directory, staged, receipt, repairable, index, mine, then, crashes>>

Committing ==
    /\ pc = "committing"
    /\ journal' = "committing"
    /\ then' = "receipt"
    /\ pc' = "forward" /\ index' = 1
    /\ UNCHANGED <<target, directory, staged, backup, entries, receipt, repairable, mine,
                   crashes>>

\* _roll_forward_entry: nothing to do if the target is the staged file already.
RollForward ==
    /\ pc = "forward"
    /\ entries[index] \in {target[index], staged[index]}
    /\ target' = [target EXCEPT ![index] = entries[index]]
    /\ IF index < Last THEN index' = index + 1 /\ UNCHANGED pc
                       ELSE index' = 1 /\ pc' = "committed"
    /\ UNCHANGED <<files, receipt, repairable, mine, then, crashes>>

\* It raises ("staged file is unavailable", a failed copy or verification): a
\* commit is undone, a recovery gives up and leaves the journal.
RollForwardFails(copied) ==
    /\ pc = "forward"
    /\ copied => staged[index] = entries[index]
    /\ target' = IF copied THEN [target EXCEPT ![index] = entries[index]] ELSE target
    /\ IF then = "receipt" THEN pc' = "rollback" /\ index' = Last /\ then' = "down"
                           ELSE pc' = "down" /\ index' = 1 /\ UNCHANGED then
    /\ UNCHANGED <<files, receipt, repairable, mine, crashes>>

Committed ==
    /\ pc = "committed"
    /\ journal' = "committed"
    /\ pc' = "cleanup"
    /\ UNCHANGED <<target, directory, staged, backup, entries, receipt, repairable, index,
                   mine, then, crashes>>

\* _rollback_entry, in reverse order.
Rollback ==
    /\ pc = "rollback"
    /\ backup[index] # Nothing
    /\ target' = [target EXCEPT ![index] = backup[index]]
    /\ IF index > 1 THEN index' = index - 1 /\ UNCHANGED pc
                    ELSE index' = 1 /\ pc' = "cleanup"
    /\ UNCHANGED <<files, receipt, repairable, mine, then, crashes>>

\* "backup is unavailable"
RollbackFails ==
    /\ pc = "rollback"
    /\ backup[index] = Nothing
    /\ pc' = "down" /\ index' = 1
    /\ UNCHANGED <<target, files, receipt, repairable, mine, then, crashes>>

\* _cleanup: staged file and backup of each entry, then the journal, then rmdir.
Cleanup ==
    /\ pc = "cleanup"
    /\ staged' = [staged EXCEPT ![index] = Nothing]
    /\ backup' = [backup EXCEPT ![index] = Nothing]
    /\ IF index < Last THEN index' = index + 1 /\ UNCHANGED pc
                       ELSE index' = 1 /\ pc' = "unlink"
    /\ UNCHANGED <<target, directory, journal, entries, receipt, repairable, mine, then,
                   crashes>>

UnlinkJournal ==
    /\ pc = "unlink"
    /\ journal' = "none"
    /\ entries' = NoFiles
    /\ pc' = "rmdir"
    /\ UNCHANGED <<target, directory, staged, backup, receipt, repairable, index, mine, then,
                   crashes>>

Rmdir ==
    /\ pc = "rmdir"
    /\ directory' = FALSE
    /\ pc' = then
    /\ UNCHANGED <<target, staged, backup, journal, entries, receipt, repairable, index, mine,
                   then, crashes>>

\* record_region_recovery_receipt fingerprints the tables as they are now.
RecordReceipt ==
    /\ pc = "receipt"
    /\ receipt' = TablesNow
    /\ pc' = "down"
    /\ UNCHANGED <<target, files, repairable, index, mine, then, crashes>>

------------------------------------------------------------------------------
(* The environment *)

Crash ==
    /\ pc # "down" /\ crashes < MaxCrashes
    /\ crashes' = crashes + 1
    /\ pc' = "down" /\ index' = 1 /\ mine' = FALSE /\ then' = "down"
    /\ UNCHANGED <<target, files, receipt, repairable>>

\* Another region's entry in a shared manifest is written, by the upload worker or
\* between two repairs.
OtherRegion(i) ==
    /\ target[i].others < MaxOthers
    /\ target' = [target EXCEPT ![i].others = @ + 1]
    /\ UNCHANGED <<files, receipt, repairable, pc, index, mine, then, crashes>>

\* The region is processed or augmented again: new tables and entries, which may
\* need a repair again.
Reprocess(r) ==
    /\ pc = "down"
    /\ target[Last].generation < MaxGeneration
    /\ target' = [i \in Artifacts |->
           [target[i] EXCEPT !.repaired = FALSE, !.generation = target[Last].generation + 1]]
    /\ repairable' = r
    /\ UNCHANGED <<files, receipt, pc, index, mine, then, crashes>>

Step ==
    \/ RecoverNothing \/ RecoverInterrupted \/ RepairUnchanged \/ Mkdir \/ MkdirFails \/ Stage
    \/ Prepare \/ Committing \/ RollForward \/ Committed \/ Rollback \/ RollbackFails
    \/ Cleanup \/ UnlinkJournal \/ Rmdir \/ RecordReceipt

Raise == StageFails \/ \E copied \in BOOLEAN : RollForwardFails(copied)

Next ==
    \/ Step \/ Raise \/ Crash
    \/ \E b \in BOOLEAN : Begin(b) \/ Reprocess(b)
    \/ \E i \in 1..Shared : OtherRegion(i)

Spec == Init /\ [][Next]_vars

------------------------------------------------------------------------------
(* Properties *)

\* Every variable keeps its type, and a journal lies in its directory.
TypeOK ==
    /\ target \in [Artifacts -> Content]
    /\ {staged, backup, entries} \subseteq [Artifacts -> Content \cup {Nothing}]
    /\ receipt \in [TableSet -> Content \cup {Nothing}]
    /\ journal \in {"none", "prepared", "committing", "committed"}
    /\ {directory, repairable, mine} \subseteq BOOLEAN
    /\ pc \in {"down", "recover", "build", "stage", "prepare", "committing", "forward",
               "committed", "rollback", "cleanup", "unlink", "rmdir", "receipt"}
    /\ index \in Artifacts
    /\ then \in {"down", "recover", "receipt"}
    /\ crashes \in 0..MaxCrashes
    /\ journal # "none" => directory

\* All or nothing: unless a journal says that a repair is under way, tables and
\* manifests tell the same story about the region, whatever crashed or raised in
\* whatever phase, also twice (commit_replacements, _commit_or_rollback,
\* recover_interrupted_transactions).
NoTornRepair ==
    journal = "none" => \A i, j \in Artifacts :
        /\ target[i].repaired = target[j].repaired
        /\ target[i].generation = target[j].generation

\* A receipt that matches the tables, and so spares them the audit, vouches only
\* for tables with nothing left to repair (record_region_recovery_receipt after
\* the commit; reuse_receipt compares fingerprints).
ReceiptMeansHealthy ==
    receipt = TablesNow => ~repairable \/ \A i \in TableSet : target[i].repaired
==============================================================================
