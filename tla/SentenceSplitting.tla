------------------------- MODULE SentenceSplitting -------------------------
(***************************************************************************)
(* V2 sentence splitting: the resumable pass over the section tables       *)
(* (v2/sentence_runner.py, v2/sentence_checkpoints.py,                     *)
(* v2/sentence_logic.py), run on the operator's machine or in a Grid5000   *)
(* job on a copy of its inputs (grid5000/sentence_job.py), and the import  *)
(* of what the job returns (grid5000/sentence_controller_import.py,        *)
(* grid5000/sentence_protocol.py).  SentenceController models the ledger   *)
(* and the reservations around the job; here they are one batch at a time. *)
(*                                                                         *)
(* The V2 build replaces section tables under another lock, at any moment. *)
(* Each file is replaced atomically; a process may be killed between any   *)
(* two file operations.  A digest is the bytes it stands for, and the      *)
(* bytes of a section table are its edition.                               *)
(***************************************************************************)
EXTENDS Integers, Sequences, FiniteSets, SequencesExt

CONSTANTS
    Tables,      \* the section tables <<stem, project>>, in processing order
    Sections,    \* Sections[t][e]: the sections of edition e, [language, length]
    Supported,   \* SAT_SUPPORTED_LANGUAGES
    Pieces,      \* Pieces[version][n]: the lengths SaT cuts n characters into
    LocalSizes,  \* --batch-size of the local command
    JobSize,     \* limits.batch_size of the controller
    MaxStems,    \* limits.max_stems: tables of a batch
    JobVersion,  \* the segmenter version the job's lock file pins
    Replaced,    \* the tables the V2 build replaces meanwhile
    MaxEdits, MaxRuns, MaxJobs, MaxKills

Places == {"local", "job"}
TableSet == Range(Tables)
Versions == DOMAIN Pieces

ASSUME SentenceSplittingAssumption ==
    /\ LocalSizes \subseteq Nat \ {0} /\ JobSize \in Nat \ {0}
    /\ MaxStems \in Nat \ {0} /\ JobVersion \in Versions
    /\ Replaced \subseteq TableSet
    /\ \A t \in TableSet : DOMAIN Sections[t] = 0..MaxEdits

VARIABLES
    source,     \* [Places -> [TableSet -> edition of the section table]]
    outputs,    \* [Places -> [TableSet -> <<rows>>, <<>> when absent]]
    meta,       \* [Places -> [TableSet -> <<metadata.json>>, <<>> when absent]]
    batches,    \* [Places -> [TableSet -> [index -> rows]]]
    litter,     \* [Places -> tables whose checkpoint has a leftover temporary of
                \*  metadata.json, or no metadata.json yet]
    manifest,   \* [Places -> <<sentence_splitting.json>>, <<>> when absent]
    worker,     \* [Places -> the pass running there]
    job,        \* the Grid5000 batch
    importer,   \* the controller's import
    mixed,      \* ghost: the tables an import and a local pass were in at once
    runs, kills

files == <<source, outputs, meta, batches, manifest>>
vars == <<files, litter, mixed, worker, job, importer, runs, kills>>

-----------------------------------------------------------------------------
(* split_sections: one row for a section in another language, none for an  *)
(* empty one, else one row for each piece.                                 *)

Row(e, i, start, end, status, version) ==
    [edition |-> e, section |-> i, start |-> start, end |-> end,
     status |-> status, version |-> version]

Sum(s) == FoldLeft(LAMBDA a, b : a + b, 0, s)

Reconstructs(pieces, length) == Sum(pieces) = length /\ \A k \in DOMAIN pieces : pieces[k] > 0

SplitRows(e, i, length, version) ==
    LET pieces == Pieces[version][length]
        offset(k) == Sum(SubSeq(pieces, 1, k - 1))
    IN  [k \in DOMAIN pieces |->
            Row(e, i, offset(k), offset(k) + pieces[k], "split", version)]

SectionRows(t, e, i, version) ==
    LET section == Sections[t][e][i]
    IN  IF section.language \notin Supported
        THEN <<Row(e, i, 0, section.length, "unsupported_language", "")>>
        ELSE IF section.length = 0 THEN <<>> ELSE SplitRows(e, i, section.length, version)

BatchCount(t, e, size) == (Len(Sections[t][e]) + size - 1) \div size
InBatch(t, e, size, index) ==
    LET first == index * size + 1
        last == (index + 1) * size
    IN  [k \in 1..(IF last < Len(Sections[t][e]) THEN size
                   ELSE Len(Sections[t][e]) - first + 1) |-> first + k - 1]

split_sections(t, e, positions, version) ==
    FlattenSeq([k \in DOMAIN positions |-> SectionRows(t, e, positions[k], version)])

SplitRaises(t, e, positions, version) ==
    \E i \in Range(positions) :
        LET section == Sections[t][e][i]
        IN  /\ section.language \in Supported /\ section.length > 0
            /\ ~Reconstructs(Pieces[version][section.length], section.length)

Summary(t, e, rows) ==
    LET split == {i \in DOMAIN Sections[t][e] : Sections[t][e][i].language \in Supported}
    IN  [sections |-> Len(Sections[t][e]), split_sections |-> Cardinality(split),
         sentence_rows |-> rows]

-----------------------------------------------------------------------------
NoBatches == <<>>
NoOutput == <<>>
Identity(e, size) == [fingerprint |-> e, batch_size |-> size]
InitialMetadata(identity) ==
    [identity |-> identity, complete |-> FALSE, batch_count |-> 0, row_count |-> 0,
     output |-> NoOutput]
NoWork == [pc |-> "idle", todo |-> <<>>, version |-> JobVersion, size |-> JobSize,
           metadata |-> InitialMetadata(Identity(0, JobSize)), reading |-> 0, index |-> 0,
           rows |-> 0, summaries |-> <<>>, loaded |-> <<>>]
NoImport == [pc |-> "idle", todo |-> <<>>]

Empty(x) == [t \in TableSet |-> x]

Init ==
    /\ source = [p \in Places |-> Empty(0)]
    /\ outputs = [p \in Places |-> Empty(NoOutput)]
    /\ meta = [p \in Places |-> Empty(<<>>)]
    /\ batches = [p \in Places |-> Empty(NoBatches)]
    /\ manifest = [p \in Places |-> <<>>]
    /\ worker = [p \in Places |-> NoWork]
    /\ job = [state |-> "none", tables |-> <<>>] /\ importer = NoImport
    /\ litter = [p \in Places |-> {}] /\ mixed = {}
    /\ runs = [local |-> 0, job |-> 0] /\ kills = 0

(* The V2 build replaces a section table.                                  *)
ReplaceSections(t) ==
    /\ t \in Replaced /\ source["local"][t] < MaxEdits
    /\ source' = [source EXCEPT !["local"][t] = @ + 1]
    /\ UNCHANGED <<outputs, meta, batches, manifest, litter, mixed, worker, job, importer, runs, kills>>

-----------------------------------------------------------------------------
(* The pass over the tables, at either place.                              *)

At(p, step) == worker[p].pc = step
Table(p) == worker[p].todo[1]
Become(p, w) == worker' = [worker EXCEPT ![p] = w]
Put(f, x, y) == [z \in DOMAIN f \cup {x} |-> IF z = x THEN y ELSE f[z]]
Drop(f, x) == [z \in DOMAIN f \ {x} |-> f[z]]

(* A job that raises writes a receipt that says so.                        *)
Fail(p) ==
    /\ Become(p, NoWork)
    /\ job' = IF p = "job" THEN [job EXCEPT !.state = "failed"] ELSE job

Advance(p, w) ==
    Become(p, [w EXCEPT !.pc = IF Tail(w.todo) = <<>> THEN "load" ELSE "open",
                        !.todo = Tail(w.todo)])

StartLocal(version, size) ==
    /\ At("local", "idle") /\ runs.local < MaxRuns
    /\ runs' = [runs EXCEPT !.local = @ + 1]
    /\ Become("local", [NoWork EXCEPT !.pc = "open", !.todo = Tables,
                                      !.version = version, !.size = size])
    /\ UNCHANGED <<files, litter, mixed, job, importer, kills>>

RecordedOutputMatches(p, t, metadata) ==
    /\ metadata.complete /\ metadata.output # NoOutput
    /\ metadata.output[1].path = p /\ outputs[p][t] = <<metadata.output[1].rows>>

(* Ghost: an import has checked this table's checkpoint and not installed  *)
(* all of it yet.                                                          *)
Importing(t) == importer.pc = "tree" /\ importer.todo[1] = t

(* Hash the source and open the checkpoint.  One of another contract is    *)
(* discarded; a table already finalised is left alone.                     *)
OpenCheckpoint(p) ==
    LET t == Table(p)
        w == worker[p]
        identity == Identity(source[p][t], w.size)
    IN  /\ At(p, "open")
        /\ IF meta[p][t] = <<>> \/ meta[p][t][1].identity # identity
           THEN Become(p, [w EXCEPT !.pc = "reset", !.metadata = InitialMetadata(identity)])
           ELSE IF RecordedOutputMatches(p, t, meta[p][t][1])
           THEN Advance(p, [w EXCEPT !.summaries =
                                Append(@, <<t, meta[p][t][1].output[1].summary>>)])
           ELSE Become(p, [w EXCEPT !.pc = "read", !.metadata = meta[p][t][1]])
        /\ mixed' = IF p = "local" /\ Importing(t) THEN mixed \cup {t} ELSE mixed
        /\ UNCHANGED <<files, litter, job, importer, runs, kills>>

\* Mutant: the new contract adopts the batches of the old one.
ResetKeepingBatches(p) ==
    LET t == Table(p)
    IN  /\ At(p, "reset")
        /\ meta' = [meta EXCEPT ![p][t] = <<worker[p].metadata>>]
        /\ Become(p, [worker[p] EXCEPT !.pc = "read"])
        /\ litter' = [litter EXCEPT ![p] = @ \ {t}]
        /\ UNCHANGED <<source, outputs, batches, manifest, mixed, job, importer, runs, kills>>

(* The payloads go one by one, then the new metadata is written.           *)
ResetCheckpoint(p) ==
    LET t == Table(p)
    IN  /\ At(p, "reset")
        /\ IF DOMAIN batches[p][t] # {}
           THEN /\ \E i \in DOMAIN batches[p][t] :
                     batches' = [batches EXCEPT ![p][t] = Drop(@, i)]
                /\ UNCHANGED <<meta, litter, worker>>
           ELSE /\ meta' = [meta EXCEPT ![p][t] = <<worker[p].metadata>>]
                /\ litter' = [litter EXCEPT ![p] = @ \ {t}]
                /\ Become(p, [worker[p] EXCEPT !.pc = "read"])
                /\ UNCHANGED batches
        /\ UNCHANGED <<source, outputs, manifest, mixed, job, importer, runs, kills>>

(* The table is opened after it was hashed, and stays open.                *)
ReadSource(p) ==
    /\ At(p, "read")
    /\ Become(p, [worker[p] EXCEPT !.pc = "batch", !.reading = source[p][Table(p)],
                                   !.index = 0, !.rows = 0])
    /\ UNCHANGED <<files, litter, mixed, job, importer, runs, kills>>

(* A batch file is replaced atomically, so one that is there has a schema  *)
(* and a row count.                                                        *)
ValidBatch(p, t, index) == index \in DOMAIN batches[p][t]

(* A valid batch is reused; another one is split and written.              *)
ProcessBatch(p) ==
    LET t == Table(p)
        w == worker[p]
        positions == InBatch(t, w.reading, w.size, w.index)
        rows == split_sections(t, w.reading, positions, w.version)
    IN  /\ At(p, "batch") /\ w.index < BatchCount(t, w.reading, w.size)
        /\ IF ValidBatch(p, t, w.index)
           THEN /\ Become(p, [w EXCEPT !.index = @ + 1,
                                       !.rows = @ + Len(batches[p][t][w.index])])
                /\ UNCHANGED <<batches, job>>
           ELSE IF SplitRaises(t, w.reading, positions, w.version)
           THEN Fail(p) /\ UNCHANGED batches
           ELSE /\ batches' = [batches EXCEPT ![p][t] = Put(@, w.index, rows)]
                /\ Become(p, [w EXCEPT !.pc = "unmark", !.rows = @ + Len(rows)])
                /\ UNCHANGED job
        /\ UNCHANGED <<source, outputs, meta, manifest, litter, mixed, importer, runs, kills>>

(* The second write of write_batch.                                        *)
UnmarkComplete(p) ==
    LET w == [worker[p] EXCEPT !.metadata.complete = FALSE]
    IN  /\ At(p, "unmark")
        /\ meta' = [meta EXCEPT ![p][Table(p)] = <<w.metadata>>]
        /\ Become(p, [w EXCEPT !.pc = "batch", !.index = @ + 1])
        /\ UNCHANGED <<source, outputs, batches, manifest, litter, mixed, job, importer, runs, kills>>

MarkComplete(p) ==
    LET t == Table(p)
        w == worker[p]
        count == BatchCount(t, w.reading, w.size)
        total == Sum([k \in 1..count |-> Len(batches[p][t][k - 1])])
        marked == [w.metadata EXCEPT !.complete = TRUE, !.batch_count = count,
                                     !.row_count = w.rows]
    IN  /\ At(p, "batch") /\ w.index = count
        /\ IF DOMAIN batches[p][t] = 0..(count - 1) /\ total = w.rows
           THEN /\ meta' = [meta EXCEPT ![p][t] = <<marked>>]
                /\ Become(p, [w EXCEPT !.pc = "output", !.metadata = marked])
                /\ UNCHANGED job
           ELSE Fail(p) /\ UNCHANGED meta
        /\ UNCHANGED <<source, outputs, batches, manifest, litter, mixed, importer, runs, kills>>

WriteOutput(p) ==
    LET t == Table(p)
        count == worker[p].metadata.batch_count
        rows == FlattenSeq([k \in 1..count |-> batches[p][t][k - 1]])
    IN  /\ At(p, "output")
        /\ IF \A i \in 0..(count - 1) : ValidBatch(p, t, i)
           THEN /\ outputs' = [outputs EXCEPT ![p][t] = <<rows>>]
                /\ Become(p, [worker[p] EXCEPT !.pc = "finalize"]) /\ UNCHANGED job
           ELSE Fail(p) /\ UNCHANGED outputs
        /\ UNCHANGED <<source, meta, batches, manifest, litter, mixed, importer, runs, kills>>

(* The output is hashed again from the disk.                               *)
Finalize(p) ==
    LET t == Table(p)
        w == worker[p]
        summary == Summary(t, w.reading, w.rows)
        final == [w.metadata EXCEPT !.output =
                    <<[path |-> p, rows |-> outputs[p][t][1], summary |-> summary]>>]
    IN  /\ At(p, "finalize")
        /\ meta' = [meta EXCEPT ![p][t] = <<final>>]
        /\ Become(p, [w EXCEPT !.pc = "sweep", !.metadata = final,
                               !.summaries = Append(@, <<t, summary>>)])
        /\ UNCHANGED <<source, outputs, batches, manifest, litter, mixed, job, importer, runs, kills>>

RemovePayloads(p) ==
    LET t == Table(p)
    IN  /\ At(p, "sweep")
        /\ IF DOMAIN batches[p][t] # {}
           THEN /\ \E i \in DOMAIN batches[p][t] :
                     batches' = [batches EXCEPT ![p][t] = Drop(@, i)]
                /\ UNCHANGED <<litter, worker>>
           ELSE /\ litter' = [litter EXCEPT ![p] = @ \ {t}]
                /\ Advance(p, worker[p]) /\ UNCHANGED batches
        /\ UNCHANGED <<source, outputs, meta, manifest, mixed, job, importer, runs, kills>>

(* The manifest is read when every table is done, and refused if it names  *)
(* another segmenter.                                                      *)
LoadManifest(p) ==
    LET w == worker[p]
        known == manifest[p] # <<>>
    IN  /\ At(p, "load")
        /\ IF known /\ manifest[p][1].version # w.version
           THEN Fail(p)
           ELSE /\ Become(p, [w EXCEPT !.pc = "write", !.loaded =
                                IF known THEN manifest[p][1].regions ELSE <<>>])
                /\ UNCHANGED job
        /\ UNCHANGED <<files, litter, mixed, importer, runs, kills>>

Merged(loaded, summaries) == FoldLeft(LAMBDA f, s : Put(f, s[1], s[2]), loaded, summaries)

WriteManifest(p) ==
    LET w == worker[p]
    IN  /\ At(p, "write")
        /\ manifest' = [manifest EXCEPT ![p] =
                <<[version |-> w.version, regions |-> Merged(w.loaded, w.summaries)]>>]
        /\ Become(p, NoWork)
        /\ job' = IF p = "job" THEN [job EXCEPT !.state = "succeeded"] ELSE job
        /\ UNCHANGED <<source, outputs, meta, batches, litter, mixed, importer, runs, kills>>

(* What a kill may leave of a metadata.json that was being replaced; the   *)
(* directory is there before its first one is.                             *)
Left(p) ==
    IF worker[p].pc \notin {"reset", "unmark", "batch", "finalize"} THEN {{}}
    ELSE IF At(p, "reset") /\ meta[p][Table(p)] = <<>> THEN {{Table(p)}}
    ELSE {{}, {Table(p)}}

Kill(p) ==
    /\ ~At(p, "idle") /\ kills < MaxKills /\ kills' = kills + 1
    /\ Become(p, NoWork)
    /\ job' = IF p = "job" THEN [job EXCEPT !.state = "failed"] ELSE job
    /\ \E left \in Left(p) : litter' = [litter EXCEPT ![p] = @ \cup left]
    /\ UNCHANGED <<files, mixed, importer, runs>>

-----------------------------------------------------------------------------
(* The Grid5000 batch.                                                     *)

(* A table is complete when the sentence manifest lists it.                *)
Pending ==
    SelectSeq(Tables, LAMBDA t : manifest["local"] = <<>>
                                 \/ t \notin DOMAIN manifest["local"][1].regions)

(* The first batch of a new ledger.                                        *)
Batch == SubSeq(Pending, 1, IF Len(Pending) < MaxStems THEN Len(Pending) ELSE MaxStems)

(* The manifest, the batch's tables and their checkpoints are copied to    *)
(* the job; the outputs are not.                                           *)
StageBatch ==
    LET staged == Range(Batch)
        copy(f, x) == [f EXCEPT !["job"] =
                        [t \in TableSet |-> IF t \in staged THEN f["local"][t] ELSE x]]
    IN  /\ job.state = "none" /\ runs.job < MaxJobs /\ Pending # <<>>
        /\ runs' = [runs EXCEPT !.job = @ + 1]
        /\ job' = [state |-> "running", tables |-> Batch]
        /\ source' = copy(source, 0) /\ meta' = copy(meta, <<>>)
        /\ batches' = copy(batches, NoBatches)
        /\ outputs' = [outputs EXCEPT !["job"] = Empty(NoOutput)]
        /\ manifest' = [manifest EXCEPT !["job"] = manifest["local"]]
        /\ litter' = [litter EXCEPT !["job"] = litter["local"] \cap staged]
        /\ Become("job", [NoWork EXCEPT !.pc = "open", !.todo = Batch])
        /\ UNCHANGED <<mixed, importer, kills>>

ImportGoes(step, todo) == importer' = [importer EXCEPT !.pc = step, !.todo = todo]
ImportRaises == importer' = NoImport

ValidExtension(local, incoming) ==
    /\ local = <<>> \/
          /\ local[1].version = incoming[1].version
          /\ \A t \in DOMAIN local[1].regions :
                /\ t \in DOMAIN incoming[1].regions
                /\ incoming[1].regions[t] = local[1].regions[t]
    /\ Range(job.tables) \subseteq DOMAIN incoming[1].regions

(* A failed job is imported for its checkpoints only.                      *)
StartImport ==
    /\ importer.pc = "idle" /\ job.state \in {"succeeded", "failed"}
    /\ IF job.state = "failed"
       THEN importer' = [pc |-> "identity", todo |-> job.tables]
       ELSE IF ValidExtension(manifest["local"], manifest["job"])
       THEN importer' = [pc |-> "manifest", todo |-> job.tables]
       ELSE UNCHANGED importer
    /\ UNCHANGED <<files, litter, mixed, worker, job, runs, kills>>

InstallManifest ==
    /\ importer.pc = "manifest"
    /\ manifest' = [manifest EXCEPT !["local"] = manifest["job"]]
    /\ ImportGoes("outputs", importer.todo)
    /\ UNCHANGED <<source, outputs, meta, batches, litter, mixed, worker, job, runs, kills>>

(* Ghost: the local pass is inside this table.                             *)
InPass(t) == worker["local"].pc \notin {"idle", "load", "write"} /\ Table("local") = t
Mix(t) == mixed' = IF InPass(t) THEN mixed \cup {t} ELSE mixed

InstallOutput ==
    LET t == importer.todo[1]
    IN  /\ importer.pc = "outputs"
        /\ Mix(t)
        /\ outputs' = [outputs EXCEPT !["local"][t] = outputs["job"][t]]
        /\ IF Tail(importer.todo) = <<>> THEN ImportGoes("identity", job.tables)
           ELSE ImportGoes("outputs", Tail(importer.todo))
        /\ UNCHANGED <<source, meta, batches, manifest, litter, worker, job, runs, kills>>

ImportNext ==
    IF Tail(importer.todo) = <<>>
    THEN ImportRaises /\ job' = [state |-> "none", tables |-> <<>>]
    ELSE ImportGoes("identity", Tail(importer.todo)) /\ UNCHANGED job

(* import_checkpoint_tree: the incoming and the existing checkpoint are of *)
(* the present source, and the batches are contiguous.  A directory with   *)
(* anything else in it, or without metadata, is refused.                   *)
ValidTree(t) ==
    LET identity == Identity(source["local"][t], JobSize)
    IN  /\ meta["job"][t][1].identity = identity
        /\ meta["local"][t] # <<>> => meta["local"][t][1].identity = identity
        /\ DOMAIN batches["job"][t] = 0..(Cardinality(DOMAIN batches["job"][t]) - 1)

CheckIdentity ==
    LET t == importer.todo[1]
    IN  /\ importer.pc = "identity"
        /\ IF meta["job"][t] = <<>> /\ t \notin litter["job"]
           THEN ImportNext
           ELSE IF t \notin litter["job"] /\ ValidTree(t)
           THEN ImportGoes("tree", importer.todo) /\ UNCHANGED job
           ELSE ImportRaises /\ UNCHANGED job
        /\ Mix(t)
        /\ UNCHANGED <<files, litter, worker, runs, kills>>

(* The batches, then the metadata; what else is there stays.               *)
InstallTree ==
    LET t == importer.todo[1]
        missing == {i \in DOMAIN batches["job"][t] :
                      \/ i \notin DOMAIN batches["local"][t]
                      \/ batches["local"][t][i] # batches["job"][t][i]}
    IN  /\ importer.pc = "tree"
        /\ IF missing # {}
           THEN /\ \E i \in missing : batches' = [batches EXCEPT !["local"][t] =
                                                Put(@, i, batches["job"][t][i])]
                /\ UNCHANGED <<meta, importer, job>>
           ELSE /\ meta' = [meta EXCEPT !["local"][t] = meta["job"][t]]
                /\ ImportNext /\ UNCHANGED batches
        /\ UNCHANGED <<source, outputs, manifest, litter, mixed, worker, runs, kills>>

KillImport ==
    /\ importer.pc # "idle" /\ kills < MaxKills /\ kills' = kills + 1
    /\ ImportRaises
    /\ UNCHANGED <<files, litter, mixed, worker, job, runs>>

-----------------------------------------------------------------------------
Pass(p) ==
    \/ OpenCheckpoint(p) \/ ResetCheckpoint(p) \/ ReadSource(p) \/ ProcessBatch(p)
    \/ UnmarkComplete(p) \/ MarkComplete(p) \/ WriteOutput(p) \/ Finalize(p)
    \/ RemovePayloads(p) \/ LoadManifest(p) \/ WriteManifest(p) \/ Kill(p)

Next ==
    \/ \E t \in TableSet : ReplaceSections(t)
    \/ \E version \in Versions, size \in LocalSizes : StartLocal(version, size)
    \/ \E p \in Places : Pass(p)
    \/ StageBatch \/ StartImport \/ InstallManifest \/ InstallOutput
    \/ CheckIdentity \/ InstallTree \/ KillImport

Spec == Init /\ [][Next]_vars

-----------------------------------------------------------------------------
(* The rows of one section tile its text: adjacent, none empty, from the   *)
(* first character to the last; a section SaT does not read is one row.    *)
Tiles(rows, section) ==
    IF section.language \notin Supported
    THEN Len(rows) = 1 /\ rows[1].start = 0 /\ rows[1].end = section.length
    ELSE /\ \A k \in DOMAIN rows :
              /\ rows[k].start < rows[k].end /\ rows[k].status = "split"
              /\ rows[k].start = IF k = 1 THEN 0 ELSE rows[k - 1].end
         /\ IF rows = <<>> THEN section.length = 0 ELSE Last(rows).end = section.length

Exact(t, e, rows) ==
    /\ \A k \in DOMAIN rows :
          /\ rows[k].edition = e /\ rows[k].section \in DOMAIN Sections[t][e]
          /\ k > 1 => rows[k - 1].section <= rows[k].section
    /\ \A i \in DOMAIN Sections[t][e] :
          Tiles(SelectSeq(rows, LAMBDA r : r.section = i), Sections[t][e][i])

(* A table that the next local run would leave alone has, for its present  *)
(* sections, exactly the sentence rows that rebuild them, whatever kills,  *)
(* resumed batches, changed batch sizes, replaced section tables and       *)
(* imported checkpoints came before (v2/sentence_runner.py: _run_project;  *)
(* v2/sentence_checkpoints.py: output_matches).  The one exception is a    *)
(* table an import was in while the local pass was inside it: the two      *)
(* commands take different locks.                                          *)
OnlyMixedSkippedWrong ==
    \A t \in TableSet \ mixed :
        /\ meta["local"][t] # <<>>
        /\ meta["local"][t][1].identity.fingerprint = source["local"][t]
        /\ RecordedOutputMatches("local", t, meta["local"][t][1])
        => Exact(t, source["local"][t], outputs["local"][t][1])

(* The local sentence manifest never loses a region or changes its         *)
(* segmenter, and only a local run changes the entry of a region: "Ensure  *)
(* an incoming sentence manifest only appends verified regions"            *)
(* (grid5000/sentence_protocol.py: validate_manifest_extension).           *)
ManifestKept ==
    [][manifest["local"] # <<>> =>
          LET before == manifest["local"][1]
              after == manifest'["local"][1]
          IN  /\ manifest'["local"] # <<>> /\ after.version = before.version
              /\ \A t \in DOMAIN before.regions :
                    /\ t \in DOMAIN after.regions
                    /\ after.regions[t] = before.regions[t] \/ At("local", "write")]_vars

(* "It validates these items locally: the receipt identity, the schemas,   *)
(* the SHA-256 hashes, the manifest invariants, and the checkpoint         *)
(* identity. It installs the verified output files and checkpoint files    *)
(* atomically." (docs/grid5000-sentence-splitting.md): an import installs  *)
(* no sentence rows of a section table that has been replaced since.       *)
ImportedMatchesSource ==
    [][importer.pc = "outputs" /\ importer'.pc # "idle" =>
          LET t == importer.todo[1]
          IN  source["job"][t] = source["local"][t]]_vars
=============================================================================
