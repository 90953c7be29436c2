------------------------------ MODULE Releases ------------------------------
(***************************************************************************)
(* The two releases an operator makes from a finished data root, and the   *)
(* Hub repositories they share with the synchronisation:                   *)
(*                                                                         *)
(*  - the language release (hf/language_split_publication.py): partition   *)
(*    the text tables of V1 and V2 by language, install the shards and     *)
(*    their manifest locally (io/staged_install.py), then reconcile each   *)
(*    dataset repository in one commit and verify it at that revision;     *)
(*  - the statistics release (hf/stats_release.py): render the card, the   *)
(*    report and the maps, merge the card with the remote one, publish     *)
(*    what changed and verify it.                                          *)
(*                                                                         *)
(* Neither takes the lock of the synchronisation, which may rewrite the    *)
(* source tables and publish its own card at any moment.  No commit names  *)
(* the revision it was computed from.  A process may be killed between any *)
(* two file operations or requests; the disk and the Hub survive.          *)
(*                                                                         *)
(* A row is its index in its table, an artifact's bytes are the edition    *)
(* and the rows it holds, and a digest is the bytes it stands for.         *)
(***************************************************************************)
EXTENDS Integers, Sequences, FiniteSets, SequencesExt

CONSTANTS
    Rows,            \* Rows[t][e]: the raw language values of table t, edition e
    MaxRows,         \* DEFAULT_MAX_ROWS_PER_SHARD
    MaxFiles,        \* MAX_ATOMIC_PUBLICATION_FILES
    EditedVersions,  \* the data roots the synchronisation changes meanwhile
    EditKinds,       \* subset of {"rewrite", "add", "drop"}: what it does to a region
    StatsVersions,   \* the datasets whose statistics are released
    MaxEdits, MaxRuns, MaxFaults

VersionSeq == <<"v1", "v2">>
Versions == {"v1", "v2"}
LanguageTables == <<"documents", "sections">>

ASSUME ReleasesAssumption ==
    /\ MaxRows \in Nat \ {0} /\ MaxFiles \in Nat
    /\ EditKinds \subseteq {"rewrite", "add", "drop"}
    /\ EditedVersions \subseteq Versions /\ StatsVersions \subseteq Versions
    /\ MaxEdits \in Nat /\ MaxRuns \in Nat /\ MaxFaults \in Nat
    /\ \A t \in Range(LanguageTables) : DOMAIN Rows[t] = 0..MaxEdits

VARIABLES
    source,      \* [Versions -> artifacts rewritten so far, in writing order]
    edits,       \* what the synchronisation does: "rewrite" or "add" a region, or
                 \* "drop" the last one with sections
    announced,   \* [Versions -> edition of the card the synchronisation published]
    installed,   \* [Versions -> shards on disk]
    manifest,    \* [Versions -> language manifest on disk, <<>> when absent]
    staged,      \* [Versions -> shards in the staging directory]
    marks,       \* resume markers of the V2 tables
    hub,         \* [Versions -> the revisions of the repository, oldest first]
    reports,     \* [Versions -> last language release-report.json, <<>> when absent]
    lang,        \* the language release
    stats,       \* the statistics release
    runs, faults

world == <<source, edits, announced>>
local == <<installed, manifest, staged, marks>>
vars == <<world, local, hub, reports, lang, stats, runs, faults>>

-----------------------------------------------------------------------------
(* The source tables.  A region's polygons are rewritten first, its text   *)
(* tables next and the processed manifest last; `source` counts these      *)
(* writes, so that it also identifies the bytes an inventory hashes.       *)

Order == <<"polygons", "documents", "sections", "manifest">>
Writes == Len(Order)

EditionAt(position, t) ==
    LET slot == CHOOSE i \in 1..Writes : Order[i] = t
    IN  (position + Writes - slot) \div Writes

(* Of V1 the text tables are optional; one without files is no table of    *)
(* the inventory.                                                          *)
Dropped(position, t) == edits = "drop" /\ t = "sections" /\ EditionAt(position, t) # 0
TablesAt(position) == SelectSeq(LanguageTables, LAMBDA t : ~Dropped(position, t))

RawAt(position, t) == IF Dropped(position, t) THEN <<>> ELSE Rows[t][EditionAt(position, t)]

(* An artifact of a region that the processed manifest does not list yet   *)
(* refuses every inventory; a rewritten region is listed already.          *)
Referenced(v) ==
    edits # "add" \/ EditionAt(source[v], "polygons") = EditionAt(source[v], "manifest")

(* The generators read the files their inventory lists: those of a region  *)
(* added since are not among them.                                         *)
ReadAt(v, planned) == IF edits = "add" THEN planned ELSE source[v]

(* normalize_language.  "null" is a missing value and "EN" stands for a    *)
(* code in capitals.                                                       *)
Unknown == "unknown"
WellFormed == {"en", "fr", "be-tarask"}

normalize_language(value) ==
    LET lowered == IF value = "EN" THEN "en" ELSE value
    IN  IF value \in {"null", "blank"} THEN Unknown
        ELSE IF lowered = "be_x_old" THEN "be-tarask"
        ELSE IF lowered \in {"abstract", "simple"} THEN Unknown
        ELSE IF lowered \in WellFormed THEN lowered ELSE Unknown

Languages(raw) == {normalize_language(raw[i]) : i \in DOMAIN raw}
RowsOf(raw, language) == {i \in DOMAIN raw : normalize_language(raw[i]) = language}
Buckets(raw) == [l \in Languages(raw) |-> Cardinality(RowsOf(raw, l))]

shard_count(rows, size) == (rows + size - 1) \div size

-----------------------------------------------------------------------------
(* The writers: each row, in source order, goes to the open shard of its   *)
(* language; a full shard is closed and the next row opens another one.    *)
(* A shard's path holds the count of shards the inventory predicted.       *)

AppendRow(shards, row, size) ==
    IF shards # <<>> /\ Len(Last(shards)) < size
    THEN Append(Front(shards), Append(Last(shards), row))
    ELSE Append(shards, <<row>>)

Stream(raw, size) ==
    LET Add(open, i) ==
            [open EXCEPT ![normalize_language(raw[i])] = AppendRow(@, i, size)]
    IN  FoldLeft(Add, [l \in Languages(raw) |-> <<>>], [i \in DOMAIN raw |-> i])

Path(t, l, i, n) == <<t, l, i, n>>
NoFiles == <<>>
Union2(f, g) == [x \in DOMAIN f \cup DOMAIN g |-> IF x \in DOMAIN g THEN g[x] ELSE f[x]]
Without(f, S) == [x \in DOMAIN f \ S |-> f[x]]

(* The shards of table t written while the source is at `now`, laid out    *)
(* for the inventory taken at `planned`.                                   *)
Written(v, t, planned, now) ==
    LET raw == RawAt(now, t)
        size == IF v = "v1" THEN Len(raw) + 1 ELSE MaxRows
        open == Stream(raw, size)
        predicted(l) ==
            IF v = "v1" THEN 1 ELSE shard_count(Buckets(RawAt(planned, t))[l], MaxRows)
        at == {<<l, i>> \in Languages(raw) \X DOMAIN raw : i \in DOMAIN open[l]}
        name(x) == Path(t, x[1], x[2] - 1, predicted(x[1]))
    IN  [p \in {name(x) : x \in at} |->
            LET x == CHOOSE y \in at : name(y) = p
            IN  [edition |-> EditionAt(now, t), rows |-> open[x[1]][x[2]]]]

(* What write_table does not survive: a language the inventory lacks.      *)
Predicted(t, planned, now) == Languages(RawAt(now, t)) \subseteq Languages(RawAt(planned, t))

ConservedLanguages(files, t, raw) ==
    LET count(l) == LET at == {p \in DOMAIN files : p[1] = t /\ p[2] = l}
                    IN  FoldLeft(LAMBDA n, p : n + Len(files[p].rows), 0, SetToSeq(at))
    IN  \A l \in Languages(raw) : count(l) = Buckets(raw)[l]

ExpectedFiles(v, planned) ==
    LET shards(t, l) == IF v = "v1" THEN 1
                        ELSE shard_count(Buckets(RawAt(planned, t))[l], MaxRows)
        sized == {<<t, l>> \in Range(LanguageTables) \X (WellFormed \cup {Unknown}) :
                    l \in Languages(RawAt(planned, t))}
    IN  UNION {{Path(x[1], x[2], i, shards(x[1], x[2])) : i \in 0..(shards(x[1], x[2]) - 1)}
                    : x \in sized}

-----------------------------------------------------------------------------
NoCard == [languages |-> {}, edition |-> 0]
FirstRevision == [by |-> "sync", files |-> NoFiles, manifest |-> <<>>, card |-> NoCard,
                  report |-> -1, orphans |-> {}]
Latest(v) == hub[v][Len(hub[v])]
At(v, revision) == hub[v][revision]

Idle == [pc |-> "idle", todo |-> <<>>, planned |-> [v \in Versions |-> 0],
         inventory |-> [v \in Versions |-> 0], tables |-> <<>>,
         fingerprint |-> 0, made |-> NoFiles, backups |-> NoFiles, kept |-> <<>>,
         revision |-> 0, stale |-> {}, lost |-> FALSE, card |-> NoCard, commit |-> 0]
Asleep == [pc |-> "idle", v |-> "v1", edition |-> 0, presence |-> 0, revision |-> 0,
           card |-> NoCard, remote |-> [card |-> <<>>, report |-> -1], commit |-> 0]

Init ==
    /\ source = [v \in Versions |-> 0] /\ edits \in EditKinds
    /\ announced = [v \in Versions |-> 0]
    /\ installed = [v \in Versions |-> NoFiles] /\ manifest = [v \in Versions |-> <<>>]
    /\ staged = [v \in Versions |-> NoFiles]
    /\ marks = [t \in Range(LanguageTables) |-> <<>>]
    /\ hub = [v \in Versions |-> <<FirstRevision>>]
    /\ reports = [v \in Versions |-> <<>>]
    /\ lang = Idle /\ stats = Asleep /\ runs = 0 /\ faults = 0

-----------------------------------------------------------------------------
(* The synchronisation, seen from the releases.  As a bound, it rewrites   *)
(* one of the two data roots.  V2 requires each of its tables.             *)

EditSource(v) ==
    /\ v \in EditedVersions /\ source[v] < MaxEdits * Writes
    /\ edits = "drop" => v = "v1"
    /\ \A other \in Versions \ {v} : source[other] = 0
    /\ source' = [source EXCEPT ![v] = @ + 1]
    /\ UNCHANGED <<edits, announced, local, hub, reports, lang, stats, runs, faults>>

(* The card of a synchronisation is rendered from the tables alone.        *)
SyncCard(v) ==
    LET edition == EditionAt(source[v], "manifest")
    IN  /\ announced[v] < edition
        /\ announced' = [announced EXCEPT ![v] = edition]
        /\ hub' = [hub EXCEPT ![v] = Append(@, [Latest(v) EXCEPT
                        !.by = "sync", !.report = edition,
                        !.card = [languages |-> {}, edition |-> edition]])]
        /\ UNCHANGED <<source, edits, local, reports, lang, stats, runs, faults>>

-----------------------------------------------------------------------------
(* Language release: planning.                                             *)

Version == lang.todo[1]
ContinueWith(step) == lang' = [lang EXCEPT !.pc = step]

(* Both versions fit one commit each before anything is generated.  The    *)
(* manifest and the card are the two other files.                          *)
PlanPublication ==
    /\ lang.pc = "idle" /\ runs < MaxRuns /\ runs' = runs + 1
    /\ lang' = IF \A v \in Versions :
                     Referenced(v) /\ Cardinality(ExpectedFiles(v, source[v])) + 2 <= MaxFiles
               THEN [Idle EXCEPT !.pc = "plan"] ELSE Idle
    /\ UNCHANGED <<world, local, hub, reports, stats, faults>>

(* run_language_split_release takes the inventories again; the language    *)
(* card will list those.                                                   *)
PlanRelease ==
    /\ lang.pc = "plan"
    /\ lang' = IF \A v \in Versions : Referenced(v)
               THEN [lang EXCEPT !.pc = "generate", !.todo = VersionSeq, !.planned = source]
               ELSE Idle
    /\ UNCHANGED <<world, local, hub, reports, stats, runs, faults>>

(* A release that raises leaves what it has written, except that V1's      *)
(* staging directory is removed.                                           *)
ReleaseFails ==
    /\ lang' = Idle
    /\ staged' = [staged EXCEPT !["v1"] = NoFiles]

(* Each generator takes its own inventory, V1 in a fresh staging directory *)
(* and V2 in one that outlives the process.                                *)
Staging(v) == [lang EXCEPT !.pc = "stage", !.tables = TablesAt(source[v]),
                           !.made = NoFiles, !.inventory[v] = source[v]]

GenerateV1 ==
    /\ lang.pc = "generate" /\ Version = "v1"
    /\ IF Referenced("v1")
       THEN lang' = Staging("v1") /\ staged' = [staged EXCEPT !["v1"] = NoFiles]
       ELSE ReleaseFails
    /\ UNCHANGED <<world, installed, manifest, marks, hub, reports, stats, runs, faults>>

GenerateV2 ==
    /\ lang.pc = "generate" /\ Version = "v2"
    /\ IF Referenced("v2") THEN lang' = Staging("v2") /\ UNCHANGED staged ELSE ReleaseFails
    /\ UNCHANGED <<world, installed, manifest, marks, hub, reports, stats, runs, faults>>

-----------------------------------------------------------------------------
(* Staging.                                                                *)

StageV1Table ==
    LET t == lang.tables[1]
        now == ReadAt("v1", lang.inventory["v1"])
        files == Written("v1", t, lang.inventory["v1"], now)
        counted == Buckets(RawAt(now, t)) = Buckets(RawAt(lang.inventory["v1"], t))
    IN  /\ lang.pc = "stage" /\ Version = "v1" /\ lang.tables # <<>>
        /\ IF counted
           THEN /\ staged' = [staged EXCEPT !["v1"] = Union2(@, files)]
                /\ lang' = [lang EXCEPT !.tables = Tail(@), !.made = Union2(@, files)]
           ELSE ReleaseFails
        /\ UNCHANGED <<world, installed, manifest, marks, hub, reports, stats, runs, faults>>

(* The bytes of the table and the layout the inventory gives it.           *)
TableFingerprint(t) ==
    <<EditionAt(ReadAt("v2", lang.inventory["v2"]), t), Buckets(RawAt(lang.inventory["v2"], t))>>

MarkValidUnbound(t, fingerprint) ==
    /\ marks[t] # <<>> /\ DOMAIN marks[t][1].files \subseteq DOMAIN staged["v2"]

MarkValid(t, fingerprint) ==
    /\ marks[t] # <<>> /\ marks[t][1].fingerprint = fingerprint
    /\ DOMAIN marks[t][1].files \subseteq DOMAIN staged["v2"]

FingerprintV2Table ==
    LET t == lang.tables[1]
    IN  /\ lang.pc = "stage" /\ Version = "v2" /\ lang.tables # <<>>
        /\ lang' = IF MarkValid(t, TableFingerprint(t))
                   THEN [lang EXCEPT !.tables = Tail(@), !.made = Union2(@, marks[t][1].files)]
                   ELSE [lang EXCEPT !.pc = "write", !.fingerprint = TableFingerprint(t)]
        /\ UNCHANGED <<world, local, hub, reports, stats, runs, faults>>

(* The shards replace their predecessors one by one when the writers       *)
(* close: a kill leaves some of them.                                      *)
WriteV2Table ==
    LET t == lang.tables[1]
        now == ReadAt("v2", lang.inventory["v2"])
        files == Written("v2", t, lang.inventory["v2"], now)
    IN  /\ lang.pc = "write"
        /\ IF Predicted(t, lang.inventory["v2"], now)
           THEN \/ /\ staged' = [staged EXCEPT !["v2"] = Union2(@, files)]
                   /\ lang' = [lang EXCEPT !.pc = "mark", !.made = Union2(@, files)]
                   /\ UNCHANGED faults
                \/ /\ faults < MaxFaults /\ faults' = faults + 1 /\ lang' = Idle
                   /\ \E done \in SUBSET DOMAIN files :
                        staged' = [staged EXCEPT !["v2"] =
                                    Union2(@, Without(files, DOMAIN files \ done))]
           ELSE ReleaseFails /\ UNCHANGED faults
        /\ UNCHANGED <<world, installed, manifest, marks, hub, reports, stats, runs>>

MarkV2Table ==
    LET t == lang.tables[1]
        files == Without(lang.made, {p \in DOMAIN lang.made : p[1] # t})
    IN  /\ lang.pc = "mark"
        /\ marks' = [marks EXCEPT ![t] =
                        <<[fingerprint |-> lang.fingerprint, files |-> files]>>]
        /\ lang' = [lang EXCEPT !.pc = "stage", !.tables = Tail(@)]
        /\ UNCHANGED <<world, installed, manifest, staged, hub, reports, stats, runs, faults>>

(* V2 hashes its sources again and counts its shards; V1 has counted only. *)
SourceUnchanged(v) ==
    \/ v = "v1"
    \/ /\ Referenced(v) /\ source[v] = lang.inventory[v]
       /\ \A t \in Range(LanguageTables) :
             ConservedLanguages(lang.made, t, RawAt(source[v], t))

-----------------------------------------------------------------------------
(* Installation: move every target aside, the manifest last, then move the *)
(* staged files in, the manifest last.  An error undoes it all; a kill     *)
(* does not.                                                               *)

ManifestOf == <<[files |-> lang.made, source |-> lang.inventory[Version]]>>
Previous(v) == IF manifest[v] = <<>> THEN {} ELSE DOMAIN manifest[v][1].files
Targets(v) == (DOMAIN lang.made \cup Previous(v)) \cap DOMAIN installed[v]
One(S) == CHOOSE x \in S : TRUE

StartInstall ==
    /\ lang.pc = "stage" /\ lang.tables = <<>>
    /\ IF SourceUnchanged(Version)
       THEN ContinueWith("backup") /\ UNCHANGED staged
       ELSE ReleaseFails
    /\ UNCHANGED <<world, installed, manifest, marks, hub, reports, stats, runs, faults>>

BackupWithoutManifest ==
    LET v == Version
        p == One(Targets(v))
    IN  /\ lang.pc = "backup"
        /\ IF Targets(v) # {}
           THEN /\ lang' = [lang EXCEPT !.backups = Union2(@, [x \in {p} |-> installed[v][p]])]
                /\ installed' = [installed EXCEPT ![v] = Without(@, {p})]
                /\ UNCHANGED manifest
           ELSE /\ lang' = [lang EXCEPT !.pc = "install", !.kept = manifest[v]]
                /\ UNCHANGED <<installed, manifest>>
        /\ UNCHANGED <<world, staged, marks, hub, reports, stats, runs, faults>>

Backup ==
    LET v == Version
        p == One(Targets(v))
    IN  /\ lang.pc = "backup"
        /\ IF Targets(v) # {}
           THEN /\ lang' = [lang EXCEPT !.backups = Union2(@, [x \in {p} |-> installed[v][p]])]
                /\ installed' = [installed EXCEPT ![v] = Without(@, {p})]
                /\ UNCHANGED manifest
           ELSE /\ lang' = [lang EXCEPT !.pc = "install", !.kept = manifest[v]]
                /\ manifest' = [manifest EXCEPT ![v] = <<>>]
                /\ UNCHANGED installed
        /\ UNCHANGED <<world, staged, marks, hub, reports, stats, runs, faults>>

Install ==
    LET v == Version
        missing == DOMAIN lang.made \ DOMAIN installed[v]
    IN  /\ lang.pc = "install"
        /\ IF missing # {}
           THEN /\ installed' = [installed EXCEPT ![v] =
                                    Union2(@, [x \in {One(missing)} |-> staged[v][x]])]
                /\ staged' = [staged EXCEPT ![v] = Without(@, {One(missing)})]
                /\ UNCHANGED <<manifest, lang>>
           ELSE /\ manifest' = [manifest EXCEPT ![v] = ManifestOf]
                /\ ContinueWith("cleanup") /\ UNCHANGED <<installed, staged>>
        /\ UNCHANGED <<world, marks, hub, reports, stats, runs, faults>>

(* restore_files and cleanup_transaction after an OSError.                 *)
InstallError ==
    LET v == Version
        moved == IF lang.pc = "install" THEN DOMAIN lang.made \cap DOMAIN installed[v] ELSE {}
    IN  /\ lang.pc \in {"backup", "install"} /\ faults < MaxFaults
        /\ faults' = faults + 1
        /\ installed' = [installed EXCEPT ![v] = Union2(Without(@, moved), lang.backups)]
        /\ manifest' = IF lang.pc = "install"
                       THEN [manifest EXCEPT ![v] = lang.kept] ELSE manifest
        /\ staged' = [staged EXCEPT ![v] = Without(@, DOMAIN lang.made), !["v1"] = NoFiles]
        /\ lang' = Idle
        /\ UNCHANGED <<world, marks, hub, reports, stats, runs>>

(* The backups go, and with them V2's staging directory and its markers.   *)
Cleanup ==
    /\ lang.pc = "cleanup"
    /\ staged' = [staged EXCEPT ![Version] = NoFiles]
    /\ marks' = IF Version = "v2" THEN [t \in DOMAIN marks |-> <<>>] ELSE marks
    /\ lang' = [Idle EXCEPT
                    !.planned = lang.planned,
                    !.pc = IF Tail(lang.todo) = <<>> THEN "inspect" ELSE "generate",
                    !.todo = IF Tail(lang.todo) = <<>> THEN VersionSeq ELSE Tail(lang.todo)]
    /\ UNCHANGED <<world, installed, manifest, hub, reports, stats, runs, faults>>

-----------------------------------------------------------------------------
(* Language release: publication.                                          *)

(* The generated files are those of the manifest this run installed.       *)
Generated(v) == manifest[v][1].files
Planned(v) == [p \in DOMAIN Generated(v) |-> installed[v][p]]

Configurations(v) ==
    UNION {{<<t, l>> : l \in Languages(RawAt(lang.planned[v], t))} : t \in Range(LanguageTables)}

(* merge_language_card replaces the managed section and the managed block  *)
(* of the front matter.                                                    *)
merge_language_card(card, v) == [card EXCEPT !.languages = Configurations(v)]

(* What the manifest of a revision owns there and the plan has no longer.  *)
Retired(revision, v) ==
    LET owned == IF revision.manifest = <<>> THEN {} ELSE DOMAIN revision.manifest[1].files
    IN  (owned \cap DOMAIN revision.files) \ DOMAIN Planned(v)

(* _is_managed_language_path: a path of a table the plan does not have is  *)
(* not managed.                                                            *)
Managed(v, p) == p[1] \in Range(TablesAt(lang.planned[v]))

StaleNever(revision, v) == {}

Stale(revision, v) == {p \in Retired(revision, v) : Managed(v, p)}

(* The read of the old manifest is optional: any error reads as absent.    *)
Inspect ==
    LET v == Version
        now == Latest(v)
    IN  /\ lang.pc = "inspect"
        /\ \E lost \in BOOLEAN :
             /\ lost => now.manifest # <<>> /\ faults < MaxFaults
             /\ lang' = [lang EXCEPT !.pc = "commit", !.revision = Len(hub[v]), !.lost = lost,
                                     !.stale = IF lost THEN {} ELSE Stale(now, v),
                                     !.card = merge_language_card(now.card, v)]
             /\ faults' = IF lost THEN faults + 1 ELSE faults
        /\ UNCHANGED <<world, local, hub, reports, stats, runs>>

(* What differs from the inspected revision is added to the head and the   *)
(* stale paths it still has are deleted, in one commit.                    *)
Added(v) ==
    LET seen == At(v, lang.revision)
    IN  Without(Planned(v), {p \in DOMAIN Planned(v) :
                               p \in DOMAIN seen.files /\ seen.files[p] = Planned(v)[p]})
CardAdded(v) == At(v, lang.revision).card # lang.card
ManifestAdded(v) == At(v, lang.revision).manifest # manifest[v]
Deleted(v) == lang.stale \cap DOMAIN Latest(v).files
Operations(v) == DOMAIN Added(v) # {} \/ CardAdded(v) \/ ManifestAdded(v) \/ lang.stale # {}
Remaining(v) == DOMAIN Added(v) # {} \/ CardAdded(v) \/ ManifestAdded(v) \/ Deleted(v) # {}

(* Ghost: the retired files this release knows nothing of, because it has  *)
(* not read the manifest or does not manage their table.                   *)
Overlooked(v) == {p \in Retired(At(v, lang.revision), v) : lang.lost \/ ~Managed(v, p)}

Reconciled(v) ==
    [Latest(v) EXCEPT !.by = "language",
                    !.files = Union2(Without(@, Deleted(v)), Added(v)),
                    !.orphans = (@ \ DOMAIN Planned(v)) \cup Overlooked(v),
                    !.manifest = IF ManifestAdded(v) THEN manifest[v] ELSE @,
                    !.card = IF CardAdded(v) THEN lang.card ELSE @]

(* create_commit may be refused, and may succeed without the client        *)
(* hearing of it: both raise.                                              *)
Commit ==
    LET v == Version
    IN  /\ lang.pc = "commit"
        /\ IF ~Remaining(v)
           THEN /\ lang' = [lang EXCEPT !.pc = "verify",
                              !.commit = IF Operations(v) THEN Len(hub[v]) ELSE lang.revision]
                /\ UNCHANGED <<hub, faults>>
           ELSE \/ /\ hub' = [hub EXCEPT ![v] = Append(@, Reconciled(v))]
                   /\ lang' = [lang EXCEPT !.pc = "verify", !.commit = Len(hub[v]) + 1]
                   /\ UNCHANGED faults
                \/ /\ faults < MaxFaults /\ faults' = faults + 1 /\ lang' = Idle
                   /\ hub' \in {hub, [hub EXCEPT ![v] = Append(@, Reconciled(v))]}
        /\ UNCHANGED <<world, local, reports, stats, runs>>

Verified(v) ==
    LET seen == At(v, lang.commit)
    IN  /\ \A p \in DOMAIN Planned(v) :
              p \in DOMAIN seen.files /\ seen.files[p] = Planned(v)[p]
        /\ seen.manifest = manifest[v] /\ seen.card = lang.card
        /\ lang.stale \cap DOMAIN seen.files = {}

Verify ==
    LET v == Version
        done == Tail(lang.todo) = <<>>
    IN  /\ lang.pc = "verify"
        /\ IF Verified(v)
           THEN /\ reports' = [reports EXCEPT ![v] = <<[revision |-> lang.commit]>>]
                /\ lang' = IF done THEN Idle
                           ELSE [Idle EXCEPT !.pc = "inspect", !.todo = Tail(lang.todo),
                                             !.planned = lang.planned]
           ELSE lang' = Idle /\ UNCHANGED reports
        /\ UNCHANGED <<world, local, hub, stats, runs, faults>>

(* The process is killed.  V1's staging directory has a new name each time.*)
Kill ==
    /\ lang.pc # "idle" /\ faults < MaxFaults /\ faults' = faults + 1
    /\ ReleaseFails
    /\ UNCHANGED <<world, installed, manifest, marks, hub, reports, stats, runs>>

-----------------------------------------------------------------------------
(* Statistics release.                                                     *)

(* build_provenance: the polygon table has the rows its manifest declares. *)
DeclaredRows(v) == EditionAt(source[v], "polygons") = EditionAt(source[v], "manifest")

LoadStats(v) ==
    /\ stats.pc = "idle" /\ runs < MaxRuns /\ runs' = runs + 1
    /\ stats' = IF DeclaredRows(v)
                THEN [Asleep EXCEPT !.pc = "remote", !.v = v,
                                    !.edition = EditionAt(source[v], "polygons")]
                ELSE Asleep
    /\ UNCHANGED <<world, local, hub, reports, lang, faults>>

(* load_remote_state: an error reads as "no remote card to merge".         *)
LoadRemote ==
    LET seen == Latest(stats.v)
    IN  /\ stats.pc = "remote"
        /\ \E card \in {<<seen.card>>, <<>>} :
             /\ card = <<>> => faults < MaxFaults
             /\ stats' = [stats EXCEPT !.pc = "snapshot", !.revision = Len(hub[stats.v]),
                                       !.remote = [card |-> card, report |-> seen.report]]
             /\ faults' = IF card = <<>> THEN faults + 1 ELSE faults
        /\ UNCHANGED <<world, local, hub, reports, lang, runs>>

(* The snapshot scans the text documents for the headline and, later, for  *)
(* the continent table.  The card is refused when the two disagree.        *)
ScanPresence ==
    /\ stats.pc = "snapshot"
    /\ stats' = [stats EXCEPT !.pc = "render",
                              !.presence = EditionAt(source[stats.v], "documents")]
    /\ UNCHANGED <<world, local, hub, reports, lang, runs, faults>>

ConsistentTextCoverage == stats.presence = EditionAt(source[stats.v], "documents")
GeneratedCard == [languages |-> {}, edition |-> stats.presence]

(* merge_release_card: the generated sections, with the remote language    *)
(* section and the remote front matter.                                    *)
merge_release_card(existing, generated) ==
    IF existing = <<>> THEN generated
    ELSE [generated EXCEPT !.languages = existing[1].languages]

Render ==
    /\ stats.pc = "render"
    /\ stats' = IF ConsistentTextCoverage
                THEN [stats EXCEPT !.pc = "apply",
                                   !.card = merge_release_card(stats.remote.card, GeneratedCard)]
                ELSE Asleep
    /\ UNCHANGED <<world, local, hub, reports, lang, runs, faults>>

CardChanged == stats.remote.card # <<stats.card>>
ReportChanged == stats.remote.report # stats.edition

Released(revision) ==
    [revision EXCEPT !.by = "stats",
                     !.card = IF CardChanged THEN stats.card ELSE @,
                     !.report = IF ReportChanged THEN stats.edition ELSE @]

Apply ==
    LET v == stats.v
    IN  /\ stats.pc = "apply"
        /\ IF ~CardChanged /\ ~ReportChanged
           THEN stats' = Asleep /\ UNCHANGED <<hub, faults>>
           ELSE \/ /\ hub' = [hub EXCEPT ![v] = Append(@, Released(Latest(v)))]
                   /\ stats' = [stats EXCEPT !.pc = "check", !.commit = Len(hub[v]) + 1]
                   /\ UNCHANGED faults
                \/ /\ faults < MaxFaults /\ faults' = faults + 1 /\ stats' = Asleep
                   /\ hub' \in {hub, [hub EXCEPT ![v] = Append(@, Released(Latest(v)))]}
        /\ UNCHANGED <<world, local, reports, lang, runs>>

(* verify_uploaded_files: a mismatch raises; either way the run ends.      *)
CheckRelease ==
    /\ stats.pc = "check" /\ stats' = Asleep
    /\ UNCHANGED <<world, local, hub, reports, lang, runs, faults>>

-----------------------------------------------------------------------------
Next ==
    \/ \E v \in Versions : EditSource(v) \/ SyncCard(v)
    \/ PlanPublication \/ PlanRelease \/ GenerateV1 \/ GenerateV2
    \/ StageV1Table \/ FingerprintV2Table \/ WriteV2Table \/ MarkV2Table
    \/ StartInstall \/ Backup \/ Install \/ InstallError \/ Cleanup
    \/ Inspect \/ Commit \/ Verify \/ Kill
    \/ \E v \in StatsVersions : LoadStats(v)
    \/ LoadRemote \/ ScanPresence \/ Render \/ Apply \/ CheckRelease

Spec == Init /\ [][Next]_vars

-----------------------------------------------------------------------------
(* The language manifest on disk never describes bytes other than those at *)
(* the path it names: whatever kill, error or resumed staging came before, *)
(* a listed shard is the one whose digest the manifest records, or was     *)
(* moved aside by an installation (io/staged_install.py:                   *)
(* install_staged_files; v2/language_split_resume.py).                     *)
ManifestNamesItsBytes ==
    \A v \in Versions : manifest[v] # <<>> =>
        \A p \in DOMAIN manifest[v][1].files :
            \/ p \in DOMAIN installed[v] /\ installed[v][p] = manifest[v][1].files[p]
            \/ p \notin DOMAIN installed[v]

(* A verified language release of V2 holds every row of the inventoried    *)
(* tables in exactly one of the shards a reader's `part-*` pattern finds   *)
(* at that revision, orphans apart: shards of an earlier release that one  *)
(* without its manifest (a lost read) has left behind, which may repeat a  *)
(* row (v2/language_splits.py: build_v2_language_splits,                   *)
(* hf/language_split_remote.py: verify_remote_publication).                *)
OnlyOrphansRepeatRows ==
    reports["v2"] # <<>> =>
        LET seen == hub["v2"][reports["v2"][1].revision]
            origin == seen.manifest[1].source
        IN  \A t \in Range(LanguageTables) : \A i \in DOMAIN RawAt(origin, t) :
                LET holders == {p \in DOMAIN seen.files \ seen.orphans : p[1] = t /\
                                  i \in Range(seen.files[p].rows)}
                IN  /\ Cardinality(holders) = 1
                    /\ \A p \in holders :
                         /\ seen.files[p].edition = EditionAt(origin, t)
                         /\ p[2] = normalize_language(RawAt(origin, t)[i])

(* A verified release of either version leaves no language file that its   *)
(* manifest does not list, so that the next release can retire it, but for *)
(* the files a release could not retire: it had not read the manifest that *)
(* lists them, or their table had left the inventory                       *)
(* (hf/language_split_remote.py: stale_language_files).                    *)
OnlyOrphansUnlisted ==
    \A v \in Versions : reports[v] # <<>> =>
        LET seen == hub[v][reports[v][1].revision]
            listed == seen.manifest[1].files
        IN  /\ DOMAIN listed \subseteq DOMAIN seen.files
            /\ \A p \in DOMAIN seen.files :
                  p \in seen.orphans \/ (p \in DOMAIN listed /\ seen.files[p] = listed[p])

(* The card of a verified release offers a reader exactly the languages    *)
(* that have files (hf/language_split_publication.py:                      *)
(* _configuration_languages).                                              *)
CardMatchesFiles ==
    \A v \in Versions : reports[v] # <<>> =>
        LET seen == hub[v][reports[v][1].revision]
        IN  seen.card.languages = {<<p[1], p[2]>> : p \in DOMAIN seen.files}

(* "a statistics release must never drop the published language partitions *)
(* from the Viewer" (hf/_stats_release/card_merge.py: merge_release_card). *)
StatsKeepLanguages ==
    \A v \in Versions : \A i \in 2..Len(hub[v]) :
        hub[v][i].by = "stats" =>
            hub[v][i].card.languages = hub[v][i - 1].card.languages
=============================================================================
