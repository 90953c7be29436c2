---------------------------- MODULE Augmentation ----------------------------
(***************************************************************************)
(* What `sync-dir` does to the tables of a region outside the extraction   *)
(* itself: the migration of the old articles table to the canonical        *)
(* Wikipedia document table (augmentation/_wikipedia_document_migration),  *)
(* the persistence of a processed PBF (pipeline/persistence.py), the       *)
(* augmentation with its phase checkpoints and its five sidecars           *)
(* (augmentation/orchestrator.py, steps.py, checkpoints.py, integrity.py), *)
(* and the retirement of the articles table, before publication by the     *)
(* main thread and after the upload by the worker thread                   *)
(* (augmentation/wikipedia_retirement.py, cli/sync_publication.py).        *)
(*                                                                         *)
(* Both threads read, change and rewrite the same two JSON manifests       *)
(* without a lock.  The process may be killed between any two file         *)
(* operations; files, saved phases, the pending set and the upload queue   *)
(* survive.                                                                *)
(*                                                                         *)
(* A document is [id, rev]; a polygon is the set of QIDs of its tag.  A    *)
(* table is File(rows) or Missing, and a hash is the content it stands for.*)
(* The transaction of the link migration, the retries of an upload and the *)
(* integrity repair are the subject of LinkMigration, UploadQueue and      *)
(* WikidataRecovery.                                                       *)
(***************************************************************************)
EXTENDS Integers, Sequences, FiniteSets, Functions

CONSTANTS
    RegionSeq,     \* the regions in alphabetical order
    OldLayout,     \* those that start with the tables of an earlier release
    Tags,          \* Tags[e]: the polygons an extraction of edition e finds
    Articles,      \* Articles[e]: the articles it finds, each [page, rev]
    Voyages,       \* Voyages[u]: the QIDs with a Wikivoyage page at time u
    ForceModes,    \* the values of "--force or no --skip-existing" explored
    MaxRuns

Regions == Range(RegionSeq)
Editions == DOMAIN Tags
Upstream == DOMAIN Voyages
Threads == {"main", "worker"}

ASSUME AugmentationAssumption ==
    /\ OldLayout \subseteq Regions /\ MaxRuns \in Nat /\ ForceModes \subseteq BOOLEAN
    /\ Len(Tags) > 0 /\ Len(Articles) = Len(Tags) /\ Len(Voyages) > 0

VARIABLES
    edition, upstream,        \* what PBFs and Wikipedia, and Wikivoyage, hold now
    polygons, articles,       \* [Regions -> edition of the table, 0 when missing]
    links,                    \* the link table: canonical schema or not, edition
    documents,                \* the Wikipedia document table: schema and rows
    sidecars,                 \* sections, voyage, voyageSections, facts
    processed,                \* processed_pbfs.json: "none", "articles", "documents"
    manifest,                 \* augmentation_manifest.json: core hashes, link fields
    saved,                    \* phases saved by AugmentationCheckpointStore
    pending, queue,           \* durable publication intent and upload queue
    pc, plan, at, work,       \* the main thread
    mode,                     \* the command: force, push
    retire,                   \* [Threads -> step of prepare/finalize_local_retirement,
                              \*  and the edition of the articles it has checked]
    snapshot,                 \* [Threads -> the manifest a thread has read]
    blocked,                  \* the last run refused to start
    halfWritten,              \* ghost: regions with tables of two augmentations
    runs

world == <<edition, upstream>>
tables == <<polygons, articles, links, documents, sidecars, halfWritten>>
manifests == <<processed, manifest>>
intent == <<pending, queue>>
main == <<pc, plan, at, work, mode>>
threads == <<retire, snapshot>>
vars == <<world, tables, manifests, saved, intent, main, threads, blocked, runs>>

-----------------------------------------------------------------------------
Missing == <<>>
File(rows) == <<rows>>
Rows(file) == file[1]

NoDocuments == [schema |-> "none", rows |-> {}]
Canonical(rows) == [schema |-> "canonical", rows |-> rows]
NoEntry == [source |-> "none", docs |-> {}, polygons |-> 0, link |-> FALSE]
NoSidecars == [sections |-> Missing, voyage |-> Missing, voyageSections |-> Missing,
               facts |-> Missing]
NoWork == [source |-> "none", docs |-> {}, polygons |-> 0, entities |-> {}, voyage |-> {},
           sections |-> {}, facts |-> {}, written |-> 0, rejected |-> {}]
Phases == {"entities", "voyage", "sections", "facts"}
NoMode == [force |-> FALSE, push |-> FALSE]
Idle == [region |-> "none", step |-> "idle", checked |-> 0]

QidsOf(e) == UNION Tags[e]

(* QIDs that are the whole tag of a polygon (read_polygon_wikidata_set).   *)
RawValues(e) == {q \in QidsOf(e) : {q} \in Tags[e]}

(* document_id, which tells the projects apart.                            *)
DocumentId(project, key) == <<project, key>>
Ids(rows) == {d.id : d \in rows}
QidOf(document) == document.id[2]

(* wikipedia_document_from_article_row.                                    *)
DocumentFromArticle(row) == [id |-> DocumentId("wikipedia", row.page), rev |-> row.rev]

(* parse_sections: the lead and a heading of each document, with the       *)
(* identity and the revision of the document.                              *)
SectionsOf(docs) == UNION {{[id |-> d.id, rev |-> d.rev, index |-> i] : i \in 0..1} : d \in docs}

(* The articles table as document rows (build_wikipedia_document_table).   *)
ConvertedTable(e) == {DocumentFromArticle(row) : row \in Articles[e]}
Converted(r) == ConvertedTable(articles[r])

Init ==
    LET old(r) == r \in OldLayout IN
    /\ edition = 1 /\ upstream = 1
    /\ polygons = [r \in Regions |-> IF old(r) THEN 1 ELSE 0]
    /\ articles = [r \in Regions |-> IF old(r) THEN 1 ELSE 0]
    /\ links = [r \in Regions |-> [canonical |-> old(r), edition |-> polygons[r]]]
    /\ documents = [r \in Regions |->
          IF old(r) THEN [schema |-> "legacy", rows |-> ConvertedTable(1)] ELSE NoDocuments]
    /\ sidecars = [r \in Regions |->
          IF old(r) THEN [sections |-> File(SectionsOf(ConvertedTable(1))), voyage |-> File({}),
                          voyageSections |-> File({}), facts |-> File({})]
          ELSE NoSidecars]
    /\ processed = [r \in Regions |-> IF old(r) THEN "articles" ELSE "none"]
    /\ manifest = [r \in Regions |->
          IF old(r) THEN [source |-> "articles", docs |-> ConvertedTable(1), polygons |-> 1,
                          link |-> TRUE]
          ELSE NoEntry]
    /\ saved = [r \in Regions |-> [phase \in Phases |-> {}]]
    /\ pending = {} /\ queue = <<>>
    /\ pc = "idle" /\ plan = <<>> /\ at = 1 /\ work = NoWork /\ mode = NoMode
    /\ retire = [t \in Threads |-> Idle]
    /\ snapshot = [t \in Threads |-> <<>>]
    /\ blocked = FALSE /\ halfWritten = {} /\ runs = 0

-----------------------------------------------------------------------------
(* Which table is the source of a region's documents, and whether its      *)
(* augmentation is current.                                                *)

(* read_source_path: a canonical table wins over the articles table, and   *)
(* so does any table when there is no articles table.                      *)
ReadSource(r) ==
    IF documents[r].schema = "canonical" \/ (documents[r] # NoDocuments /\ articles[r] = 0)
    THEN "documents"
    ELSE IF articles[r] # 0 THEN "articles" ELSE "none"

SourceRows(r, source) ==
    IF source = "documents" THEN documents[r].rows
    ELSE IF source = "articles" /\ articles[r] # 0 THEN Converted(r) ELSE {}

SourceExists(r, source) ==
    (source = "documents" /\ documents[r] # NoDocuments) \/ (source = "articles" /\ articles[r] # 0)

SidecarsExist(r) ==
    /\ documents[r] # NoDocuments
    /\ \A name \in DOMAIN sidecars[r] : sidecars[r][name] # Missing

(* _core_hashes_are_current: the recorded files are there and unchanged.   *)
CoreHashesCurrent(r) ==
    /\ SourceExists(r, manifest[r].source)
    /\ SourceRows(r, manifest[r].source) = manifest[r].docs
    /\ polygons[r] = manifest[r].polygons

(* _link_artifacts_are_current: an entry without link fields passes.       *)
LinkArtifactsCurrent(r) == manifest[r].link => links[r].canonical

AugmentationIsCurrent(r) ==
    /\ manifest[r] # NoEntry /\ SidecarsExist(r)
    /\ LinkArtifactsCurrent(r) /\ CoreHashesCurrent(r)

-----------------------------------------------------------------------------
(* run_pre_publication_migration.                                          *)

(* Mutant: identities are compared, not rows.                              *)
PreservesIdentities(r) == Ids(Converted(r)) \subseteq Ids(documents[r].rows)

(* _assert_canonical_preserves_legacy: every article row is a row of the   *)
(* document table.                                                         *)
PreservesLegacy(r) == Converted(r) \subseteq documents[r].rows

(* _classify_stem, for a region that still has an articles table.          *)
CanonicalPlan(r) == IF PreservesLegacy(r) THEN "already" ELSE "blocked"

(* _check_shared_values: the legacy table has the values of the articles.  *)
SharedValuesAgree(r) == documents[r].rows = Converted(r)

LegacyPlan(r) == IF SharedValuesAgree(r) THEN "upgrade" ELSE "blocked"

Classified(r) ==
    CASE documents[r] = NoDocuments -> "create"
      [] documents[r].schema = "canonical" -> CanonicalPlan(r)
      [] documents[r].schema = "legacy" -> LegacyPlan(r)

MigrationStems == {r \in Regions : articles[r] # 0}
BlockedStems == {r \in MigrationStems : Classified(r) = "blocked"}
ToPersist == {r \in MigrationStems : Classified(r) \in {"create", "upgrade"}}

(* A step of a plan, and whether its region's publication was owed then.   *)
Step(region, action) == [region |-> region, action |-> action, owed |-> region \in pending]

(* One action for these regions, in alphabetical order.                    *)
Steps(action, these) ==
    LET sorted == SelectSeq(RegionSeq, LAMBDA r : r \in these)
    IN [i \in DOMAIN sorted |-> Step(sorted[i], action)]

(* Planned read-only; one blocked region stops the run before anything is  *)
(* written.  The intent to publish is recorded before the first write.     *)
BeginRun(forced, pushed) ==
    /\ pc = "idle" /\ runs < MaxRuns
    /\ runs' = runs + 1
    /\ IF BlockedStems # {}
       THEN /\ blocked' = TRUE
            /\ UNCHANGED <<pending, main>>
       ELSE /\ blocked' = FALSE
            /\ pending' = pending \cup ToPersist
            /\ pc' = "revalidate" /\ at' = 1 /\ work' = NoWork
            /\ mode' = [force |-> forced, push |-> pushed]
            /\ plan' = Steps("migrate", ToPersist)
    /\ UNCHANGED <<world, tables, manifests, saved, queue, threads>>

Region == plan[at].region
MainOnly == UNCHANGED <<world, threads, mode, blocked, runs>>

(* _revalidated_actions: nothing is written unless every region is still   *)
(* in the state it was planned in.                                         *)
RevalidatePlan ==
    /\ pc = "revalidate"
    /\ pc' = IF \A i \in DOMAIN plan : plan[i].region \in ToPersist THEN "migrate" ELSE "raised"
    /\ UNCHANGED <<tables, manifests, saved, intent, plan, at, work>>
    /\ MainOnly

(* _rebuild_table_for_write.                                               *)
RebuiltTable(r) == Canonical(Converted(r))

(* _execute_actions: one atomic replacement per region.                    *)
ApplyMigration ==
    /\ pc = "migrate" /\ at <= Len(plan)
    /\ documents' = [documents EXCEPT ![Region] = RebuiltTable(Region)]
    /\ at' = at + 1
    /\ UNCHANGED <<polygons, articles, links, sidecars, halfWritten, manifests, saved, intent, pc,
                   plan, work>>
    /\ MainOnly

(* prepare_local_retirement of every migrated region follows.              *)
Migrated ==
    /\ pc = "migrate" /\ at > Len(plan)
    /\ pc' = "prepare" /\ at' = 1
    /\ UNCHANGED <<tables, manifests, saved, intent, plan, work>>
    /\ MainOnly

-----------------------------------------------------------------------------
(* prepare_local_retirement by either thread, finalize_local_retirement by *)
(* the upload worker.                                                      *)

(* _validate_retirement_inputs.                                            *)
RetirementSafe(r) ==
    /\ documents[r].schema = "canonical"
    /\ articles[r] # 0 => PreservesLegacy(r)
    /\ sidecars[r].sections # Missing =>
          Ids(Rows(sidecars[r].sections)) \subseteq Ids(documents[r].rows)

Retiring(t, step) == retire[t].step = step
ThreadOnly ==
    UNCHANGED <<world, polygons, links, documents, sidecars, halfWritten, saved, intent, main,
                blocked, runs>>

(* The validation, and the reading of processed_pbfs.json.                 *)
ValidateRetirement(t) ==
    /\ Retiring(t, "validate") /\ RetirementSafe(retire[t].region)
    /\ snapshot' = [snapshot EXCEPT ![t] = processed]
    /\ retire' = [retire EXCEPT ![t].step = "processed",
                                ![t].checked = articles[retire[t].region]]
    /\ UNCHANGED <<articles, manifests>>
    /\ ThreadOnly

(* _update_processed_manifest, and the reading of the other manifest.      *)
UpdateProcessed(t) ==
    LET r == retire[t].region IN
    /\ Retiring(t, "processed")
    /\ IF snapshot[t][r] = "none" THEN UNCHANGED processed
       ELSE processed' = [snapshot[t] EXCEPT ![r] = "documents"]
    /\ snapshot' = [snapshot EXCEPT ![t] = manifest]
    /\ retire' = [retire EXCEPT ![t].step = "manifest"]
    /\ UNCHANGED <<articles, manifest>>
    /\ ThreadOnly

(* _update_augmentation_manifest: the hash of the document table as it is  *)
(* now takes the place of the one of the articles table.                   *)
UpdateManifest(t) ==
    LET r == retire[t].region IN
    /\ Retiring(t, "manifest")
    /\ IF snapshot[t][r] = NoEntry THEN UNCHANGED manifest
       ELSE manifest' = [snapshot[t] EXCEPT ![r].source = "documents",
                                            ![r].docs = documents[r].rows]
    /\ retire' = [retire EXCEPT ![t].step = IF t = "worker" THEN "unlink" ELSE "done"]
    /\ snapshot' = [snapshot EXCEPT ![t] = <<>>]
    /\ UNCHANGED <<articles, processed>>
    /\ ThreadOnly

UnlinkArticles ==
    LET r == retire["worker"].region IN
    /\ Retiring("worker", "unlink")
    /\ articles' = [articles EXCEPT ![r] = 0]
    /\ retire' = [retire EXCEPT !["worker"].step = "done"]
    /\ UNCHANGED <<snapshot, manifests>>
    /\ ThreadOnly

Prepare(r) == [Idle EXCEPT !.region = r, !.step = "validate"]

(* The regions that were migrated, then each region before publication.    *)
StartPrepare ==
    /\ pc \in {"prepare", "publish"} /\ at <= Len(plan) /\ retire["main"] = Idle
    /\ retire' = [retire EXCEPT !["main"] = Prepare(Region)]
    /\ UNCHANGED <<world, tables, manifests, saved, intent, main, snapshot, blocked, runs>>

PreparedMigrated ==
    /\ pc = "prepare" /\ Retiring("main", "done")
    /\ at' = at + 1
    /\ retire' = [retire EXCEPT !["main"] = Idle]
    /\ UNCHANGED <<world, tables, manifests, saved, intent, pc, plan, work, mode, snapshot,
                   blocked, runs>>

-----------------------------------------------------------------------------
(* The plan (_action_for_stem) and the processing of a PBF.                *)

(* Without --force every current region is one to audit                    *)
(* (_recovery_audit_stems).                                                *)
ActionFor(r) ==
    IF mode.force \/ processed[r] = "none" THEN "process"
    ELSE IF ~AugmentationIsCurrent(r) THEN "augment" ELSE "recovery"

(* _validate_core_state and _resolve_augmentation_status: the core files   *)
(* and their manifest entry are all there or all missing, and an augmented *)
(* region has documents.                                                   *)
Consistent(r) ==
    LET core == {polygons[r] # 0, links[r].edition # 0, processed[r] # "none"}
    IN  /\ core \in {{TRUE}, {FALSE}}
        /\ manifest[r] # NoEntry => documents[r] # NoDocuments

(* A push run refuses a region in between.                                 *)
PlanSync ==
    LET needing(action) == {r \in Regions : ActionFor(r) = action} IN
    /\ pc = "prepare" /\ at > Len(plan)
    /\ IF mode.push => \A r \in Regions : Consistent(r)
       THEN /\ plan' = Steps("recovery", needing("recovery"))
                        \o Steps("augment", needing("augment"))
                        \o Steps("process", needing("process"))
            /\ at' = 1 /\ pc' = "region"
       ELSE UNCHANGED <<plan, at>> /\ pc' = "raised"
    /\ UNCHANGED <<tables, manifests, saved, intent, work>>
    /\ MainOnly

(* load_existing_augmentation_result.                                      *)
ExistingResult(r) == manifest[r] # NoEntry /\ SidecarsExist(r)

BeginRegion ==
    /\ pc = "region" /\ at <= Len(plan) /\ plan[at].action # "recovery"
    /\ pc' = plan[at].action
    /\ UNCHANGED <<tables, manifests, saved, intent, plan, at, work>>
    /\ MainOnly

(* _recover_healthy: links that are not canonical are migrated; a push run *)
(* loads and publishes a region whose publication was owed.                *)
RecoverHealthy ==
    /\ pc = "region" /\ at <= Len(plan) /\ plan[at].action = "recovery"
    /\ pc' = CASE ~links[Region].canonical -> "links"
               [] links[Region].canonical /\ mode.push /\ plan[at].owed ->
                    IF ExistingResult(Region) THEN "publish" ELSE "drain"
               [] OTHER -> "region"
    /\ at' = IF pc' = "region" THEN at + 1 ELSE at
    /\ UNCHANGED <<tables, manifests, saved, intent, plan, work>>
    /\ MainOnly

(* _replace_persistence_files, one table after the other: polygons, then   *)
(* articles with the links between them.                                   *)
PersistPolygons ==
    /\ pc = "process"
    /\ polygons' = [polygons EXCEPT ![Region] = edition]
    /\ work' = [NoWork EXCEPT !.polygons = edition]
    /\ pc' = "persist"
    /\ UNCHANGED <<articles, links, documents, sidecars, halfWritten, manifests, saved, intent,
                   plan, at>>
    /\ MainOnly

PersistArticles ==
    /\ pc = "persist"
    /\ articles' = [articles EXCEPT ![Region] = work.polygons]
    /\ links' = [links EXCEPT ![Region] = [canonical |-> FALSE, edition |-> work.polygons]]
    /\ pc' = "readProcessed"
    /\ UNCHANGED <<polygons, documents, sidecars, halfWritten, manifests, saved, intent, plan, at,
                   work>>
    /\ MainOnly

(* upsert_entry reads the manifest, changes its entry and writes it back.  *)
ReadProcessed ==
    /\ pc = "readProcessed"
    /\ snapshot' = [snapshot EXCEPT !["main"] = processed]
    /\ pc' = "writeProcessed"
    /\ UNCHANGED <<world, tables, manifests, saved, intent, plan, at, work, mode, retire,
                   blocked, runs>>

WriteProcessed ==
    /\ pc = "writeProcessed"
    /\ processed' = [snapshot["main"] EXCEPT ![Region] = "articles"]
    /\ snapshot' = [snapshot EXCEPT !["main"] = <<>>]
    /\ pc' = "enforceLinks"
    /\ UNCHANGED <<world, tables, manifest, saved, intent, plan, at, work, mode, retire,
                   blocked, runs>>

(* enforce_polygon_articles_integrity: links of another edition than the   *)
(* polygons refer to missing polygons, and end the run.                    *)
EnforceLinks ==
    /\ pc = "enforceLinks"
    /\ pc' = IF links[Region].edition = polygons[Region] THEN "augment" ELSE "drain"
    /\ UNCHANGED <<tables, manifests, saved, intent, plan, at, work>>
    /\ MainOnly

-----------------------------------------------------------------------------
(* augment_region.                                                         *)

(* load_core_inputs: the documents of the source, the polygons, and their  *)
(* hashes.  A region without them ends the run.                            *)
LoadCoreInputs ==
    LET source == ReadSource(Region) IN
    /\ pc = "augment"
    /\ IF SourceExists(Region, source) /\ polygons[Region] # 0
       THEN /\ work' = [NoWork EXCEPT !.source = source, !.polygons = polygons[Region],
                                      !.docs = SourceRows(Region, source)]
            /\ pc' = "entities"
       ELSE work' = NoWork /\ pc' = "drain"
    /\ UNCHANGED <<tables, manifests, saved, intent, plan, at>>
    /\ MainOnly

(* augmentation_plan_key: the directory of the saved phases.               *)
PlanKey == [docs |-> work.docs, polygons |-> work.polygons]

(* load_*: what was saved under this plan for the same expected inputs.    *)
Validated(phase, s) ==
    CASE phase = "entities" -> s.rows \subseteq s.expected
      [] phase = "sections" -> Ids(s.rows) \subseteq Ids(s.expected)
      [] OTHER -> TRUE

Saved(phase, expected) ==
    {s \in saved[Region][phase] :
        s.key = PlanKey /\ s.expected = expected /\ Validated(phase, s)}

Remember(phase, expected, rows) ==
    saved' = [saved EXCEPT ![Region][phase] =
                 {s \in @ : s.key # PlanKey}
                   \cup {[key |-> PlanKey, expected |-> expected, rows |-> rows]}]

(* Load the phase, or do it and save it; then the next.                    *)
PhaseStep(phase, expected, fresh, next) ==
    /\ pc = phase
    /\ IF Saved(phase, expected) # {}
       THEN /\ work' = [work EXCEPT ![phase] = (CHOOSE s \in Saved(phase, expected) : TRUE).rows]
            /\ UNCHANGED saved
       ELSE /\ work' = [work EXCEPT ![phase] = fresh]
            /\ Remember(phase, expected, fresh)
    /\ pc' = next
    /\ UNCHANGED <<tables, manifests, intent, plan, at>>
    /\ MainOnly

(* discover_wikivoyage_sitelinks, of the entities as they are now.         *)
Sitelinks(qids) == qids \cap Voyages[upstream]

(* wikivoyage_document: the current revision of a page that exists.        *)
VoyageDocuments(entities) == 
    {[id |-> DocumentId("wikivoyage", q), rev |-> upstream] : q \in Sitelinks(entities)}

(* resolve_entities: the QIDs whose entity has a Wikivoyage sitelink now.  *)
ResolveEntities ==
    PhaseStep("entities", QidsOf(work.polygons), Sitelinks(QidsOf(work.polygons)), "voyage")

(* fetch_wikivoyage_documents: the current revision of each page.          *)
FetchVoyageDocuments ==
    PhaseStep("voyage", work.entities, VoyageDocuments(work.entities), "sections")

(* fetch_document_sections_batch, of the revisions of the documents.       *)
FetchSections ==
    PhaseStep("sections", work.docs \cup work.voyage, SectionsOf(work.docs \cup work.voyage),
              "facts")

(* normalize_facts, per entity.                                            *)
FactsOf(entities) == {[wikidata |-> q] : q \in entities}

BuildFacts == PhaseStep("facts", work.entities, FactsOf(work.entities), "check")

(* _core_artifacts_unchanged.                                              *)
CoreUnchanged ==
    /\ SourceExists(Region, work.source) /\ SourceRows(Region, work.source) = work.docs
    /\ polygons[Region] = work.polygons

CheckCore ==
    /\ pc \in {"check", "recheck"}
    /\ pc' = IF ~CoreUnchanged THEN "drain" ELSE IF pc = "check" THEN "write" ELSE "integrity"
    /\ UNCHANGED <<tables, manifests, saved, intent, plan, at, work>>
    /\ MainOnly

(* write_sidecars: the document table and the four others, in this order.  *)
SidecarOrder == <<"sections", "voyage", "voyageSections", "facts">>

SidecarRows ==
    [sections |-> {s \in work.sections : s.id \in Ids(work.docs)}, voyage |-> work.voyage,
     voyageSections |-> {s \in work.sections : s.id \in Ids(work.voyage)}, facts |-> work.facts]

WriteSidecar ==
    LET name == SidecarOrder[work.written] IN
    /\ pc = "write"
    /\ IF work.written = 0
       THEN /\ documents' = [documents EXCEPT ![Region] = Canonical(work.docs)]
            /\ UNCHANGED sidecars
       ELSE /\ sidecars' = [sidecars EXCEPT ![Region][name] = File(SidecarRows[name])]
            /\ UNCHANGED documents
    /\ halfWritten' = halfWritten \cup {Region}
    /\ work' = [work EXCEPT !.written = @ + 1]
    /\ pc' = IF work.written = Len(SidecarOrder) THEN "recheck" ELSE "write"
    /\ UNCHANGED <<polygons, articles, links, manifests, saved, intent, plan, at>>
    /\ MainOnly

(* partition_wikivoyage_documents: a document is kept when its QID is the  *)
(* tag of a polygon.                                                       *)
Retained(r) == {d \in Rows(sidecars[r].voyage) : QidOf(d) \in RawValues(polygons[r])}

(* enforce_wikivoyage_integrity rewrites the documents, then drops the     *)
(* sections of those it has rejected.                                      *)
EnforceDocuments ==
    /\ pc = "integrity"
    /\ work' = [work EXCEPT !.rejected =
                   Ids(Rows(sidecars[Region].voyage)) \ Ids(Retained(Region))]
    /\ sidecars' = [sidecars EXCEPT ![Region].voyage = File(Retained(Region))]
    /\ pc' = "cascade"
    /\ UNCHANGED <<polygons, articles, links, documents, halfWritten, manifests, saved, intent,
                   plan, at>>
    /\ MainOnly

CascadeNone ==
    /\ pc = "cascade"
    /\ halfWritten' = halfWritten \ {Region}
    /\ pc' = "readManifest"
    /\ UNCHANGED <<polygons, articles, links, documents, sidecars, manifests, saved, intent, plan,
                   at, work>>
    /\ MainOnly

CascadeSections ==
    /\ pc = "cascade"
    /\ sidecars' = [sidecars EXCEPT ![Region].voyageSections =
                       File({s \in Rows(@) : s.id \notin work.rejected})]
    /\ pc' = "readManifest"
    /\ halfWritten' = halfWritten \ {Region}
    /\ UNCHANGED <<polygons, articles, links, documents, manifests, saved, intent, plan, at, work>>
    /\ MainOnly

(* update_augmentation_manifest reads the manifest and writes it back with *)
(* this region's entry.                                                    *)
ReadManifest ==
    /\ pc = "readManifest"
    /\ snapshot' = [snapshot EXCEPT !["main"] = manifest]
    /\ pc' = "writeManifest"
    /\ UNCHANGED <<world, tables, manifests, saved, intent, plan, at, work, mode, retire,
                   blocked, runs>>

WriteManifest ==
    /\ pc = "writeManifest"
    /\ manifest' = [snapshot["main"] EXCEPT ![Region] =
                       [source |-> work.source, docs |-> work.docs,
                        polygons |-> work.polygons, link |-> FALSE]]
    /\ snapshot' = [snapshot EXCEPT !["main"] = <<>>]
    /\ pc' = "clear"
    /\ UNCHANGED <<world, tables, processed, saved, intent, plan, at, work, mode, retire,
                   blocked, runs>>

ClearSaved ==
    /\ pc = "clear"
    /\ saved' = [saved EXCEPT ![Region] = [phase \in Phases |-> {}]]
    /\ pc' = "links"
    /\ UNCHANGED <<tables, manifests, intent, plan, at, work>>
    /\ MainOnly

(* _augment_documents and _recover_healthy: apply_link_migration of the    *)
(* region unless its links are canonical already, then load the result;    *)
(* only a push run publishes a region that was current.                    *)
MigrateLinks ==
    /\ pc = "links"
    /\ links' = [links EXCEPT ![Region].canonical = TRUE]
    /\ manifest' = [manifest EXCEPT ![Region].link = @ \/ ~links[Region].canonical]
    /\ pc' = IF plan[at].action = "recovery" /\ ~mode.push THEN "region"
             ELSE IF ExistingResult(Region) THEN "publish" ELSE "drain"
    /\ at' = IF pc' = "region" THEN at + 1 ELSE at
    /\ UNCHANGED <<polygons, articles, documents, sidecars, halfWritten, processed, saved, intent,
                   plan, work>>
    /\ MainOnly

-----------------------------------------------------------------------------
(* _prepare_publication, the upload worker, and the end of a run.          *)

(* add_pending_publications once the retirement is prepared.               *)
RecordIntent ==
    /\ pc = "publish" /\ Retiring("main", "done")
    /\ retire' = [retire EXCEPT !["main"] = Idle]
    /\ pending' = pending \cup {Region}
    /\ pc' = "submit"
    /\ UNCHANGED <<world, tables, manifests, saved, queue, plan, at, work, mode, snapshot,
                   blocked, runs>>

(* _maybe_submit: only a push run has a queue.                             *)
SubmitUpload ==
    /\ pc = "submit"
    /\ queue' = IF mode.push THEN Append(queue, Region) ELSE queue
    /\ at' = at + 1 /\ pc' = "region" /\ work' = NoWork
    /\ UNCHANGED <<tables, manifests, saved, pending, plan>>
    /\ MainOnly

(* A retirement that is not safe raises: the main thread ends its run, the *)
(* worker leaves the job.                                                  *)
RetirementFails(t) ==
    /\ Retiring(t, "validate") /\ ~RetirementSafe(retire[t].region)
    /\ retire' = [retire EXCEPT ![t] = Idle]
    /\ pc' = IF t = "worker" THEN pc ELSE IF pc = "prepare" THEN "raised" ELSE "drain"
    /\ UNCHANGED <<world, tables, manifests, saved, intent, plan, at, work, mode, snapshot,
                   blocked, runs>>

(* post_upload_publication_cleanup: the job has been uploaded.  The worker *)
(* starts once the run has been planned.                                   *)
Uploaded(i) ==
    LET r == queue[i] IN
    /\ mode.push /\ pc \notin {"idle", "revalidate", "migrate", "prepare", "raised"}
    /\ retire["worker"] = Idle
    /\ retire' = [retire EXCEPT !["worker"] =
                     IF articles[r] = 0 THEN [Prepare(r) EXCEPT !.step = "done"]
                     ELSE Prepare(r)]
    /\ UNCHANGED <<world, tables, manifests, saved, intent, main, snapshot, blocked, runs>>

Published ==
    LET r == retire["worker"].region
        i == CHOOSE j \in DOMAIN queue : queue[j] = r
    IN
    /\ Retiring("worker", "done")
    /\ pending' = pending \ {r}
    /\ queue' = SubSeq(queue, 1, i - 1) \o SubSeq(queue, i + 1, Len(queue))
    /\ retire' = [retire EXCEPT !["worker"] = Idle]
    /\ UNCHANGED <<world, tables, manifests, saved, main, snapshot, blocked, runs>>

DrainQueue ==
    /\ pc = "region" /\ at > Len(plan)
    /\ pc' = "drain"
    /\ UNCHANGED <<tables, manifests, saved, intent, plan, at, work>>
    /\ MainOnly

Forget ==
    /\ pc' = "idle" /\ plan' = <<>> /\ at' = 1 /\ work' = NoWork /\ mode' = NoMode
    /\ retire' = [t \in Threads |-> Idle] /\ snapshot' = [t \in Threads |-> <<>>]

(* The jobs still queued used up their attempts.                           *)
EndRun ==
    /\ pc \in {"drain", "raised"} /\ retire["worker"] = Idle
    /\ Forget
    /\ UNCHANGED <<world, tables, manifests, saved, intent, blocked, runs>>

Crash ==
    /\ pc # "idle"
    /\ Forget
    /\ UNCHANGED <<world, tables, manifests, saved, intent, blocked, runs>>

(* New PBFs and Wikipedia revisions, and new Wikivoyage pages.             *)
SourcesChange ==
    /\ \/ edition + 1 \in Editions /\ edition' = edition + 1 /\ UNCHANGED upstream
       \/ upstream + 1 \in Upstream /\ upstream' = upstream + 1 /\ UNCHANGED edition
    /\ UNCHANGED <<tables, manifests, saved, intent, main, threads, blocked, runs>>

-----------------------------------------------------------------------------
Retirement(t) == ValidateRetirement(t) \/ UpdateProcessed(t) \/ UpdateManifest(t)
                   \/ RetirementFails(t)

Process ==
    PersistPolygons \/ PersistArticles \/ ReadProcessed \/ WriteProcessed \/ EnforceLinks

Augment ==
    \/ LoadCoreInputs \/ ResolveEntities \/ FetchVoyageDocuments \/ FetchSections \/ BuildFacts
    \/ CheckCore \/ WriteSidecar \/ EnforceDocuments \/ CascadeSections
    \/ ReadManifest \/ WriteManifest \/ ClearSaved \/ MigrateLinks

Main ==
    \/ \E forced \in ForceModes, pushed \in BOOLEAN : BeginRun(forced, pushed)
    \/ RevalidatePlan \/ ApplyMigration \/ Migrated \/ StartPrepare \/ PreparedMigrated
    \/ PlanSync \/ BeginRegion \/ RecoverHealthy \/ Process \/ Augment
    \/ RecordIntent \/ SubmitUpload \/ DrainQueue \/ EndRun

Worker == UnlinkArticles \/ Published \/ \E i \in DOMAIN queue : Uploaded(i)

Next == Main \/ Worker \/ Crash \/ SourcesChange \/ \E t \in Threads : Retirement(t)

Spec == Init /\ [][Next]_vars

-----------------------------------------------------------------------------
(* What a run relies on when it skips a region: the recorded augmentation  *)
(* describes the tables.  The sections are those of the documents, the     *)
(* Wikivoyage sections those of the Wikivoyage documents, and those        *)
(* documents join a polygon of the region, whatever was interrupted,       *)
(* resumed from saved phases, processed again or taken back from the       *)
(* manifest by the other thread (existing_results.augmentation_is_current).*)
(* The one exception is a region that was current when a forced run        *)
(* augmented it again and ended between two of its tables: the entry still *)
(* counts as current, and no later run without --force sees the mixture.   *)
OnlyHalfWrittenInconsistent ==
    pc = "idle" => \A r \in Regions : AugmentationIsCurrent(r) =>
        \/ r \in halfWritten
        \/ /\ Rows(sidecars[r].sections) = SectionsOf(documents[r].rows)
           /\ Rows(sidecars[r].voyageSections) = SectionsOf(Rows(sidecars[r].voyage))
           /\ \A d \in Rows(sidecars[r].voyage) : QidOf(d) \in RawValues(polygons[r])

(* finalize_local_retirement: "Delete a legacy local article only after    *)
(* all safety checks succeed".  When the worker deletes an articles table, *)
(* the document table holds each row of the table it has checked, over     *)
(* runs that were killed while the articles and the documents came from    *)
(* different editions and whatever the main thread rewrote since.  The     *)
(* table it deletes may be a newer one: then the main thread has processed *)
(* the region between the check and the deletion.                          *)
OnlyCheckedArticlesHeld ==
    [][\A r \in Regions : articles[r] # 0 /\ articles'[r] = 0 =>
          ConvertedTable(retire["worker"].checked) \subseteq documents[r].rows]_vars

(* docs/architecture.md: "The command-line workflows are safe to stop and  *)
(* restart": no run is refused because of what an earlier one left.        *)
RestartNeverBlocked == ~blocked
=============================================================================
