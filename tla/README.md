# Formal model of osm-polygon-wikidata-only

The program turns regional OpenStreetMap extracts (PBF files) into tables of
polygons with Wikidata and Wikipedia content, keeps them in a data root, and
publishes them to a Hugging Face dataset repository (the *Hub*). A run takes
hours to days, is stopped and started again, and talks to services that throttle
and fail. Almost everything that is difficult about it is therefore about
*what is on disk when a process dies*, *what two threads do to the same file*,
and *what a reported failure really means*. This directory models that part of
the program in TLA+, checks it with TLC and proves its most important
properties with TLAPS.

Source paths below are relative to `src/osm_polygon_wikidata_only/` unless they
start with `docs/` or `tests/`. `PROJECT.json` has the definition-by-definition
map to source lines, the list of hazards and the list of runs.

Contents: 1 inventory - 2 modules and how they correspond to the code - 3 runs -
4 fairness - 5 proofs - 6 findings and behaviours worth a look - 7 what is not
modelled - 8 plan - 9 how to run.

## 1. Inventory

For every component: its state, its operations, whom it interacts with, what is
hard, and what makes it correct.

### Publishing

**Durable upload queue** (`hf/upload_queue.py`, `_upload_state*.py`,
`_upload_retry.py`)
- State: a directory with one JSON envelope per job, hashed snapshots of the
  files the job uploads, and a high-water mark of sequence numbers; in memory a
  bounded `queue.Queue`, a worker thread and the list of failures.
- Operations: open and resume (also from the format of an older release),
  submit, close, abort, join; in the worker: verify the snapshot, upload with
  retries, delete.
- Interaction: every publishing command submits to one; the worker calls the Hub
  and, when a job is through, the pending-publications file.
- Hard: a crash between any two file operations; a commit that reached the Hub
  and was reported as failed; jobs resumed after newer ones were submitted; a
  full queue; threads that wait for one another.
- Correct when: nothing accepted is lost, nothing else is uploaded, a sequence
  names one job for ever, a region never goes back to older content unless a
  failure was reported, and the blocking calls return.

**Pending publications and asset refresh** (`pipeline/pending_publications.py`,
`cli/sync_publication.py`, `cli/sync_application.py`, `hf/core_publication.py`)
- State: `manifests/pending_migration_publications.json`: the stems (regions)
  whose publication is owed, and the marker, the stems for which the card, the
  statistics and the maps of the whole repository are owed.
- Operations: add and remove stems, defer the refresh, refresh, clear; replacement
  of the file as a whole by a link migration.
- Interaction: written by the main thread and by the upload worker of two
  commands (`sync-dir`, and the processing of a single directory).
- Hard: a read-modify-write around a lock; crashes between upload and refresh.
- Correct when: assets that no longer describe the Hub are on record whichever of the
  two commands made them so, the assets describe what is published, and a recorded
  intent disappears only when it was fulfilled.

**Language and statistics releases** (`hf/language_split*.py`, `v2/language_split*.py`,
`hf/v1_language_splits.py`, `io/staged_install.py`, `hf/stats_release.py`,
`hf/_stats_release/`)
- State: staged tables with a marker per table, the installed shards and their
  manifest, the card; on the Hub the revisions of the two dataset repositories.
- Operations: inventory, generate (or resume a generation), install with backups,
  inspect the repository, commit, verify at the commit's revision; for statistics:
  read the remote card, scan, render, merge, commit what changed, verify.
- Interaction: read tables that a synchronisation may be rewriting; share the card
  with it. No lock is common to them and no commit names a parent revision.
- Hard: a kill inside the installation; a staging directory that outlives its
  sources; the number of shards grows and shrinks from release to release.
- Correct when: the manifest names the bytes that are there, a verified release holds
  every row exactly once and owns every language file on the Hub that it could know of.

**Hub client, cards and maps** (`hf/_uploader/`, `hf/_publication/`,
`hf/_dataset_stats/`, `hf/_geographic/`)
- A commit is atomic on the server; what precedes it (authorization, plan,
  comparison with the remote revision) is sequential. The aggregations are
  numeric code without state.

### Producing

**Unified sync** (`pipeline/sync_runner.py`, `sync_planner.py`,
`sync_planning.py`, `sync_reconciliation.py`, `cli/sync_application.py`,
`hf/reconciliation.py`)
- State: the plan (what each region needs), the phase, the region at hand, one
  extraction submitted ahead of time.
- Operations: plan, augment the backlog, process each new region (extract,
  persist, augment), and for every region the same callbacks: audit and repair,
  migrate links, submit.
- Interaction: drives all the other components; one extraction thread, one upload
  worker.
- Hard: what one step reports decides whether the later ones publish; exceptions
  on three threads; crashes between tables, manifest, intent and queue.
- Correct when: a run that ends well has published all that it changed, although most
  uploads leave the polygons out; a crash leaves at most the region at hand unnoticed
  (and a region of which an older upload is repeated after a newer one); a later run
  accepts what a crash left; a run always ends.

**Region processing** (`pipeline/orchestrator.py`, `processor.py`,
`extractor.py`, `persistence.py`): row construction is data transformation;
persistence replaces tables, then writes the manifest entry.

**Link migration** (`pipeline/_link_migration/`)
- State: the link table of a region, its Wikivoyage tables, four manifests shared by all
  regions, a staging directory, a journal, backups.
- Operations: classify, stage, journal, replace, roll back, roll forward, clean up.
- Hard: crashes between any two replacements, during the rollback and during recovery;
  other regions' updates of the shared manifests, by this thread and by the upload worker.
- Correct when: no manifest speaks of tables that are not there; a region that is half
  migrated keeps its journal; other regions' updates survive; a restart completes what
  was begun.

**Wikidata integrity audit and repair** (`pipeline/_wikidata_recovery/`)
- State: tables and manifests, a transaction directory with a three-phase
  journal, receipts that spare a healthy region the next audit.
- Operations: recover, audit, repair, commit, record the receipt.
- Hard: recovery is itself interrupted; a receipt outlives what it vouches for.
- Correct when: tables of a region are all old or all repaired once no
  transaction is open, and a receipt only ever vouches for healthy tables.

**Augmentation** (`augmentation/`)
- State: the tables of a region in two layouts (old `articles`, canonical
  `documents`), five sidecars, saved phases, the processed and the augmentation
  manifest.
- Operations: migrate the old layout, resolve entities, fetch documents and
  sections, build facts, write sidecars, reject what joins no polygon, write the
  entry; retire the old articles.
- Interaction: main thread and upload worker both retire articles and both read,
  change and rewrite the two manifests without a lock.
- Hard: phases saved by a killed run meet other inputs; two rewrites for one
  rejection; the check before a deletion is made earlier than the deletion.
- Correct when: a region that is skipped as current has sidecars that belong
  together, and an article table goes only when its rows are kept.

**Containment retirement** (`pipeline/containment_*.py`)
- State: tables and manifests of a parent and its children, a quarantine directory,
  the retirement manifest, upload jobs.
- Operations: audit, merge, quarantine, install, update two manifests, record the
  retirement, remove the children's files, delete them on the Hub with the parent's
  upload.
- Hard: eight kinds of writes with a kill between any two; regions processed again in
  between, in as many steps of their own; jobs of earlier runs still queued.
- Correct when: a child's file goes only when the parent covers it, the manifests and the
  facts are those of the merged parent, and a clean run leaves no retired child on the Hub.

### Talking to Wikimedia

**Requests: scheduling, login, retries** (`utils/request_scheduler.py`,
`utils/retry.py`, `utils/http_retry.py`, `enrichment/wikimedia_auth.py`,
`pipeline/_wikidata_recovery/audit_entities.py`, `repair_artifacts.py`)
- State: per host a cooldown and the next permitted moment; for the process a
  rate, a semaphore of in-flight requests and recent throttling; per host a login;
  for the process one flag that cancels waiting retries.
- Operations: pace, acquire, send, report; log in once per host; retry with
  backoff; cancel a pool when one of its tasks failed.
- Hard: all of it is shared by the threads of a pool.
- Correct when: two requests are never closer than the rate, nothing is sent into
  a cooldown that was known before, a login is settled once, no permit is lost, and
  a failed pool ends.

**Clients and enrichment** (`enrichment/`): response caches, parsing, cleaning.

### V2 and Grid5000

**Sentence controller** (`grid5000/sentence_controller*.py`)
- State: a durable ledger of batches, remote job directories, OAR jobs, the local
  sentence manifest and tables, the Hub.
- Operations: plan, submit, poll, retrieve, import, publish, verify, clean up;
  resume from another checkout.
- Hard: every command may fail after it had its effect; the controller may stop
  anywhere; jobs of an older checkout are still there.
- Correct when: what the ledger calls running is a real job, what is published is
  backed by tables and from one source commit but for salvaged checkpoints, a result is
  kept until it is published, and a run ends.

**V2 runner and reuse** (`v2/runner.py`, `checkpoints.py`, `reuse*.py`,
`direct_enrichment.py`, `v1_index.py`, `index_*.py`, `publication.py`)
- State: an SQLite index of all V1 documents, per region an extraction checkpoint, a
  fetch checkpoint, four tables and a manifest entry; on the Hub the regions.
- Operations: synchronise the index, scan a PBF in chunks, merge with V1, resolve or
  fetch, install, reconcile once the index is complete, publish in batches.
- Interaction: three threads; reads the V1 dataset that other commands produce.
- Hard: pages are fetched and rows looked up, and answers cached, while the index is
  half built; checkpoints of another PBF; a kill inside an installation or a deletion.
- Correct when: a complete index is exact, an extraction is the current PBF's, a
  reconciled region has the right links, and a run that ends well covers everything.

**Sentence splitting** (`v2/sentence_*.py`, `grid5000/sentence_job.py`,
`sentence_controller_import.py`)
- State: section tables, sentence tables, checkpoints with batches, a manifest, at
  the operator's machine and in a job's copy.
- Operations: open or reset a checkpoint, split batches, write and finalize a table,
  write the manifest; stage a batch for a job, import what it returns.
- Hard: resumption with another batch size or edition; an import derived from an
  older copy; local splitting, import and the replacement of sections take three
  different locks.
- Correct when: what the next run would skip is exact, and the manifest loses nothing.

### Underneath

**Local I/O** (`io/`): atomic replacement, staged installation, an SQLite cache.
**Domain, configuration, command line**: values, schemas, wiring.

## 2. Modules

| Module | Models | Composition |
|---|---|---|
| `DurableOutbox` | what the queue promises: accept once, deliver what was recorded, acknowledge after delivery | abstract specification |
| `UploadQueue` | the durable queue over several process lives | implements `DurableOutbox` (`pending <- envelopes`) |
| `PublicationIntent` | the pending-publications file and both commands that keep it | uses a queue as the outbox; link migration's replacement of the file is one of its actions |
| `LinkMigration` | the migration transaction of one region: tables, then four shared manifests | the upload worker and other regions as environment, at any moment |
| `WikidataRecovery` | the repair transaction of one region and its receipt | other regions as environment |
| `SyncRunner` | successive `sync-dir --push` runs | queue as the outbox, pending file as one writer sees it, repair and migration as steps |
| `Augmentation` | what `sync-dir` does to a region's tables besides extraction | main thread and upload worker; link migration as a step |
| `Containment` | the retirement of contained regions over successive runs | queue as the outbox; processing and augmentation of a region file by file |
| `SentenceController` | the Grid5000 controller | OAR, the file transfer and the Hub as environment |
| `SentenceSplitting` | splitting at the operator's and in a job, and the import | the controller as one batch at a time, beside the local command |
| `WikimediaRequests` | the threads of one request pool | the hosts as environment |
| `V1ReuseIndex` | the index of V1 documents and its indexing thread | |
| `V2Build` | successive `sync --dataset-version v2` runs | extends `V1ReuseIndex`; the V1 dataset and PBFs as environment |
| `Releases` | the language and the statistics release | the synchronisation, which edits tables and the card, as environment |
| `UploadQueueProofs`, `PublicationIntentProofs`, `LinkMigrationProofs`, `WikidataRecoveryProofs`, `WikimediaRequestsProofs`, `SentenceControllerProofs`, `V2BuildProofs`, `ContainmentProofs` | theorems about the module of that name; `V2BuildProofs` also about `V1ReuseIndex` | each extends its module |
| `MC...` | instances for TLC of modules whose constants are sequences, functions or records | |

In all of them `Crash` (or `ProcessEnds`) keeps the variables marked *disk*, *Hub*
or *Grid5000* and resets the others: that is what a killed process leaves. A file
that the code writes with `os.replace` changes in one step; a directory tree
changes file by file where a property can tell the difference. Each module
begins with its data abstraction. Right before some operations stands a variant named
for what it gets wrong (`RmtreeFirst` before `Unlink`, `LockHostUnchecked` before
`LockHost`, `BackupWithoutManifest` before `Backup`): it is not part of any
specification; `PROJECT.json` (`mutants`) pairs it with the property that fails when
the code had that mistake.

**UploadQueue.** `highwater`, `envelopes`, `legacy`, `malformed`, `snapshot` are
the state directory; `canonical` a region's own files; `remote` the Hub. `main`
and `worker` are the two threads' program counters. Opening is `Open`,
`Classify`, `Restore` (an interrupted upload of the old format), `BeginUpgrade`,
`EnqueueResumed`, `ResumeDone`; a submission `BeginSubmit` (allocates the
sequence and writes the high-water mark), `Copy`, `WriteEnvelope`, `Put` (blocks
while the queue is full); the end `Close`, `PutPill`, `Join`, `Exit`. The worker
is `Get`, `Verify`, `UploadSucceeds` / `UploadFails(transient, committed)`,
`WaitEnds`, `Unlink` / `UnlinkFails`, `Rmtree`. `committed` is the case of a
commit that reached the Hub but is reported as a failure. `Tamper` alters a
snapshot outside the program, the event the hash is there for. `Rewrite` is the
rest of the pipeline producing new content of a region. `Interrupt` is the operator's
Ctrl-C in a blocked put; it is a step of nobody's schedule. The high-water mark is
only ever replaced whole, so no crash leaves it malformed; one damaged from outside,
which `read_highwater` takes for 0, is not modelled.

**PublicationIntent.** `file` is the envelope, `lock` is `_ENVELOPE_LOCK`; each
read-modify-write is three steps (the load before the lock, the read under it, the
write), because that is where the code can interleave. `Start` to `Submit` is a
region's passage through the command, `Drained`, `Refresh`, `ClearRead`,
`ClearWrite` the end of the run, `Get`, `Upload`, `RemoveRead`, `RemoveWrite`,
`Delete` the worker. Any run may be of either command and over any part of the regions;
each command drains its own queue. `overtaken` is a ghost: the regions that had a job in
the *other* command's queue when the marker, which is common to both, was cleared.

**LinkMigration** and **WikidataRecovery.** Artifact by artifact, in the order of
the code: the link table first, then the Wikivoyage tables, then the four shared manifests
in the one, path order (shared manifests, then tables) in the other. A content records its
generation, whether it is migrated or repaired, and how many updates of other
regions are in it, so that equal contents are equal hashes. `OtherRegion` (in `LinkMigration`
at any moment, the upload worker of a `--push` run being one of its writers) and
`Reprocess` are the rest of the program. `Stage`, `BackUp`, `Apply`, `Rollback` (last
entry first) and `Recover` each handle one artifact; a run that finds a journal stages
anew before it rolls forward.

**SyncRunner.** `local` is what the data root holds of a region, `hub` and `jobs`
what is there of its two parts: its polygons (*core*) and all else (*rest*). Only an upload
of a processed, repaired or missing region carries the core (`Submitted`). The
manifests are left to the metadata refresh (`PublicationIntent`). `ActionForStem` is the
planner's decision, `Start` the plan,
`StartPrefetch` / `AwaitExtraction` / `Extract` the one extraction ahead,
`Persist` and `PersistManifest` the two halves of persistence, `Audit`,
`Repair`, `MigrateLinks`, `Complete`, `Submit` the region callbacks, `Deliver`
and `DeliverFails` the worker.

**SentenceController.** The ledger's batches with their states; a remote directory
per attempt; OAR jobs as a sequence. Tables and checkpoints are the sets of source
commits whose code split their rows: a failed attempt's checkpoints are imported
(`MarkFailed`) and staged to the next job (`StageBatch`), and they name no commit.
`Start(c)` is a run from checkout `c`;
`BeginSubmit`, `StageBatch`, `Oarsub`, `RecordJob`, `Recheck` the submission,
`Poll` (the end is reported; every other answer, "unknown" too, is asked for again),
`Retrieve`, `MarkFailed`, `InstallManifest`, `InstallTables`, `Ready` the result, `Publish`, `RecordPublished`, `CleanupRemoteJob`, `Finalize` the rest.
`SubmissionFails`, `RetrieveRaises`, `PublishFails`, `CleanupFails`, `Interrupt`
and `Crash` are the ways a step ends otherwise.

**WikimediaRequests.** A thread passes `Take`, `Attempt`, the login (`LockHost`,
`LoginAnswered`), pacing (`Pace`, `ReserveHost`, `MeasureWait`, `WakeUp`), the
global budget (`AcquirePermit`, `ReserveSlot`, `Send`) and an `Answer`
(`ReportSuccess`, `CooldownHost`, `RecordEvent`, `SlowDown`). Time passes in
ticks; an instant that the code keeps is modelled as the number of ticks it lies
ahead, or as its age, so that the state space is finite without a bound on time.
The rate is an interval in whole ticks, rounded down. The steps of one throttling
report fall within one tick. The requests of a login are not paced, as in the
code. The number of attempts is unlimited (`request_max_retries` None).

**Augmentation.** A table is missing or the set of its rows, and a hash is the content
it stands for. `BeginRun` to `PreparedMigrated` is the migration of the old layout,
`PlanSync` the plan, `PersistPolygons` to `EnforceLinks` the persistence of a processed
PBF, `LoadCoreInputs` to `ClearSaved` the augmentation with its phases (`PhaseStep`: a
saved phase is used when plan and inputs are the same, else it is computed and saved),
`RecoverHealthy` and `MigrateLinks` what a current or a new region still needs. `mode`
holds `--force` (or no `--skip-existing`) and `--push`; without push nothing is queued and
no worker runs. The retirement (`ValidateRetirement`, `UpdateProcessed`, `UpdateManifest`,
`UnlinkArticles`) is a process of each thread. Reading a manifest and writing it back
are two steps, so each thread may take back the other's update. `halfWritten` is a
ghost: the regions that a run was killed over between two of the tables it rewrote;
`checked` is the edition of the articles that the worker has compared.

**Containment.** `StageRule` is the merge (`StagedTables`: the newest polygon row wins
under the parent's provenance; of other tables the parent's row), `CopyOnce`,
`InstallFile`, `UpdateProcessedManifest`, `UpdateAugmentationManifest`,
`PersistPreparedRule`, `RemoveFile` the preparation file by file, `FetchInventory` and
`EnqueueRetirement` the publication, `Deliver` / `DeliverFails` the worker with the
safety check of the job's pairs; a failed job stays, the worker goes on with the next. Any
active region may be processed again, as the code does it: `PersistPolygons`,
`PersistLinks`, `WriteManifestEntry`, `WriteSidecars`, `WriteAugmentationEntry`,
`PublishRegion`, with a kill between any two; `AugmentRegion` is the later run that
only augments. A third table, the facts, stands for all that augmentation
writes. `PlanRaises` is the refusal of a region that a kill left without links or entry,
`StageRaises` the `KeyError` of a link without polygon. `owed` is a ghost: what of
a region is older than its polygons.

**V1ReuseIndex, V2Build.** The indexing thread goes through the shards one row group
per transaction (`PrepareShard`, `CommitIndexedRowGroup`, `FinalizeShard`). A query of the
main thread has two halves with the indexing thread in between: `Query` reads the
references, `Materialized` the rows, raising for a shard that is gone; `FillCaches`
then fills the query and the row cache, and only there looks whether the index is
complete. `early` marks an answer whose reference was read before it was.
In `V2Build` the prefetch thread is `OpenCheckpoint`, `AppendChunk`,
`AppendMetadata`, `MarkComplete`, and `ExtractionFails` with the flush of the rows that
are pending; the main thread takes regions in order
(`TakeExtraction`, `LoadMergeInputs`, `EnrichOne`, `Speculate`, sections, `WriteTables`,
`WriteManifest`), then waits for the index, reconciles and publishes in batches.
`CrashReplacing` and `CrashClearing` are kills inside the replacement of four tables
and inside the deletion of a checkpoint. `Outside` changes PBFs and V1 between runs. Runs
are with `--push`; without it a current region is skipped (`runner.py:131`).

**Releases.** `source` counts the writes of a synchronisation (polygons, texts,
manifest), so a reader between two writes sees a mixture. `PlanRelease` takes the
inventory, `Staging` / `MarkValid` decide what a resumed generation reuses,
`StartInstall`, `Backup`, `Install`, `InstallError`, `Cleanup` are the installation
file by file, `Inspect` (whose read of the old manifest may be lost), `Commit`, `Verify` the
Hub; `orphans` of a revision are the shards that a release could not retire: it had not
read the manifest that lists them, or their table had left the inventory. `LoadRemote` to `CheckRelease` the
statistics release; `SyncCard` the card a synchronisation publishes.

**SentenceSplitting.** One definition of the pass serves both places (`p` is *local*
or *job*): `OpenCheckpoint`, `ResetCheckpoint`, `ReadSource`, `ProcessBatch`,
`MarkComplete`, `WriteOutput`, `Finalize`, `RemovePayloads`, `LoadManifest`,
`WriteManifest`. `StageBatch` copies inputs to the job; `StartImport` to `InstallTree`
installs manifest, outputs and checkpoints after the checks the code makes, while a local
pass may be anywhere: the two take different locks. `litter` is what a kill left of a
`metadata.json`, on which an import raises. `mixed` is a ghost: the tables that an import and
a local pass were in at the same time. A section is its language and length, a
segmentation the lengths of its pieces.

## 3. Runs

Except `v2_build`, whose last state loops, every run allows the system to stop
(`CHECK_DEADLOCK FALSE`): commands end, and the named bounds run out. That nobody waits
forever is said by the liveness properties instead.

| Run | Instance | Shows |
|---|---|---|
| `upload_queue` | one region, queue of 1, 2 attempts, 2 sequences, 2 versions, 1 unreadable envelope, fairness; 131K states | a sequence names one job; an envelope has its snapshot; a clean drain means delivered; FIFO by sequence; a region regresses only when a failure was reported; the queue implements the outbox; the blocking calls return, no interrupt being needed |
| `intent` | 2 stems, each run of either command over any of them, one of the stems migratable, 2 jobs; 4.7M states | only regions overtaken in the other queue miss on the record of stale assets; when the assets are refreshed, only regions the run was not given may be unpublished |
| `link_migration` | link table, 2 Wikivoyage tables, 4 manifests, region processed once more, 1 update of each manifest by others at any time, 2 crashes; 2.4M states | manifests come last; a half migrated region has its journal; only concurrent updates of a shared manifest are lost |
| `wikidata_recovery` | 1 shared manifest, 2 tables, processed once more, 2 crashes; 14K states | no torn repair; a receipt means healthy tables |
| `sync_runner` | 2 regions in two parts, 1 upload left by earlier runs, fairness; 1.05M states | a clean run publishes; only exposed regions are lost sight of; a run ends |
| `augmentation` | 2 regions, one in the old layout, 2 editions of PBF and articles, 2 upstream states, 2 runs with and without force and push, kills; 4.9M states | a region skipped as current has consistent sidecars unless it was half written; articles go only when those the worker checked are kept |
| `containment` | parent, 2 children, 2 identities, 3 tables, one region processed once more, 3 runs, 1 kill; 2.6M states | removal is lossless; only what was cut short leaves entries, hashes or facts behind; a clean run leaves no retired child on the Hub |
| `sentence_controller` | 2 batches, 2 attempts, one batch retried, 2 checkouts, fairness; 216K states | running is real; only salvaged rows are of another commit; the Hub's manifest is backed; results are kept; a run ends or waits for oarstat |
| `sentence_splitting` | 2 tables, batch sizes 1 and 2, 2 segmenter versions, 1 replaced table, 2 local runs, 1 job whose import overlaps them, 1 kill; 2.8M states | what a run would skip is exact, unless an import was in it at the same time |
| `wikimedia_requests` | 2 threads, 2 hosts, 1 or 2 permits, Retry-After of 2 ticks, 2 tasks, fairness; 599K states | slots are spaced; cooldowns are honoured; a login is settled once; a failed pool ends |
| `v2_build` | 2 regions, 1 shard of 2 row groups and 2 versions, 2 versions of a PBF, 3 titles, 2 runs, kills; 2.3M states | a complete index is exact; an extraction has all rows of the current PBF and no others, in order; only early cached answers leave inexact links; published regions are reconciled; a complete run covers every region |
| `releases` | 2 datasets, 2 tables with 5 language codes and missing ones, shards of 2 rows, 1 edit (rewriting, adding or dropping a table), 2 releases, 2 kills, errors or lost reads; 492K states | the manifest names its bytes; only orphans repeat a row; only orphans are unlisted |

Why the bounds are enough:

- *Queue.* With one region all jobs compete, which is the hard case (jobs of different
  regions share only the sequence counter and the FIFO, and these the proofs cover
  for any number of regions). A queue of 1 is full as soon as possible. Two attempts
  suffice for one wait. Three sequences are what it takes to have a job resumed from an
  earlier life, one in the worker and a newer one queued behind it:
  `UploadQueueSafety.cfg` has them (3.6M states) and passes too. The proofs remove these
  bounds for the safety properties they cover.
- *Intent.* Two stems: one whose record may be lost, one whose writer loses it; and one
  given and one not. Two jobs: one waiting in each command's queue. The proofs remove
  the bounds.
- *Migration, repair.* Two crashes: in the transaction and in its recovery. Seven
  artifacts, and three in the repair, have a first, a middle and a last. One later
  generation and one foreign update are enough to be overwritten. The proofs remove the
  bounds.
- *Sync.* Two regions: one at hand and one ahead. A third region only repeats the
  second (each phase handles the regions one after the other). `MaxLeft`: a run starts
  only if at most one upload is left, so that at most two of a region are queued: one
  older and one newer.
- *Augmentation.* One region in the old layout and one new: one is retired while the
  other is processed. The second edition drops a tag and changes an article, so saved
  phases, sidecars and rejections of the two differ. Two runs: one that is killed or
  leaves an upload, and one, forced or not, that meets what it left.
- *Containment.* Two children: one may be processed again while the other is
  retired. Two identities: one that both have and one that only a child has. Three
  runs: one killed, one that resumes, one after it.
- *Controller.* Two batches and two checkouts: one published before the checkout
  changes, one after. Two attempts: one that fails and one that follows it; `MaxRetried`
  allows them to one of the batches, whichever.
- *Splitting.* The replaced table gains a section and loses a text; the second segmenter
  version cuts elsewhere and loses a character of a section of three, so that the
  reconstruction check fails on it.
- *Requests.* Two threads compete for one permit, or hold two; two hosts are the
  smallest systemic throttling (`MinimumHosts` 2).
- *V2.* The second version of the shard has its titles in the other order, so that a
  resumed shard would mix the two; a title is in V1 and on Wikipedia, one only in V1,
  one only on Wikipedia. A batch takes both regions. `CanonicalOf` is empty: one path
  per stem. `ForceModes` is {FALSE}: a forced run extracts again what a run over changed
  PBFs would; the proofs hold for both.
- *Releases.* An edit opens a second shard, retires a language and adds one, or drops
  a table; two releases are what it takes to leave a file of the first.

Several properties are named *Only...*: the code does not keep the plain statement, and
the property says for exactly which states it may fail. A ghost variable or an
existing one names them, and section 6 tells each story:

| Property | Exception |
|---|---|
| `OnlyOvertakenUnrecorded` | a region whose job waited in the other command's queue when the marker was cleared |
| `OnlyRegionsNotGivenUnpublished` | a recorded region outside the input of a sync |
| `OnlyConcurrentUpdatesLost` | what the upload worker writes to a shared manifest while a migration is between staging and replacing |
| `OnlyExposedUnnoticed` | a region that a run stopped over after it was changed, or of which an older upload is repeated after a newer one |
| `OnlySalvagedRowsForeign` | rows in the checkpoints of a failed attempt |
| `OnlyEarlyAnswersInexact` | a title that a cache still answers from a reference read before the index was complete |
| `OnlyHalfWrittenInconsistent` | a region that a forced run was killed over between two of its tables |
| `OnlyCheckedArticlesHeld` | an articles table written since the worker's check |
| `OnlyOrphansRepeatRows`, `OnlyOrphansUnlisted` | shards whose manifest could not be read, or whose table left the inventory |
| `OnlyMixedSkippedWrong` | a table that an import and a local pass were in at the same time |
| `OnlyCutShortStale` | a parent whose processing was cut short, or into which such a region, or a half installed merge, was merged |

### Further configurations

These are not among the runs above. The first is a larger instance that passes; each of
the others ends in a counterexample to what a document, a comment or a test of the
repository says, told in section 6.

| Configuration | Module | Result |
|---|---|---|
| `UploadQueueSafety.cfg` | `MCUploadQueue` | passes: three sequences, types included |
| `PublicationIntentLostUpdate.cfg` | `PublicationIntent` | `AddedIntentKept` violated, finding 1 |
| `LinkMigrationRestart.cfg` | `LinkMigration` | `RestartConverges` violated, finding 2 |
| `SyncRunnerRestartAccepted.cfg` | `SyncRunner` | `RestartAccepted` violated, finding 3 |
| `SentenceControllerReservations.cfg` | `SentenceController` | `OneReservation` violated, finding 4 |
| `AugmentationRestart.cfg` | `MCAugmentation` | `RestartNeverBlocked` violated, finding 5 |
| `ReleasesCard.cfg` | `MCReleases` | `StatsKeepLanguages` violated, finding 6 |
| `SentenceImport.cfg` | `MCSentenceSplitting` | `ImportedMatchesSource` violated, finding 7 |
| `SentenceManifest.cfg` | `MCSentenceSplitting` | `ManifestKept` violated, finding 10 |
| `ContainmentLeftovers.cfg` | `MCContainment` | `RetiredFilesRemoved` violated, finding 8 |
| `ContainmentQuarantine.cfg` | `MCContainment` | `QuarantineKeepsOriginals` violated, finding 9 |
| `ContainmentStale.cfg` | `MCContainment` | `CurrentMeansAugmented` violated, finding 11 |

## 4. Fairness

Fairness is only assumed where the code's own scheduling gives it, and never of an
outcome (an upload succeeding, a host accepting), of a crash or of the operator.

- `UploadQueue`: weak fairness of the main thread while a process is up, and of the
  worker. Threads run; an HTTP call ends, with whatever result; a retry wait ends.
  `Interrupt` is in neither: a blocked put returns because the worker makes room.
- `SyncRunner`: weak fairness of the main thread, the extraction thread and the worker.
- `SentenceController`: weak fairness of the controller and of Grid5000. A reservation
  has a walltime, so a job ends in some state. That `oarstat` ever says so is not
  assumed: `Poll` is not fair, and `RunEnds` says that a run ends or polls, and that it
  ends if the answer comes.
- `WikimediaRequests`: weak fairness of the clock, of the pool's collector and of each
  thread's steps. A request ends by its timeout.
- `LinkMigration` (`RestartConverges` only): weak fairness of the migration: the
  operator starts the command again after a crash, as `docs/architecture.md` tells.

`Augmentation`, `Containment`, `V2Build`, `Releases`, `SentenceSplitting`,
`PublicationIntent` and `WikidataRecovery` state safety only, and no fairness. Their
loops are bounded by what they go through (regions, shards, tables, files).

## 5. Proofs

The theorems hold for all values of the constants, under each module's assumptions on
its constants (`ConstantsAssumption`, `IndexAssumption`, `BuildAssumption`): bounds are
natural numbers, a value that stands for "none" is not one of the real ones (the pill's
region is no region, the free lock is no thread, `NoRef` and `NoMatch` are no titles),
and what the code keys by name is unique (the PBFs of a directory, the polygons of a
PBF, the V1 polygons of a region). TLC evaluates them on every run. The theorems thus
hold for any number of regions, sequences, crashes, batches, attempts, threads, shards,
polygons and children of a rule. None has a hypothesis of its own.

Each inductive invariant was checked by TLC on the instance of its run before it was
proved. In each module one lemma per part of the invariant goes through the actions; a
theorem `Invariance` puts the parts together, and the others follow from it.

### UploadQueueProofs

| Theorem | Says |
|---|---|
| `TypeCorrect` | `Spec => []TypeOK` |
| `SequencesAreUnique` | `Spec => []SequenceNamesOneJob` |
| `SnapshotsOutliveEnvelopes` | `Spec => []EnvelopeHasSnapshot` |
| `QueueKeepsOrder` | `Spec => []JobsInOrder` |
| `QueueImplementsOutbox` | `Spec => Outbox!Spec` |
| `DrainedIsDelivered` | `Spec => []DrainedMeansDelivered` |
| `RegressionsAreReported` | `Spec => OnlyReportedJobsRegress` |

None of the invariants is inductive alone. `IInv` adds:
- `SequenceInv`: every sequence ever accepted is at most the high-water mark, which
  is below the next one. Uniqueness needs it because the mark is written *before*
  the envelope: after a crash the scan alone would find a smaller number.
- `SnapshotInv`: the job being written and the job being uploaded have intact
  snapshots, the verification of the worker being the reason for the second.
- `QueueInv`: whatever is queued, held or about to be queued is an envelope on disk,
  and only older jobs are ahead of it. Order in memory thus follows from order on
  disk; the resume enqueues before anything new is submitted.
- `ThreadInv`: where the threads can be together (nothing is queued while the queue is
  being opened, the pill is last).
- `RetryInv`: a wait has an attempt left.

The refinement maps the outbox's `pending` to the envelopes. `WriteEnvelope` is
`Accept`, a commit `Deliver`, `Unlink` `Acknowledge`; everything else, crashes
included, stutters. `Deliver` needs `SnapshotInv` (what is uploaded is what was
recorded), `Accept` needs `SequenceInv`.

The last two theorems rest on a second layer, `AccountsInv`, inductive relative to
`IInv`. `AccountInv` says where every envelope on disk is while a process is up: found
and not yet enqueued, queued, held by the worker, being put by the main thread, or
reported as failed by this process; when the worker has ended only the last remains.
`CurrentInv` and `LegacyInv` do the same for the job at hand and for the envelopes of
the old format. `RegressInv` says that a pending job older than what the Hub holds of its
region was reported: the FIFO would otherwise have had it first.

### PublicationIntentProofs

| Theorem | Says |
|---|---|
| `TypeCorrect` | `Spec => []TypeOK` |
| `OnlyOvertakenAreUnrecorded` | `Spec => []OnlyOvertakenUnrecorded` |
| `AssetsDescribePublished` | `Spec => []OnlyRegionsNotGivenUnpublished` |

Both commands alternate on one data root, over any input. `MarkerInv` is why the marker
is safe where the stems beside it are not (section 6, finding 1): not only the file, but
every copy of the envelope that some thread will write covers all regions owed and not
overtaken. The copy of the worker is read under the lock, the one that link migration has
staged is written with no submission in between. `JobsInv` says that the end of a clean
run finds no job of its own command left, so whatever is still queued is overtaken when
the marker goes. `HubInv`, for the second property, says that whatever is marked has local
artifacts (`LocalInv`), that what was submitted is on the Hub or queued (`SubmittedInv`), and
that a synchronisation still has before it whatever else the marker names of its input
(`OwedInv`, again for the file and for every copy of it).

### LinkMigrationProofs

| Theorem | Says |
|---|---|
| `TypeCorrect` | `Spec => []TypeOK` |
| `ManifestsComeLast` | `Spec => []ManifestsLast` |
| `HalfMigratedHaveJournals` | `Spec => []HalfMigratedHasJournal` |
| `OnlyConcurrentUpdatesAreLost` | `Spec => OnlyConcurrentUpdatesLost` |

`OrderInv` is the core: the migrated artifacts are always the first ones in the order of
replacement, none of them before the journal, and the rollback, which goes from
the last to the first, only ever starts at the first. `StagedInv` says that what is staged
is what this run has read of each artifact, `JournalInv` that entries are migrated and that
backups are not and hold all updates that this run has seen. The last theorem needs both:
a replacement, a rollback and a roll-forward each write a content that this run has read
or backed up, never the one of an earlier run, because a run stages everything anew before
it looks for a journal, and rolls forward only what equals the journal's entries.

### WikidataRecoveryProofs

| Theorem | Says |
|---|---|
| `TypeCorrect` | `Spec => []TypeOK` |
| `RepairIsAtomic` | `Spec => []NoTornRepair` |
| `ReceiptsAreTrustworthy` | `Spec => []ReceiptMeansHealthy` |

`ControlInv` says where there can be a journal and a directory; `StagedInv` and
`JournalInv` that staged files, entries and what is left of the backups each tell one
story; `ProgressInv` how far a replacement or its undoing has come, from both ends.
`ReceiptInv` carries the second property: a receipt may be of damaged tables when nothing
could repair them, and then everything that can still be put into place is of a later
generation, so that it can never match again.

### WikimediaRequestsProofs

| Theorem | Says |
|---|---|
| `TypeCorrect` | `Spec => []TypeOK`: types, and no permit is lost or given twice |
| `SlotsAreSpaced` | `Spec => []SlotsSpaced` |
| `CooldownsAreHonoured` | `Spec => []CooldownsHonoured` |
| `LoginIsSettled` | `Spec => LoginSettled` |

`SlotsSpaced` and `CooldownsHonoured` are nearly inductive; `ReservedInv` adds what a
reservation knows of the cooldown before its wait is measured. `SessionInv` says that a
thread whose request belongs to a login holds the lock of a host whose login is pending,
from which `LoginSettled` follows. The permits are counted with the library's theorems
on finite sets.

### SentenceControllerProofs

| Theorem | Says |
|---|---|
| `TypeCorrect` | `Spec => []TypeOK` |
| `RunningCanBeResumed` | `Spec => []RunningIsReal` |
| `OnlySalvagedRowsAreForeign` | `Spec => []OnlySalvagedRowsForeign` |
| `ManifestIsBacked` | `Spec => []HubManifestBacked` |
| `ResultsAreKept` | `Spec => ResultKept` |

`IInv` was checked with TLC as an invariant first. `StepInv` ties the controller's step to the
ledger's state of the batch at hand and says that all batches before it are
published; `JobInv` gives each attempt at most one job, running in its directory;
`ContentInv` follows the source commits from the job's directory through the import to the
Hub: each set of rows holds at most the commit it is accounted to and what was salvaged of
the batch; `CacheInv` says the same of the checkpoints, which a job may leave rows in
before its attempt is on record as failed; `ManifestInv` says that a manifest lists a batch only when those before it are
published, which is why installing the manifest before the tables is harmless;
`ResultInv` says that a directory is cleaned up as failed only when its job is over
and left no success of this commit; `AttemptInv` keeps the counts.

### V2BuildProofs

| Theorem | Says |
|---|---|
| `TypeCorrect` | `Spec => []TypeOK` |
| `CompleteIndexIsExact` | `Spec => []CompleteIndexExact` |
| `ExtractionIsExact` | `Spec => []ExtractionExact` |
| `OnlyEarlyAnswersAreInexact` | `Spec => []OnlyEarlyAnswersInexact` |
| `PublishedIsReconciled` | `Spec => []PublishedReconciled` |
| `CompleteRunsCover` | `Spec => []CompleteRunCovers` |

The invariant has a part per thread and one for the plan, each resting on those before.
- `IndexInv`: the table's rows are exactly those that the state of the shards and the
  progress of the scan account for (`RowsInv`), and the shards before the scan's place
  are indexed as they are now (`ScanInv`). A shard that changed between two kills is why
  the first has to name versions.
- `ScanningInv`: a checkpoint is faithful, that is its chunks are rows of the PBF it
  names, in their order, the last one possibly twice, and a complete one has them all;
  the extraction under way extends it in order.
- `WorkInv` and `FilesInv`: the links of the region at hand, of the tables on disk, of
  the manifest and of the Hub are exact but for early answers, or the region waits for
  its reconciliation.
- `CacheInv`: a cached answer, and the reference of a query under way, is what the complete
  index gives, unless it is marked as early. This is the part that a run cannot do
  without: the indexing thread may complete between the halves of a query.
- `PlanInv`: the lists of the run. `ListsInv` gives their shape, `InstalledInv` what is on
  disk for a listed region, `ProcessInv` where each region is: behind the main thread's
  place and handled, at it, or ahead and as planned, `FinalInv` the phases after the last
  region. `CompleteRunCovers` is the last state of this account. It relies on the order of
  the regions being without repetition.

### ContainmentProofs

| Theorem | Says |
|---|---|
| `TypeCorrect` | `Spec => []TypeOK` |
| `RemovalIsLossless` | `Spec => RemovalLossless` |
| `RetirementsHaveManifests` | `Spec => []OnlyCutShortStale` |
| `CleanRunsRetire` | `Spec => []CleanRunRetires` |
| `StagedFacts` (lemma) | the merge of any sequence of children is the parent's own and covers every table of each child |

The assumptions are that a rule has at least one child, that the parent is none of them,
and that the identities are finitely many (the statistics count them).

- `RuleInv`: a rule is retired as a whole. `_pending_rule` drops children one by one, but
  only all of them are ever recorded, so what is being installed was merged from all.
- `TablesInv`: the parent never lacks a table or an entry, its polygons and links are its
  own, and the links of a child name polygons of the child, unless the child was killed
  before its links were replaced. Without this a merged link could name a polygon that no
  table has.
- `FactsInv` and `MergeInv`: every polygon has its facts unless they are owed, and a merge
  that was installed in part is not recorded. A region is processed in six steps, so this
  has to be said of every region, not of the parent alone: a child that lacks facts
  makes a parent that lacks them.
- `WorkInv`: the region at hand is active and has the polygons that were extracted with
  its links, from which the entry and the hashes are then written.
- `StagedInv`: what is staged covers every file the children still have, and its facts are
  complete unless they are owed. Nothing but the removal changes those files while a rule
  is prepared: a region is processed only after.
- `InstalledInv`: which tables of the parent, then which manifest entries, are the staged
  ones, by the step of the run. With `StagedInv` it gives `RemovalIsLossless`, and at the
  step that records the retirement `RetirementsHaveManifests`.
- `PublishedInv`: while a run is clean, a retired child that the Hub has is among the
  children of the inventory or in the deletions of a queued job, and no queued job adds a
  retired region. An empty queue at the end then means that the Hub has none. `CleanInv`
  says that a run is clean only from its inventory on.

`StagedInv` starts from `StagedFacts`, which speaks of the recursive functions
`MergedPolygons` and `MergedRows`. Induction schemes are not available to the provers; the
lemmas take the smallest number of children for which the claim fails
(`WellFoundedInduction`'s `WFMin`) and derive a contradiction. That the recursion has a
solution at all (`KeptExists`, `MergedExists`) is shown in the same way.

### Only model-checked

- All liveness properties (`BlockingCallsReturn` of the queue, that runs of `SyncRunner` and
  `SentenceController` end, `FailedPoolEnds`, `RestartConverges`): the proof system does
  not handle fairness.
- The safety properties of `SyncRunner` (`CleanRunPublishes`, `OnlyExposedUnnoticed`),
  `Augmentation`, `Releases` and `SentenceSplitting`, and the type invariants of these
  modules. Nothing in principle stands against their proofs. Those of `Releases` (the
  partition) and `SentenceSplitting` (the pieces of a section) rest on folds of the
  library, which would first have to be written as recursive functions, as the merge of
  `Containment` is.
- The configurations listed under *Further configurations* in section 3: they show what the
  code does not keep.

## 6. Findings and behaviours worth a look

Eleven configurations (section 3) end in a violation of what a comment, a test or a
document says:

1. **A pending publication can be lost** (`AddedIntentKept`). `add_` and
   `remove_pending_publications` load the stems before the lock is taken, so the
   worker writes back a set that misses what the main thread has added since. The
   comment on the lock promises the contrary. (The marker is read under the lock
   and is safe: `OnlyOvertakenUnrecorded`.)
2. **A restart does not complete a link migration** (`RestartConverges`). After a
   crash behind the first replacement, the stem's link table is canonical, the stem is
   classified as done and its journal is never rolled forward. When the region has
   been processed again, its next migration finds a journal of the older generation, raises
   "staged file unavailable", and so does every one after it.
3. **A restart is refused** (`RestartAccepted`). After a crash between the tables
   and the manifest entry, reconciliation raises "Inconsistent core state" before the
   region could be processed again.
4. **Two reservations at a time** (`OneReservation`). A lost answer of `oarsub` that
   is not a timeout makes the batch failed, and the next run submits it again beside
   the first job.
5. **A killed run blocks the next one** (`RestartNeverBlocked`). A run with `--force` that
   is killed after the new articles of a migrated region were written and before its
   documents were leaves articles that the document table does not hold; the
   pre-publication migration of the next run finds the region blocked and refuses every
   region (`sync_planning.py:123-132` with `persistence.py:129-178` and `steps.py:148`).
   Without `--force` it takes two kills and runs without `--push` (with it finding 3 comes
   first). `docs/architecture.md:68` calls the workflows safe to stop and restart.
6. **A statistics release drops the language section** (`StatsKeepLanguages`). The
   remote card is read, merged and committed without a parent revision
   (`hf/_stats_release/remote.py:84`, `:121`, `hf/stats_release.py:323`); a language
   release that commits in between loses its section of the card. The comment at
   `hf/_stats_release/card_merge.py:54-57` says that must never happen.
7. **An import installs sentences of replaced sections** (`ImportedMatchesSource`). The
   outputs are installed before the checkpoint's identity is compared
   (`sentence_controller_import.py:122-124`), against steps 2 and 3 of
   `docs/grid5000-sentence-splitting.md`. The comparison then raises, and the next local
   run splits the table again.
8. **Files of retired children stay** (`RetiredFilesRemoved`). A kill after
   `_persist_prepared_rule` leaves the children's files: `_pending_rule` drops retired
   children before the cleanup branch of `prepare_local_rule` can see them
   (`containment_migration.py:441-444`, `:454-457`).
9. **The quarantine may hold something else** (`QuarantineKeepsOriginals`). `_copy_once`
   (`containment_migration.py:340`) keeps any file of that name: a torn copy of a killed
   run, or the copy of an older edition.
10. **An import takes back a local manifest entry** (`ManifestKept`). The incoming manifest
   is compared with the local one (`sentence_controller_import.py:102`) and copied over it
   (`:122`) after the outputs were validated; a local pass, under another lock, may have
   written its entries in between. The docstring of `validate_manifest_extension` says
   that a manifest "only appends verified regions".
11. **A merge marks missing facts as current** (`CurrentMeansAugmented`).
   `_update_augmentation_manifest` writes the hashes of the merged polygons whatever the
   entry said before (`containment_migration.py:416-432`); if a child, or the parent, was
   killed between its polygons and its augmentation, later runs take the parent for
   augmented and its facts stay away until it is processed again.

Other behaviours that the models show, on which no document commits itself or which
are conditions of the results above.

Publishing and sync:

- When opening the queue raises, its worker is never sent the pill and waits on
  (`upload_queue.py:75`).
- A link migration replaces the pending file as part of its transaction, without the
  file's lock.
- A migration overwrites what the upload worker writes to the shared manifests of other
  regions between its staging and its replacement: they have no lock in common. What
  was written before the run read them is never undone (`OnlyConcurrentUpdatesLost`).
- Sync and core commands have separate queues and one marker: either clears it under jobs
  that wait in the other's queue (`core_publication.py:206-210`), and the refresh that these
  jobs need is then on no record. A sync compares the marker with nothing
  (`sync_application.py:218-238`): over a part of the regions it refreshes the assets while
  a region that an earlier run recorded is not on the Hub, where `docs/architecture.md:126`
  says that the refresh runs only when "the run published each recorded region".
- A region that was interrupted between its change and its submission is published by a
  later run without its polygons when the plan finds them present on the Hub
  (`sync_application.py:537-554`), which retires the intent; the Hub keeps the old polygons.
  An upload that used up its attempts is repeated by the next run after newer ones of its
  region, and takes it back. `OnlyExposedUnnoticed` allows these two.
- The plan never assigns the action *publish* (`sync_planning.py:80` against
  `sync_planner.py:99-106`), so that phase of the runner is never entered: a current
  region whose publication is owed is published by its recovery visit.
- An old repair journal, found long after, overwrites newer content
  (`_wikidata_recovery/transaction.py:45`); a repair directory without a journal blocks
  later repairs (`repair_outputs.py:148`).
- Login requests ignore `Retry-After` (`wikimedia_auth.py:293`).
- One cancellation flag serves the whole process (`utils/retry.py:44`): a failing pool
  can cut short the wait of an upload.

Augmentation and containment:

- Main thread and worker may each overwrite the other's manifest update (`steps.py:464`).
- A region may be processed again between the worker's check and its deletion of the
  articles (`wikipedia_retirement.py:145-151`): the table that goes is then a newer one than
  the one checked, where the docstring says "only after all safety checks succeed".
- The sidecars a forced run was killed over count as current when the core tables are as
  before (`existing_results.py:57-70`), so no run without `--force` sees the mixture.
- A kill between the two rewrites of a rejection leaves sections without documents
  until the region is augmented again (`integrity.py:202`); in a forced run this is a case
  of the mixture above.
- The manifest's counts are those before rejections (`orchestrator.py:248`).
- A parent processed again after the retirement loses the rows only its children had:
  they are no longer inputs. Tables other than polygons keep the parent's row even when
  a child's is newer. A child's job left in the queue is uploaded after the inventory
  was read; the child is deleted by the following run. Runs without `--push` prepare
  nothing. A child that was killed before its links were replaced may have links of
  polygons it no longer has: the merge raises `KeyError` for them when they are new to the
  parent, and leaves the parent's own dangling link otherwise.

V2, sentences and releases:

- A region merged while the index was half built and skipped by later runs may hold
  provisional links, published too (`NoProvisionalPublished` fails for a region whose tags
  are all on V1 polygons its PBF lost: `reuse.py:103-107` against `runner.py:353`); rows of
  a shard that was deleted while its scan was interrupted stay in the index
  (`StaleRowsRemoved`, `index_sync.py:195-196`), and a lookup of their titles raises.
- A query that read its references before the index was complete, and filled the caches
  after, is answered from them at reconciliation (`index_queries.py:229-240`, `:315-336`,
  `:275-290`): the row cache keeps what any query read, neither cache is dropped when the
  index completes, and a scan that starts over clears the row cache under a
  query that is about to read it (`CacheRace`). `OnlyEarlyAnswersInexact` allows these titles.
- When an append failed after its chunk was written, the flush in `except BaseException`
  (`extractor.py:218-222`) writes the same row again as the next chunk
  (`checkpoints.py:329-341`), and loading does not remove duplicates: the docstring of
  `extract_v2_pbf` says that "already completed extraction work is never written twice".
  `ExtractionExact` therefore speaks of the set of rows and their order.
- A failed speculative fetch raises although the index would have made it unnecessary
  (against `direct_enrichment.py:455-458`). `remote_region_complete` looks at presence only
  (`v2/publication.py:91`). A shard that changed since it was indexed gives a wrong row
  (`index_queries.py:134`) until reconciliation.
- Between plan and generation the sources may change; fingerprints are compared only in
  the *generate* command (`language_split_release.py:336-357`), so the published card may
  describe other counts than the files (`CardMatchesFiles`). A lost read of the remote
  manifest counts as no manifest (`language_split_remote.py:307-312`), and shards of a table
  that left the inventory are never stale (`:347-359`): such shards stay for good, a
  retired `part-0-of-1` beside a `part-0-of-2` with the same rows, in a release that
  verifies (`OnlyOrphansRepeatRows`, `OnlyOrphansUnlisted`). A sync that publishes its card drops the
  language section (`readme_snapshot.py:149-184`).
- A table that a local pass and an import are in at the same time may end complete with
  rows of both: they take different locks (`cli/commands.py:152`,
  `sentence_controller.py:182`). A job that was killed while it wrote a `metadata.json` leaves
  a temporary file, or none, on which the import of the whole batch raises
  (`sentence_protocol.py:371-417`). The segmenter's version is
  not part of a checkpoint's identity (`sentence_runner.py:394-407`); a local run splits
  imported tables again because the checkpoint names the job's output path
  (`sentence_checkpoints.py:217`).
- Checkpoints name no source commit: after a failed attempt and a change of the checkout a
  published table can mix the rows of two commits (`sentence_controller_import.py:51`,
  `:126-153`, `sentence_controller_batches.py:152-159`). `oarstat` that fails for good is an
  "unknown" state and is polled without end (`:196-214`).
- Ctrl-C leaves a batch `cancelled`, which every later run refuses
  (`sentence_controller_lifecycle.py:123`); an import refused because local data
  changed leaves its batch running.

## 7. Not modelled

- Row construction, parsing, text cleaning, geometry, aggregation, maps and the text of
  cards: data transformation without state.
- The response caches of the Wikimedia clients and the batching of their requests
  (`enrichment/`), and the checkpoints of a repair's fetching inside `_wikidata_recovery`: a
  repair's content is one step.
- V2 runs without `--push`, a high-water mark damaged from outside, and sentences split
  locally before the controller's first run.
- The records of the rejection ledger: they document rejections and decide no step.
- Argument parsing, logging, progress display, configuration: wiring.
- Validation of malformed pending files and of journals edited by hand.
- `defer` and `report_throttled` of the scheduler (no callers) and its telemetry.
- The internals of git, OAR, ssh, SQLite, the Hub and the Wikimedia hosts: they appear as
  actions with every outcome the code distinguishes.
- Presentations, scripts and tests.

## 8. Plan

The order was: the queue (everything depends on its promise), the intent file that
two threads share, the two journaled transactions, the runner that composes them, the
controller, the request pool; then the V2 build with its index, augmentation, the
releases, sentence splitting and containment.

Proved are the queue with its refinement, the intent file, both journaled transactions,
the request pool, the controller, the V2 build and containment. What remains, most
important first, each with the strengthening it needs checked by TLC beforehand:
`CleanRunPublishes` and `OnlyExposedUnnoticed` of `SyncRunner` (every changed region is
at hand, owed an upload, exposed, or current on the Hub); `OnlyHalfWrittenInconsistent` of
`Augmentation`; `OnlyMixedSkippedWrong` of `SentenceSplitting`; the properties of `Releases`;
the type invariants of these modules. No module uses a recursive operator where a theorem is meant to be.

## 9. How to run

    tlc -workers 2 -config UploadQueue.cfg MCUploadQueue
    tlapm UploadQueueProofs.tla

`PROJECT.json` lists module and configuration of each run. No run takes more than two
or three minutes with two workers; the proofs of each module take several.
