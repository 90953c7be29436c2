---------------------------- MODULE V1ReuseIndex ----------------------------
(***************************************************************************)
(* The SQLite index of every Wikipedia document of the V1 dataset that the *)
(* V2 build searches by title (v2/v1_index.py, v2/index_sync.py,           *)
(* v2/index_queries.py, v2/index_scanning.py).  One background thread      *)
(* synchronises it with the V1 shards, one transaction per row group,      *)
(* while the main thread already queries it.  What is committed survives a *)
(* crash; the next run resumes inside a shard.                             *)
(*                                                                         *)
(* A shard is a Parquet path; its fingerprint (size, times, inode) is its  *)
(* version, 0 before the file exists and Gone once it is deleted.  Two     *)
(* paths may hold the same stem: the canonical one wins over the legacy    *)
(* one.                                                                    *)
(***************************************************************************)
EXTENDS Integers, Sequences, FiniteSets, Functions

CONSTANTS
    ShardSeq,      \* the shard paths in the order of effective_paths
    CanonicalOf,   \* [legacy shards -> their canonical shard], a function
    Groups,        \* row groups of a shard
    MaxVersion,    \* versions a shard goes through
    InitialV1,     \* the V1 datasets a first run may meet
    Titles,        \* Wikipedia titles
    TitleAt        \* TitleAt[s][v][g]: the title in row group g of version v

Shards == Range(ShardSeq)

NoMatch == "no-match"
Gone == -1
NoCount == -1
NoProgress == [version |-> 0, next |-> 0]
NoRow == [shard |-> "none", version |-> 0, group |-> 0]
NoCache == <<>>

ASSUME IndexAssumption ==
    /\ ShardSeq \in Seq(Shards) /\ NoMatch \notin Titles
    /\ Groups \in Nat \ {0} /\ MaxVersion \in Nat \ {0}
    /\ DOMAIN CanonicalOf \subseteq Shards
    /\ \A s \in DOMAIN CanonicalOf : CanonicalOf[s] \in Shards \ DOMAIN CanonicalOf
    /\ InitialV1 \subseteq [Shards -> 0..MaxVersion]
    /\ TitleAt \in [Shards -> [1..MaxVersion -> [1..Groups -> Titles]]]

VARIABLES
    v1,          \* [Shards -> Gone..MaxVersion], the V1 dataset on disk
    rows,        \* table documents: {[shard, version, group]}
    fileState,   \* table file_state: the version indexed completely, or 0
    progress,    \* table scan_progress
    rowCount,    \* the cached row_count of index_metadata, or NoCount
    index,       \* what the indexing thread is at
    position,    \* the shard it is at
    stop,        \* _stop, set by cancel()
    queryCache,  \* _query_cache, of the process: title -> its answer
    rowCache     \* _row_cache, of the process: document -> its row

indexVars == <<v1, rows, fileState, progress, rowCount, index, position, stop>>
cacheVars == <<queryCache, rowCache>>

-----------------------------------------------------------------------------
(* The files the index is about, and what a row of it resolves to.         *)

EffectivePaths ==
    {s \in Shards : v1[s] > 0 /\ ~(s \in DOMAIN CanonicalOf /\ v1[CanonicalOf[s]] > 0)}

TitleOf(row) == TitleAt[row.shard][row.version][row.group]

CountDistinctDocuments(table) == Cardinality({TitleOf(row) : row \in table})

RowsFor(t) == {row \in rows : TitleOf(row) = t}

FirstRow(t) ==
    LET place(row) == CHOOSE i \in DOMAIN ShardSeq : ShardSeq[i] = row.shard
    IN  CHOOSE row \in RowsFor(t) :
            \A other \in RowsFor(t) :
                \/ place(row) < place(other)
                \/ place(row) = place(other) /\ row.group <= other.group

IsReady == index = "ready"

-----------------------------------------------------------------------------
(* by_titles, called by the main thread.  Its first half raises the error  *)
(* of a dead index, answers nothing before the schema is there, takes from *)
(* the query cache what a complete index answered before, and reads the    *)
(* references of the other titles from SQLite.                             *)

QueryRaises == index = "failed"

Query(t) ==
    [asked  |-> index # "init",
     cached |-> IsReady /\ t \in DOMAIN queryCache,
     row    |-> IF index = "init" \/ RowsFor(t) = {} THEN NoRow ELSE FirstRow(t),
     early  |-> ~IsReady]

(* Its second half takes the row of a reference from the row cache, or     *)
(* reads it from the file as it is now: a missing file raises, a file that *)
(* changed since it was scanned answers with the row that now stands       *)
(* there.  An answer remembers whether its reference was read early,       *)
(* before the index was complete.                                          *)
FromFile(t, query) == ~query.cached /\ query.row # NoRow /\ t \notin DOMAIN rowCache

MaterializeRaises(t, query) == FromFile(t, query) /\ v1[query.row.shard] <= 0

Answer(title, early) == [title |-> title, early |-> early]

Materialized(t, query) ==
    IF query.cached THEN queryCache[t]
    ELSE IF query.row = NoRow THEN Answer(NoMatch, query.early)
    ELSE IF t \in DOMAIN rowCache THEN rowCache[t]
    ELSE Answer(TitleAt[query.row.shard][v1[query.row.shard]][query.row.group], query.early)

(* _cache_query looks at _complete only now, when the answer is there.     *)
FillCaches(queries) ==
    LET read == {t \in DOMAIN queries : queries[t].asked /\ ~queries[t].cached}
        found == {t \in read : queries[t].row # NoRow}
        answer(t) == Materialized(t, queries[t])
        filled(cache, titles) ==
            [t \in DOMAIN cache \cup titles |-> IF t \in titles THEN answer(t) ELSE cache[t]]
    IN  /\ rowCache' = filled(rowCache, found)
        /\ queryCache' = IF IsReady THEN filled(queryCache, read) ELSE queryCache

-----------------------------------------------------------------------------
IndexInit ==
    /\ v1 \in InitialV1
    /\ rows = {} /\ fileState = [s \in Shards |-> 0]
    /\ progress = [s \in Shards |-> NoProgress]
    /\ rowCount = NoCount
    /\ index = "off" /\ position = 1 /\ stop = FALSE
    /\ queryCache = NoCache /\ rowCache = NoCache

(* start_v1_reuse_index: the thread starts; nothing is queried before the  *)
(* schema is there.                                                        *)
StartIndex ==
    /\ index' = "init" /\ position' = 1 /\ stop' = FALSE
    /\ UNCHANGED cacheVars

(* The object of the index goes with the process.                          *)
ForgetIndex ==
    /\ index' = "off" /\ position' = 1 /\ stop' = FALSE
    /\ queryCache' = NoCache /\ rowCache' = NoCache
    /\ UNCHANGED <<v1, rows, fileState, progress, rowCount>>

InitializeSchema ==
    /\ index = "init"
    /\ index' = "stale"
    /\ UNCHANGED <<v1, rows, fileState, progress, rowCount, position, stop, cacheVars>>

StaleShards == {s \in Shards : fileState[s] # 0} \ EffectivePaths

RemoveStalePaths ==
    /\ index = "stale"
    /\ rows' = {row \in rows : row.shard \notin StaleShards}
    /\ fileState' = [s \in Shards |-> IF s \in StaleShards THEN 0 ELSE fileState[s]]
    /\ progress' = [s \in Shards |-> IF s \in StaleShards THEN NoProgress ELSE progress[s]]
    /\ rowCount' = IF StaleShards # {} THEN NoCount ELSE rowCount
    /\ rowCache' = IF StaleShards # {} THEN NoCache ELSE rowCache
    /\ index' = "files"
    /\ UNCHANGED <<v1, position, stop, queryCache>>

AtShard(s) == position <= Len(ShardSeq) /\ ShardSeq[position] = s

(* The stop flag is looked at before a shard and before a row group.       *)
StopScan ==
    /\ index \in {"files", "scan"} /\ stop
    /\ index = "files" => position <= Len(ShardSeq)
    /\ index = "scan" => progress[ShardSeq[position]].next < Groups
    /\ index' = "stopped"
    /\ UNCHANGED <<v1, rows, fileState, progress, rowCount, position, stop, cacheVars>>

UnchangedShard(s) ==
    /\ index = "files" /\ AtShard(s) /\ ~stop
    /\ s \notin EffectivePaths \/ fileState[s] = v1[s]
    /\ progress' = IF s \in EffectivePaths
                   THEN [progress EXCEPT ![s] = NoProgress] ELSE progress
    /\ position' = position + 1
    /\ UNCHANGED <<v1, rows, fileState, rowCount, index, stop, cacheVars>>

(* A plausible slip: the scan resumes without comparing the fingerprint.   *)
ResumableRowGroupAnyVersion(s) == progress[s].next

ResumableRowGroup(s) == IF progress[s].version = v1[s] THEN progress[s].next ELSE 0

PrepareShard(s) ==
    /\ index = "files" /\ AtShard(s) /\ ~stop
    /\ s \in EffectivePaths /\ fileState[s] # v1[s]
    /\ LET start == ResumableRowGroup(s) IN
       /\ rows' = IF start = 0 THEN {row \in rows : row.shard # s} ELSE rows
       /\ fileState' = IF start = 0 THEN [fileState EXCEPT ![s] = 0] ELSE fileState
       /\ progress' = [progress EXCEPT ![s] = [version |-> v1[s], next |-> start]]
       /\ rowCache' = IF start = 0 THEN NoCache ELSE rowCache
    /\ rowCount' = NoCount
    /\ index' = "scan"
    /\ UNCHANGED <<v1, position, stop, queryCache>>

CommitIndexedRowGroup(s) ==
    /\ index = "scan" /\ AtShard(s) /\ ~stop
    /\ progress[s].next < Groups
    /\ rows' = rows \cup {[shard |-> s, version |-> v1[s], group |-> progress[s].next + 1]}
    /\ progress' = [progress EXCEPT ![s].next = @ + 1]
    /\ UNCHANGED <<v1, fileState, rowCount, index, position, stop, cacheVars>>

FinalizeShard(s) ==
    /\ index = "scan" /\ AtShard(s)
    /\ progress[s].next = Groups
    /\ fileState' = [fileState EXCEPT ![s] = v1[s]]
    /\ progress' = [progress EXCEPT ![s] = NoProgress]
    /\ position' = position + 1
    /\ rowCache' = NoCache
    /\ index' = "files"
    /\ UNCHANGED <<v1, rows, rowCount, stop, queryCache>>

FinishSync ==
    /\ index = "files" /\ position > Len(ShardSeq)
    /\ rowCount' = IF rowCount = NoCount THEN CountDistinctDocuments(rows) ELSE rowCount
    /\ index' = "ready"
    /\ UNCHANGED <<v1, rows, fileState, progress, position, stop, cacheVars>>

(* Between two runs the V1 pipeline rewrites, adds or removes a shard.     *)
V1Changes(s) ==
    /\ \/ v1[s] \in 0..(MaxVersion - 1) /\ v1' = [v1 EXCEPT ![s] = @ + 1]
       \/ v1[s] > 0 /\ v1' = [v1 EXCEPT ![s] = Gone]
    /\ UNCHANGED <<rows, fileState, progress, rowCount, index, position, stop, cacheVars>>

(* An unreadable shard or a full disk ends the thread; the main thread     *)
(* sees the error at its next query or wait.                               *)
IndexFails ==
    /\ index \in {"stale", "files", "scan"}
    /\ index' = "failed"
    /\ UNCHANGED <<v1, rows, fileState, progress, rowCount, position, stop, cacheVars>>

IndexStep ==
    \/ InitializeSchema \/ RemoveStalePaths \/ StopScan \/ FinishSync
    \/ \E s \in Shards :
         UnchangedShard(s) \/ PrepareShard(s) \/ CommitIndexedRowGroup(s) \/ FinalizeShard(s)

-----------------------------------------------------------------------------
IndexTypeOK ==
    /\ v1 \in [Shards -> Gone..MaxVersion]
    /\ rows \subseteq [shard : Shards, version : 1..MaxVersion, group : 1..Groups]
    /\ fileState \in [Shards -> 0..MaxVersion]
    /\ progress \in [Shards -> [version : 0..MaxVersion, next : 0..Groups]]
    /\ rowCount \in Nat \cup {NoCount}
    /\ index \in {"off", "init", "stale", "files", "scan", "ready", "stopped", "failed"}
    /\ position \in 1..(Len(ShardSeq) + 1) /\ stop \in BOOLEAN

(* When the index reports that it is complete, it holds every row group of *)
(* every current shard, none of an earlier version of it, and the document *)
(* count it answers with is the count of its rows: however many runs were  *)
(* stopped or killed inside a shard, and whatever the V1 pipeline rewrote  *)
(* between two runs (index_sync._sync, _resumable_row_group).              *)
CompleteIndexExact ==
    IsReady =>
        /\ {row \in rows : row.shard \in EffectivePaths}
             = UNION {{[shard |-> s, version |-> v1[s], group |-> g] : g \in 1..Groups}
                      : s \in EffectivePaths}
        /\ rowCount = CountDistinctDocuments(rows)

(* _remove_stale_paths: "Remove cached rows for shards no longer present   *)
(* in the file set."  It looks the old shards up in file_state, where a    *)
(* shard whose scan was interrupted is not listed.                         *)
StaleRowsRemoved == IsReady => \A row \in rows : row.shard \in EffectivePaths
=============================================================================
