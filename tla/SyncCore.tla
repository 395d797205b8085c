------------------------------ MODULE SyncCore ------------------------------
(***************************************************************************)
(* The pure decisions of the indexer (ugraph-node): the order of logs, what *)
(* a pass scans, which log runs next, where a pass starts and ends, and how *)
(* retained history grows, is trimmed and is rolled back.  Nothing here has *)
(* state; Indexer composes these operators into passes.                     *)
(*                                                                          *)
(* Abstraction of the data.  A data source is its address.  The entity      *)
(* store is the sequence of logs whose handlers were committed to it: two   *)
(* runs that commit the same logs in the same order build the same          *)
(* entities, and a reordered, repeated or missing log shows.  An event      *)
(* carries the templates its handler creates and whether its handler's      *)
(* entities validate.                                                       *)
(***************************************************************************)
EXTENDS EthLogs, FiniteSets, SequencesExt

NotCached == -2    \* no entry in the block metadata cache

(***************************************************************************)
(* Logs.                                                                    *)
(***************************************************************************)
\* log_identity: what a processed-log cursor remembers.  No block hash in it.
LogId(l) == <<l.ev.addr, l.blk, l.ev.idx>>

\* scan_source_range: a source is scanned from its start block or from the
\* start of the pass, whichever is later (NoBlock is below every block).
ScanSourceRange(c, src, from, to) ==
    GetLogs(c, src.addr, MaxOf(from, src.at), to)

Unprocessed(pending, done) == {l \in pending : LogId(l) \notin done}

\* Fault: any unprocessed log may run next.
NextUnprocessedLogsUnordered(pending, done) == Unprocessed(pending, done)

\* next_unprocessed_log: an earliest pending log that is not processed yet
\* (the logs of one block that a reorg splits over two scans may tie).
NextUnprocessedLogs(pending, done) ==
    {l \in Unprocessed(pending, done) :
        \A m \in Unprocessed(pending, done) : ~Before(m, l)}

HasUnprocessedLogInBlock(pending, done, b) ==
    \E l \in Unprocessed(pending, done) : l.blk = b

\* The guard at the top of the execution loop: --limit is a soft cap that is
\* only honoured between blocks.
LimitReached(limit, executed, log, lastBlock) ==
    limit = 0 \/ (executed >= limit /\ log.blk # lastBlock)

(***************************************************************************)
(* Where a pass starts and ends.                                            *)
(***************************************************************************)
\* Fault: an unfinished pass resumes behind its target.
SyncStartBlockSkipping(configured, hasPrevious, ckpt) ==
    IF ~hasPrevious THEN configured ELSE ckpt.to + 1

\* sync_start_block.
SyncStartBlock(configured, hasPrevious, ckpt) ==
    IF ~hasPrevious THEN configured
    ELSE IF ckpt.complete THEN ckpt.to + 1
    ELSE IF ckpt.from # NoBlock THEN ckpt.from
    ELSE ckpt.to

\* Fault: the head itself is taken for an exclusive bound.
BoundedToBlockExclusive(from, head, perPass) ==
    IF from + MaxOf(perPass - 1, 0) < head THEN from + MaxOf(perPass - 1, 0)
    ELSE MaxOf(head - 1, 0)

\* bounded_to_block_from_head.
BoundedToBlockFromHead(from, head, perPass) ==
    IF from > head THEN head
    ELSE IF from + MaxOf(perPass - 1, 0) <= head THEN from + MaxOf(perPass - 1, 0)
    ELSE head

\* bounded_sync_to_block, followed by scan_static_sources' own default of the
\* chain head when the target is still None.
BoundedSyncToBlock(from, explicitTo, perPass, head) ==
    IF explicitTo # NoBlock THEN explicitTo
    ELSE IF perPass = 0 \/ from = NoBlock THEN head
    ELSE BoundedToBlockFromHead(from, head, perPass)

\* should_keep_previous_checkpoint: an idle pass at an RPC whose head is not
\* beyond the checkpoint writes nothing.
ShouldKeepPrevious(prev, from, to, complete, executed, errors, explicitTo) ==
    /\ explicitTo = NoBlock
    /\ prev.complete
    /\ complete
    /\ executed = 0
    /\ errors = 0
    /\ to <= prev.to
    /\ from # NoBlock
    /\ from > to

(***************************************************************************)
(* Retained history: a sequence of [ckpt, applied, dyn], oldest first.      *)
(***************************************************************************)
\* A set of indices ordered by their keys, and by themselves where keys tie: the
\* index at k is the one that has k of them up to itself.
InOrder(indices, key) ==
    LET upTo(j) == {i \in indices : key[i] < key[j] \/ (key[i] = key[j] /\ i <= j)}
    IN  [k \in 1 .. Cardinality(indices) |->
            CHOOSE j \in indices : Cardinality(upTo(j)) = k]

\* The elements of a sequence that lie in a set (retain, filter).
KeepOnly(seq, S) ==
    LET kept == {i \in DOMAIN seq : seq[i] \in S}
        at   == InOrder(kept, [i \in kept |-> i])
    IN  [k \in DOMAIN at |-> seq[at[k]]]

\* sort_by_key on the block of the checkpoint.
SortByToBlock(seq) ==
    LET at == InOrder(DOMAIN seq, [i \in DOMAIN seq |-> seq[i].ckpt.to])
    IN  [k \in DOMAIN at |-> seq[at[k]]]

\* retain and push: an entry replaces the one of its block.
Replacing(history, entry) ==
    Append(KeepOnly(history, {e \in Range(history) : e.ckpt.to # entry.ckpt.to}), entry)

\* Fault: the newest entries are dropped instead of the oldest.
PushHistoryDropsNewest(history, entry, limit) ==
    LET all == SortByToBlock(Replacing(history, entry))
    IN  SubSeq(all, 1, IF limit > 0 /\ Len(all) > limit THEN limit ELSE Len(all))

\* push_history_snapshot: one entry per block number, sorted, the oldest
\* dropped above a positive limit.  (A singleton stands for its element: TLC then
\* evaluates each stage once.)
PushHistorySnapshot(history, entry, limit) ==
    LET stages    == {SortByToBlock(r) : r \in {Replacing(h, entry) : h \in {history}}}
        excess(n) == IF limit > 0 THEN MaxOf(n - limit, 0) ELSE 0
    IN  CHOOSE pushed \in {SubSeq(all, excess(Len(all)) + 1, Len(all)) : all \in stages} : TRUE

\* merge_history: the previous history, the previous snapshot itself, the
\* per-block entries of this pass and the new checkpoint.
MergeHistory(base, news, limit) ==
    FoldLeft(LAMBDA h, e : PushHistorySnapshot(h, e, limit), base, news)

HistoryEntry(s) == [ckpt |-> s.ckpt, applied |-> s.applied, dyn |-> s.dyn]

UpToBlock(history, b) == KeepOnly(history, {e \in Range(history) : e.ckpt.to <= b})

\* Fault: the dynamic sources survive the rollback.
RollbackKeepsSources(s, entry) ==
    [s EXCEPT !.ckpt = entry.ckpt, !.applied = entry.applied, !.done = {},
              !.history = UpToBlock(s.history, entry.ckpt.to)]

\* Fault: the history behind the entry survives the rollback.
RollbackKeepsHistory(s, entry) ==
    [s EXCEPT !.ckpt = entry.ckpt, !.applied = entry.applied, !.dyn = entry.dyn,
              !.done = {}]

\* rollback_to_historical_snapshot (with materialize_historical_snapshot):
\* the store of the entry, its history, and no processed-log cursors.
RollbackToHistoricalSnapshot(s, entry) ==
    [s EXCEPT !.ckpt = entry.ckpt,
              !.applied = entry.applied,
              !.dyn = entry.dyn,
              !.done = {},
              !.history = UpToBlock(s.history, entry.ckpt.to)]

\* block_hash_mismatch: an RPC that has no hash for the block is no mismatch.
BlockHashMismatch(stored, rpc) == rpc # NoHash /\ stored # rpc

(***************************************************************************)
(* The reference: what an index of blocks `origin' .. `to' of a chain holds *)
(* when every log is handled once, in chain order, and a template's logs    *)
(* count from the log that created it.  Static sources are [addr, at].      *)
(***************************************************************************)
ChainLogs(c, to) ==
    LET all == UNION {BlockLogs(c, b) : b \in BlocksIn(c, 0, to)}
    IN  [i \in 1 .. Cardinality(all) |->
            CHOOSE l \in all : Cardinality({m \in all : Before(m, l)}) = i - 1]

IdealRun(c, static, origin, to) ==
    FoldLeft(LAMBDA acc, l :
                IF \/ l.ev.addr \in acc.live
                   \/ \E s \in static : s.addr = l.ev.addr /\ l.blk >= MaxOf(origin, s.at)
                THEN [live |-> acc.live \cup l.ev.creates, out |-> Append(acc.out, l)]
                ELSE acc,
             [live |-> {}, out |-> <<>>],
             ChainLogs(c, to))

Ideal(c, static, origin, to) == IdealRun(c, static, origin, to).out
=============================================================================
