------------------------------- MODULE Indexer -------------------------------
(***************************************************************************)
(* `ugraph-node sync' reading logs from RPC: one process runs passes of     *)
(* sync_once, once or in the --watch loop, against a chain that grows and   *)
(* reorganises underneath it and one durable snapshot per deployment.       *)
(*                                                                          *)
(* Every request to the RPC and every access to the store is a step of its  *)
(* own, so the chain may move between any two of them:                      *)
(*                                                                          *)
(*   down -> load -> check -> probe* -> range -> scan* -> execute* -> load  *)
(*                                                                          *)
(* A pass that fails (RPC, handler trap) returns to load in --watch mode    *)
(* and ends the process otherwise; a crash ends it at any point.  Only the  *)
(* snapshot `db' survives; write_with_activity is one transaction.          *)
(***************************************************************************)
EXTENDS Chain, SyncCore

CONSTANTS
    StaticSources,     \* manifest data sources: a set of [addr, at]
    FromArgs, ToArgs,  \* --from-block and --to-block an operator may pass
    ResetArgs,         \* --reset
    WatchArgs,         \* --watch
    Policies,          \* --reorg-policy
    Limit,             \* --limit
    HistoryLimit,      \* --history-limit
    ReorgCheckDepth,   \* --reorg-check-depth
    MaxBlocksPerPass,  \* --max-blocks-per-pass
    ReorgDuringPass,   \* may the chain reorganise while a pass runs?
    MaxHeadLag,        \* how far behind the head an RPC candidate may answer
    MaxFaults          \* bound: failed passes and crashes

BlockNumbers == 0 .. MaxHead

ASSUME IndexerConstants ==
    /\ \A s \in StaticSources : s.at \in Nat
    /\ FromArgs \subseteq BlockNumbers \cup {NoBlock}
    /\ ToArgs \subseteq BlockNumbers \cup {NoBlock}
    /\ ResetArgs \subseteq BOOLEAN /\ WatchArgs \subseteq BOOLEAN
    /\ Policies \subseteq {"fail", "rollback", "reset"}
    /\ {Limit, HistoryLimit, ReorgCheckDepth, MaxBlocksPerPass} \subseteq Nat
    /\ {MaxHeadLag, MaxFaults} \subseteq Nat
    /\ ReorgDuringPass \in BOOLEAN

\* The events of a block have an index of their own each.
ASSUME BodyConstants ==
    \A body \in Contents :
        /\ IsFiniteSet(body)
        /\ \A e \in body : e.idx \in Nat
        /\ \A e, f \in body : e.idx = f.idx => e = f

VARIABLES
    db,        \* the durable snapshot of the deployment
    pc,        \* where the process is
    args,      \* the command line, as the watch loop rewrites it
    prev,      \* the snapshot the pass continues from
    run,       \* run_replay's locals
    faults     \* failed passes and crashes so far

procVars == <<db, pc, args, prev, run, faults>>
vars == <<chain, forks, reorgs, db, pc, args, prev, run, faults>>

NoCheckpoint == [from |-> NoBlock, to |-> NoBlock, hash |-> NoHash,
                 complete |-> FALSE]

\* `origin' is a history variable: the block the first pass of this
\* snapshot's life was told to start at.
NoSnapshot == [ckpt |-> NoCheckpoint, applied |-> <<>>, dyn |-> {},
               done |-> {}, history |-> <<>>, origin |-> NoBlock]

NoRun == [from |-> NoBlock, to |-> NoBlock, todo |-> {}, pending |-> {},
          done |-> {}, applied |-> <<>>, dyn |-> {}, executed |-> 0,
          last |-> NoBlock, errors |-> 0, meta |-> NotCached,
          history |-> <<>>, probe |-> 0]

NoArgs == [from |-> NoBlock, to |-> NoBlock, reset |-> FALSE,
           watch |-> FALSE, policy |-> "fail"]

IsSome(snapshot) == snapshot.ckpt.to # NoBlock

RpcHeads == MaxOf(HeadBlock - MaxHeadLag, 0) .. HeadBlock

Passing == pc # "down"

Init ==
    /\ ChainInit
    /\ db = NoSnapshot
    /\ pc = "down"
    /\ args = NoArgs
    /\ prev = NoSnapshot
    /\ run = NoRun
    /\ faults = 0

(***************************************************************************)
(* The chain moves.                                                         *)
(***************************************************************************)
Mine == MineBlock /\ UNCHANGED procVars

Reorg ==
    /\ ReorgDuringPass \/ pc \in {"down", "load"}
    /\ ReplaceBlocks
    /\ UNCHANGED procVars

(***************************************************************************)
(* The process.                                                             *)
(***************************************************************************)
\* An operator (or the container) starts the indexer.
Launch ==
    /\ pc = "down"
    /\ \E f \in FromArgs, t \in ToArgs, r \in ResetArgs,
         w \in WatchArgs, p \in Policies :
          args' = [from |-> f, to |-> t, reset |-> r, watch |-> w, policy |-> p]
    /\ pc' = "load"
    /\ UNCHANGED <<chainVars, db, prev, run, faults>>

\* The end of a pass, Ok or Err: the watch loop forgets --from-block and
\* --reset and goes again, anything else exits.
EndPass ==
    /\ IF args.watch
       THEN pc' = "load" /\ args' = [args EXCEPT !.from = NoBlock, !.reset = FALSE]
       ELSE pc' = "down" /\ args' = NoArgs
    /\ prev' = NoSnapshot
    /\ run' = NoRun

\* sync_once up to apply_reorg_policy: try_load, unless --reset.  Without a
\* stored hash there is nothing to compare.
Load ==
    /\ pc = "load"
    /\ prev' = IF args.reset THEN NoSnapshot ELSE db
    /\ pc' = IF prev'.ckpt.hash = NoHash THEN "range" ELSE "check"
    /\ UNCHANGED <<chainVars, db, args, run, faults>>

\* Fault: the head block is asked for instead of the checkpoint block.
CheckpointHashesLatest == RpcHashes(HeadBlock)

\* checkpoint_reorg_mismatch: what the RPC has for the checkpoint block.
CheckpointHashes == RpcHashes(prev.ckpt.to)

\* apply_reorg_policy: the stored checkpoint hash against the RPC's.
CheckCheckpoint ==
    /\ pc = "check"
    /\ \E hash \in CheckpointHashes :
          \/ /\ ~BlockHashMismatch(prev.ckpt.hash, hash)
             /\ pc' = "range"
             /\ UNCHANGED <<prev, run, args>>
          \/ /\ BlockHashMismatch(prev.ckpt.hash, hash)
             /\ \/ args.policy = "fail" /\ EndPass
                \/ /\ args.policy = "rollback"
                   /\ run' = [run EXCEPT !.probe = Len(prev.history)]
                   /\ pc' = "probe"
                   /\ UNCHANGED <<prev, args>>
                \/ /\ args.policy = "reset"
                   /\ prev' = NoSnapshot
                   /\ pc' = "range"
                   /\ UNCHANGED <<run, args>>
    /\ UNCHANGED <<chainVars, db, faults>>

\* rollback_reorg_snapshot: one retained checkpoint per step, newest first.
ProbeHistory ==
    /\ pc = "probe"
    /\ \/ /\ run.probe = 0 \/ Len(prev.history) - run.probe >= ReorgCheckDepth
          /\ EndPass
       \/ /\ run.probe > 0 /\ Len(prev.history) - run.probe < ReorgCheckDepth
          /\ LET entry == prev.history[run.probe]
             IN \E hash \in RpcHashes(entry.ckpt.to) :
                  IF entry.ckpt.hash # NoHash /\ ~BlockHashMismatch(entry.ckpt.hash, hash)
                  THEN /\ prev' = RollbackToHistoricalSnapshot(prev, entry)
                       /\ run' = NoRun
                       /\ pc' = "range"
                  ELSE /\ run' = [run EXCEPT !.probe = @ - 1]
                       /\ UNCHANGED <<prev, pc>>
          /\ UNCHANGED args
    /\ UNCHANGED <<chainVars, db, faults>>

\* sync_once's set-up: start block, target block (one eth_blockNumber), the
\* store, the processed-log cursors of an unfinished pass, and the sources
\* run_replay will scan.
ChooseRange ==
    /\ pc = "range"
    /\ LET from == SyncStartBlock(args.from, IsSome(prev), prev.ckpt)
       IN \E head \in RpcHeads :
            run' = [NoRun EXCEPT
                      !.from = from,
                      !.to = BoundedSyncToBlock(from, args.to, MaxBlocksPerPass, head),
                      !.todo = StaticSources \cup prev.dyn,
                      !.done = IF prev.ckpt.complete THEN {} ELSE prev.done,
                      !.applied = prev.applied,
                      !.dyn = prev.dyn]
    /\ prev' = IF IsSome(prev) THEN prev ELSE [prev EXCEPT !.origin = args.from]
    /\ pc' = "scan"
    /\ UNCHANGED <<chainVars, db, args, faults>>

\* One source of scan_static_sources, then one known dynamic source at a
\* time: all the logs of its range, whatever was already executed.
ScanSource ==
    /\ pc = "scan"
    /\ run.todo # {}
    /\ \E src \in run.todo :
          /\ src \in StaticSources \/ run.todo \cap StaticSources = {}
          /\ run' = [run EXCEPT
                       !.todo = @ \ {src},
                       !.pending = @ \cup ScanSourceRange(chain, src, run.from, run.to)]
    /\ UNCHANGED <<chainVars, db, pc, args, prev, faults>>

ScansDone ==
    /\ pc = "scan"
    /\ run.todo = {}
    /\ pc' = "execute"
    /\ UNCHANGED <<chainVars, db, args, prev, run, faults>>

\* cached_block_metadata as far as a checkpoint can see it: the hash of the
\* target block is fetched once, with the first log executed in that block.
\* An answer without a hash is cached too; a failed request is not.
MetaAfter(b) ==
    IF b = run.to /\ run.meta = NotCached
    THEN RpcHashes(b) \cup (IF HashFaults THEN {NotCached} ELSE {})
    ELSE {run.meta}

\* The templates a log instantiates that are not followed yet.
NewSources(log) ==
    {[addr |-> a, at |-> log.blk] :
        a \in {c \in log.ev.creates : \A s \in run.dyn : s.addr # c}}

\* The logs a new source contributes: from its creation block on, but only
\* behind the log that created it.
NewSourceLogs(log) ==
    {l \in UNION {ScanSourceRange(chain, s, log.blk, run.to) : s \in NewSources(log)} :
        Before(log, l)}

\* One iteration of the execution loop whose handler validates: commit the
\* candidate store, remember the log, follow new sources, and record history
\* once the block has no unprocessed log left.
ExecuteLog ==
    /\ pc = "execute"
    /\ \E log \in NextUnprocessedLogs(run.pending, run.done) :
          /\ ~LimitReached(Limit, run.executed, log, run.last)
          /\ log.ev.ok
          /\ \E meta \in MetaAfter(log.blk) :
             LET pending == run.pending \cup NewSourceLogs(log)
                 done    == run.done \cup {LogId(log)}
                 applied == Append(run.applied, log)
                 dyn     == run.dyn \cup NewSources(log)
                 entry   == [ckpt |-> [from |-> run.from, to |-> log.blk,
                                       hash |-> log.fork, complete |-> FALSE],
                             applied |-> applied, dyn |-> dyn]
             IN run' = [run EXCEPT
                          !.pending = pending, !.done = done, !.applied = applied,
                          !.dyn = dyn, !.executed = @ + 1, !.last = log.blk,
                          !.meta = meta,
                          !.history = IF HasUnprocessedLogInBlock(pending, done, log.blk)
                                      THEN @ ELSE PushHistorySnapshot(@, entry, 0)]
    /\ UNCHANGED <<chainVars, db, pc, args, prev, faults>>

\* A handler whose store.set payload fails validation ends the pass: the
\* candidate store is dropped and the log stays unprocessed.
RejectLog ==
    /\ pc = "execute"
    /\ \E log \in NextUnprocessedLogs(run.pending, run.done) :
          /\ ~LimitReached(Limit, run.executed, log, run.last)
          /\ ~log.ev.ok
          /\ \E meta \in MetaAfter(log.blk) :
             run' = [run EXCEPT !.executed = @ + 1, !.errors = @ + 1, !.meta = meta]
    /\ pc' = "finish"
    /\ UNCHANGED <<chainVars, db, args, prev, faults>>

\* The loop ends: nothing pending, or the limit at a block boundary.
StopExecuting ==
    /\ pc = "execute"
    /\ \A log \in NextUnprocessedLogs(run.pending, run.done) :
          LimitReached(Limit, run.executed, log, run.last)
    /\ pc' = "finish"
    /\ UNCHANGED <<chainVars, db, args, prev, run, faults>>

\* Fault: the previous snapshot enters history with this pass's entities.
SnapshotOfAliased(ckpt) ==
    LET new == [prev EXCEPT !.ckpt = ckpt, !.applied = run.applied, !.dyn = run.dyn,
                            !.done = IF ckpt.complete THEN {} ELSE run.done]
        old == IF IsSome(prev)
               THEN <<[HistoryEntry(prev) EXCEPT !.applied = run.applied]>> ELSE <<>>
    IN  [new EXCEPT !.history =
            MergeHistory(prev.history, old \o run.history \o <<HistoryEntry(new)>>,
                         HistoryLimit)]

\* The snapshot sync_once writes: merge_history pushes the previous snapshot,
\* the per-block entries and the new checkpoint.
SnapshotOf(ckpt) ==
    LET new == [prev EXCEPT !.ckpt = ckpt,
                            !.applied = run.applied,
                            !.dyn = run.dyn,
                            !.done = IF ckpt.complete THEN {} ELSE run.done]
        old == IF IsSome(prev) THEN <<HistoryEntry(prev)>> ELSE <<>>
    IN  [new EXCEPT !.history =
            MergeHistory(prev.history, old \o run.history \o <<HistoryEntry(new)>>,
                         HistoryLimit)]

\* Fault: a target block without an executed log is never asked for.
TargetHashesCached == {run.meta}

\* The hash of the target block: from the cache, else one more request.
TargetHashes ==
    IF run.meta = NotCached THEN RpcHashes(run.to) ELSE {run.meta}

\* The end of run_replay and of sync_once: completeness, the target block's
\* hash, and either nothing (an idle pass) or one transaction.
FinishPass ==
    /\ pc = "finish"
    /\ \E hash \in TargetHashes :
       LET ckpt == [from |-> run.from, to |-> run.to, hash |-> hash,
                    complete |-> Unprocessed(run.pending, run.done) = {}]
       IN db' = IF /\ IsSome(prev)
                   /\ ShouldKeepPrevious(prev.ckpt, run.from, run.to, ckpt.complete,
                                         run.executed, run.errors, args.to)
                THEN db
                ELSE SnapshotOf(ckpt)
    /\ EndPass
    /\ UNCHANGED <<chainVars, faults>>

\* Any ? of sync_once: an RPC request or a handler fails.
FailPass ==
    /\ Passing
    /\ faults < MaxFaults
    /\ faults' = faults + 1
    /\ EndPass
    /\ UNCHANGED <<chainVars, db>>

\* The process dies; whatever was not written is gone.
Crash ==
    /\ Passing
    /\ faults < MaxFaults
    /\ faults' = faults + 1
    /\ pc' = "down"
    /\ args' = NoArgs
    /\ prev' = NoSnapshot
    /\ run' = NoRun
    /\ UNCHANGED <<chainVars, db>>

Step ==
    \/ Launch \/ Load \/ CheckCheckpoint \/ ProbeHistory \/ ChooseRange
    \/ ScanSource \/ ScansDone \/ ExecuteLog \/ RejectLog \/ StopExecuting
    \/ FinishPass

Next == Mine \/ Reorg \/ Step \/ FailPass \/ Crash

Spec == Init /\ [][Next]_vars

\* The process keeps being scheduled (and restarted); nothing is assumed of
\* the chain or of failures.
FairSpec == Spec /\ WF_vars(Step)

(***************************************************************************)
(* Properties.                                                              *)
(***************************************************************************)
LogOf(l) ==
    /\ DOMAIN l = {"blk", "fork", "ev"}
    /\ l.blk \in Nat /\ l.fork \in 0 .. forks - 1

CheckpointOK(c) ==
    /\ DOMAIN c = {"from", "to", "hash", "complete"}
    /\ c.from \in Nat \cup {NoBlock}
    /\ c.to \in Nat \cup {NoBlock}
    /\ c.hash \in 0 .. forks - 1 \cup {NoHash}
    /\ c.complete \in BOOLEAN

StoreOK(s) ==
    /\ CheckpointOK(s.ckpt)
    /\ \A i \in DOMAIN s.applied : LogOf(s.applied[i]) /\ s.applied[i].ev.ok
    /\ \A d \in s.dyn : d.at \in Nat

\* The types of the state: the snapshot, the pass in progress and the chain
\* hold blocks, hashes and logs that existed.
TypeOK ==
    /\ Len(chain) \in 1 .. MaxHead + 1
    /\ \A b \in DOMAIN chain : chain[b].fork \in 0 .. forks - 1
    /\ reorgs \in 0 .. MaxReorgs
    /\ faults \in 0 .. MaxFaults
    /\ pc \in {"down", "load", "check", "probe", "range", "scan", "execute", "finish"}
    /\ StoreOK(db) /\ StoreOK(prev)
    /\ \A i \in DOMAIN db.history : StoreOK(db.history[i])
    /\ \A i \in DOMAIN run.history : StoreOK(run.history[i])
    /\ \A l \in run.pending : LogOf(l)
    /\ run.meta \in 0 .. forks - 1 \cup {NoHash, NotCached}

Canonical(c) == IsCanonical(c.to, c.hash)

\* A complete checkpoint whose hash is on the canonical chain certifies the
\* store: it holds exactly the logs of the deployment's sources up to the
\* checkpoint block, each handled once, in chain order, template sources
\* included from the log that created them on.
CheckpointCertifiesStore ==
    db.ckpt.complete /\ Canonical(db.ckpt) =>
        db.applied = Ideal(chain, StaticSources, db.origin, db.ckpt.to)

\* An unfinished pass persists a prefix of that work and cursors for exactly
\* the logs of the prefix that lie in the range it will rescan.
PartialPassIsPrefix ==
    IsSome(db) /\ ~db.ckpt.complete /\ Canonical(db.ckpt) =>
        /\ IsPrefix(db.applied, Ideal(chain, StaticSources, db.origin, db.ckpt.to))
        /\ db.done = {LogId(l) : l \in {m \in Range(db.applied) : m.blk >= db.ckpt.from}}

\* Every retained historical snapshot whose hash is canonical is the index of
\* the chain up to its own block: what a block: {number} query may serve and
\* what a rollback may resume from.
HistoryCertifiesStore ==
    \A i \in DOMAIN db.history :
        LET e == db.history[i]
        IN  Canonical(e.ckpt) =>
                e.applied = Ideal(chain, StaticSources, db.origin, e.ckpt.to)

\* History is one entry per block in block order, never beyond the
\* checkpoint, never above its limit, and its newest entry is the checkpoint.
HistoryWellFormed ==
    IsSome(db) =>
        /\ \A i, j \in DOMAIN db.history :
              i < j => db.history[i].ckpt.to < db.history[j].ckpt.to
        /\ HistoryLimit > 0 => Len(db.history) <= HistoryLimit
        /\ Last(db.history) = HistoryEntry(db)

\* Unless --reset, a complete checkpoint only moves back when the chain no
\* longer has its block.
CheckpointRegressesOnlyOnReorg ==
    [][~args.reset /\ db.ckpt.complete /\ Canonical(db.ckpt)
          => db'.ckpt.to >= db.ckpt.to]_vars

\* Once the chain stops moving, a watching indexer ends up with a complete,
\* canonical checkpoint at the head and stays there.
CatchesUp ==
    <>[](db.ckpt.complete /\ db.ckpt.to = HeadBlock /\ Canonical(db.ckpt))
=============================================================================
