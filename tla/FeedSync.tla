------------------------------ MODULE FeedSync ------------------------------
(***************************************************************************)
(* `ugraph deploy --log-source postgres-feed': one command that alternates  *)
(* chain-reader passes of its own with sync passes that read the feed, until *)
(* the sources its mappings created are backfilled, beside the chain-reader *)
(* services that work on the same tables (ChainFeed).                       *)
(*                                                                          *)
(*  off -> register -> read -> load -> target -> feed <-> execute -> finish  *)
(*            ^                                                       |      *)
(*            +------------- deploy_should_continue ------------------+      *)
(*                                                                          *)
(* A sync pass talks to the feed in single statements, listed in dep.queue: *)
(* a static source is checked and then loaded, a template's source is       *)
(* registered, loaded and then checked.  The chain only grows here, so      *)
(* apply_reorg_policy returns the stored snapshot and the retained history  *)
(* (Indexer) is never read.                                                 *)
(***************************************************************************)
EXTENDS ChainFeed, SyncCore

CONSTANTS
    Deployer,      \* the reader inside the deploy command
    Manifest,      \* the static subscriptions, in plan order
    FromArgs,      \* --from-block values (NoBlock: none)
    ResetArgs,     \* --reset values
    MaxPasses,     \* --max-passes
    Limit,         \* --limit
    MaxDeploys     \* bound: number of deploy commands

ASSUME DeployConstants ==
    /\ Deployer \in Readers
    /\ IsFiniteSet(Subs)
    /\ Manifest \in Seq(Subs)
    /\ FromArgs \subseteq Nat \cup {NoBlock}
    /\ MaxPasses \in Nat /\ Limit \in Nat
    /\ \A s \in Subs : \E p \in Registrations : p.sub = s
    /\ \A body \in Contents : IsFiniteSet(body) /\ \A e \in body : e.idx \in Nat
    /\ MaxReorgs = 0

VARIABLES
    dep,       \* the locals of the deploy command
    snap,      \* the deployment's stored snapshot
    deploys,   \* deploy commands so far
    raced,     \* auxiliary: has another reader written while a deploy ran?
    lowered    \* auxiliary: did the feed's highest cursor fall while one ran?

aux == <<raced, lowered>>
deployVars == <<vars, dep, snap, deploys, aux>>

Static == Range(Manifest)
Templates == Subs \ Static

\* The triggers of a source's plan.
TopicsOf(s) == UNION {p.topics : p \in {q \in Registrations : q.sub = s}}

NoCkpt == [from |-> NoBlock, to |-> NoBlock, hash |-> NoHash,
           complete |-> FALSE, errors |-> 0]

NoSnap == [found |-> FALSE, ckpt |-> NoCkpt, applied |-> <<>>, dyn |-> {}, done |-> {}]

Off == [pc |-> "off", cli |-> NoBlock, from |-> NoBlock, reset |-> FALSE, pass |-> 0,
        prev |-> NoSnap, lo |-> NoBlock, to |-> NoBlock, queue |-> <<>>,
        pending |-> {}, done |-> {}, applied |-> <<>>, dyn |-> {},
        backfill |-> FALSE, executed |-> 0, last |-> NoBlock, errors |-> 0,
        outcome |-> "none"]

DeployInit ==
    /\ Init
    /\ dep = Off
    /\ snap = NoSnap
    /\ deploys = 0
    /\ raced = FALSE
    /\ lowered = FALSE

(***************************************************************************)
(* The feed as a sync pass reads it.                                        *)
(***************************************************************************)
\* register_feed_source_subscription(s): an upsert that keeps the cursor.
Subscribed(sources) ==
    [s \in Subs |-> IF s \in sources
                    THEN [subs[s] EXCEPT !.active = TRUE, !.topics = TopicsOf(s)]
                    ELSE subs[s]]

\* feed_source_caught_up: an active row whose cursor is at or beyond the target.
FeedSourceCaughtUp(s, to) == subs[s].active /\ subs[s].cursor >= to

\* load_feed_source_report: the stored logs of the source in the range.
LoadFeedSourceReport(s, from, to) ==
    {l \in rawLogs : Matches(s, TopicsOf(s), l)
                     /\ l.blk >= from /\ l.blk >= SubFrom[s] /\ l.blk <= to}

\* latest_feed_block: the highest cursor of the chain, over all subscriptions.
HighestCursor(rows) ==
    LET cursors == {NoBlock} \cup {rows[s].cursor : s \in Subs}
    IN  CHOOSE b \in cursors : \A c \in cursors : c <= b

LatestFeedBlock == HighestCursor(subs)

\* Every log is behind this order key.
FirstKey == [blk |-> NoBlock, ev |-> [idx |-> 0]]

Ask(op, s, from, after) == [op |-> op, sub |-> s, from |-> from, after |-> after]

\* The statements of the manifest's sources, two for each ...
StaticQueue(from) ==
    [i \in 1 .. 2 * Len(Manifest) |->
        Ask(IF i % 2 = 1 THEN "check" ELSE "load", Manifest[(i + 1) \div 2], from, FirstKey)]

\* ... and of template sources (scan_source_for_replay, then
\* feed_source_backfill_pending), known before or just created: three for each.
DynamicQueue(sources, from, after) ==
    LET upTo(s) == {t \in sources : SubRank[t] <= SubRank[s]}
        nth(k)  == CHOOSE s \in sources : Cardinality(upTo(s)) = k
        op      == <<"register", "load", "check">>
    IN  [i \in 1 .. 3 * Cardinality(sources) |->
            Ask(op[((i - 1) % 3) + 1], nth(((i - 1) \div 3) + 1), from, after)]

(***************************************************************************)
(* The command.                                                             *)
(***************************************************************************)
SetDep(d) == dep' = d

\* The history of the auxiliary variable `lowered'.
WatchCursors ==
    lowered' = (lowered \/ (dep.pc # "off" /\ LatestFeedBlock' < LatestFeedBlock))

\* acquire_indexer_lock keeps two deploys of a deployment apart.
StartDeploy ==
    /\ dep.pc = "off"
    /\ deploys < MaxDeploys
    /\ \E f \in FromArgs, r \in ResetArgs :
          SetDep([Off EXCEPT !.pc = "register", !.cli = f, !.from = f,
                             !.reset = r, !.pass = 1])
    /\ deploys' = deploys + 1
    /\ UNCHANGED <<vars, snap, aux>>

\* run_chain_reader_once: the static subscriptions first ...
RegisterStatic ==
    /\ dep.pc = "register"
    /\ subs' = Subscribed(Static)
    /\ SetDep([dep EXCEPT !.pc = "read"])
    /\ UNCHANGED <<chainVars, rawLogs, rawBlocks, reader, faults, snap, deploys, aux>>

\* ... then one scan, always from the command's own --from-block.
ReadFeed ==
    /\ dep.pc = "read"
    /\ ReaderStep(Deployer)
    /\ reader[Deployer].pc = "idle" => reader'[Deployer].from = dep.cli
    /\ SetDep(IF reader[Deployer].pc # "idle" /\ reader'[Deployer].pc = "idle"
              THEN [dep EXCEPT !.pc = "load"] ELSE dep)
    /\ WatchCursors
    /\ UNCHANGED <<snap, deploys, raced>>

\* A scan that fails is tried again with the next RPC candidate.
RetryRead ==
    /\ dep.pc = "read"
    /\ ReaderFail(Deployer)
    /\ UNCHANGED <<dep, snap, deploys, aux>>

\* Fault: the cursors of the unfinished pass are forgotten.
ProcessedLogsForgotten(previous) == {}

\* The processed-log cursors matter for an unfinished checkpoint only.
ProcessedLogs(previous) == IF previous.ckpt.complete THEN {} ELSE previous.done

\* sync_once up to run_replay.
LoadSnapshot ==
    /\ dep.pc = "load"
    /\ LET previous == IF dep.reset THEN NoSnap ELSE snap
       IN SetDep([dep EXCEPT
                    !.pc = "target", !.prev = previous,
                    !.lo = SyncStartBlock(dep.from, previous.found, previous.ckpt),
                    !.applied = previous.applied, !.dyn = previous.dyn,
                    !.done = ProcessedLogs(previous),
                    !.pending = {}, !.backfill = FALSE, !.executed = 0,
                    !.last = NoBlock, !.errors = 0])
    /\ UNCHANGED <<vars, snap, deploys, aux>>

\* run_replay's target and the sources it asks for.  The static sources are
\* registered once more; the known templates are loaded behind them.
ChooseTarget ==
    /\ dep.pc = "target"
    /\ LatestFeedBlock # NoBlock
    /\ subs' = Subscribed(Static)
    /\ SetDep([dep EXCEPT !.pc = "feed", !.to = LatestFeedBlock,
                          !.queue = StaticQueue(dep.lo)
                                    \o DynamicQueue(dep.dyn, dep.lo, FirstKey)])
    /\ UNCHANGED <<chainVars, rawLogs, rawBlocks, reader, faults, snap, deploys, aux>>

\* "postgres feed has no cursor yet": no source has started below the head.
NoTarget ==
    /\ dep.pc = "target"
    /\ LatestFeedBlock = NoBlock
    /\ SetDep([Off EXCEPT !.outcome = "no_cursor"])
    /\ UNCHANGED <<vars, snap, deploys, aux>>

\* The next statement: one upsert, one query of the logs or one of the cursor.
AskFeed ==
    /\ dep.pc = "feed"
    /\ dep.queue # <<>>
    /\ LET q    == Head(dep.queue)
           rest == [dep EXCEPT !.queue = Tail(@)]
       IN \/ /\ q.op = "register"
             /\ subs' = Subscribed({q.sub})
             /\ SetDep(rest)
          \/ /\ q.op = "load"
             /\ SetDep([rest EXCEPT !.pending = @ \cup
                          {l \in LoadFeedSourceReport(q.sub, q.from, dep.to) :
                              Before(q.after, l)}])
             /\ UNCHANGED subs
          \/ /\ q.op = "check"
             /\ SetDep([rest EXCEPT !.backfill = @ \/ ~FeedSourceCaughtUp(q.sub, dep.to)])
             /\ UNCHANGED subs
    /\ UNCHANGED <<chainVars, rawLogs, rawBlocks, reader, faults, snap, deploys, aux>>

\* The sources a log creates whose template and address are not followed yet.
CreatedSources(log) ==
    {s \in Templates : /\ SubAddr[s] \in log.ev.creates
                       /\ SubFrom[s] = log.blk
                       /\ \A t \in dep.dyn : SubAddr[t] # SubAddr[s]}

Runnable(log) == ~LimitReached(Limit, dep.executed, log, dep.last)

\* A handler that validates: its entities are committed, and its new sources
\* are asked for before the next log is chosen.
RunLog ==
    /\ dep.pc = "feed"
    /\ dep.queue = <<>>
    /\ \E log \in NextUnprocessedLogs(dep.pending, dep.done) :
          /\ Runnable(log)
          /\ log.ev.ok
          /\ SetDep([dep EXCEPT
                       !.applied = Append(@, log), !.done = @ \cup {LogId(log)},
                       !.dyn = @ \cup CreatedSources(log),
                       !.queue = DynamicQueue(CreatedSources(log), log.blk, log),
                       !.executed = @ + 1, !.last = log.blk])
    /\ UNCHANGED <<vars, snap, deploys, aux>>

\* A handler whose entities do not validate ends the pass.
RejectLog ==
    /\ dep.pc = "feed"
    /\ dep.queue = <<>>
    /\ \E log \in NextUnprocessedLogs(dep.pending, dep.done) :
          /\ Runnable(log)
          /\ ~log.ev.ok
    /\ SetDep([dep EXCEPT !.pc = "finish", !.executed = @ + 1, !.errors = @ + 1])
    /\ UNCHANGED <<vars, snap, deploys, aux>>

StopRunning ==
    /\ dep.pc = "feed"
    /\ dep.queue = <<>>
    /\ \A log \in NextUnprocessedLogs(dep.pending, dep.done) : ~Runnable(log)
    /\ SetDep([dep EXCEPT !.pc = "finish"])
    /\ UNCHANGED <<vars, snap, deploys, aux>>

\* Fault: a source that is still being backfilled does not count.
ReplayCompleteEarly == Unprocessed(dep.pending, dep.done) = {}

\* run_replay's `complete'.
ReplayComplete == ~dep.backfill /\ Unprocessed(dep.pending, dep.done) = {}

\* The target's hash from RPC, or the one the feed has stored for it.
TargetHash(rpc) == IF rpc # NoHash THEN rpc ELSE rawBlocks[dep.to]

\* sync_once's result and whether it is written.
SyncedSnapshot(hash) ==
    IF /\ dep.prev.found
       /\ ShouldKeepPrevious(dep.prev.ckpt, dep.lo, dep.to, ReplayComplete,
                             dep.executed, dep.errors, NoBlock)
    THEN dep.prev
    ELSE [found |-> TRUE,
          ckpt |-> [from |-> dep.lo, to |-> dep.to, hash |-> hash,
                    complete |-> ReplayComplete, errors |-> dep.errors],
          applied |-> dep.applied, dyn |-> dep.dyn,
          done |-> IF ReplayComplete THEN {} ELSE dep.done]

\* Fault: one pass is taken to be enough.
DeployShouldContinueNever(s) == FALSE

\* deploy_should_continue.
DeployShouldContinue(s) == s.ckpt.errors = 0 /\ ~s.ckpt.complete

\* What the command reports: sync_report_from_snapshot with require_complete.
Outcome(s) == IF s.ckpt.errors = 0 /\ s.ckpt.complete THEN "ok" ELSE "failed"

\* The write of the pass, then another round or the report.
FinishSync ==
    /\ dep.pc = "finish"
    /\ \E rpc \in RpcHashes(dep.to) :
          LET s == SyncedSnapshot(TargetHash(rpc))
          IN /\ snap' = s
             /\ SetDep(IF DeployShouldContinue(s) /\ dep.pass < MaxPasses
                       THEN [Off EXCEPT !.pc = "register", !.cli = dep.cli,
                                        !.pass = dep.pass + 1]
                       ELSE [Off EXCEPT !.outcome = Outcome(s)])
    /\ UNCHANGED <<vars, deploys, aux>>

\* An error of any statement or request, or the process dies: the rows it
\* wrote stay, the pass is gone.
DeployFails ==
    /\ dep.pc # "off"
    /\ faults < MaxFaults
    /\ faults' = faults + 1
    /\ SetDep([Off EXCEPT !.outcome = "error"])
    /\ SetReader(Deployer, Idle)
    /\ UNCHANGED <<chainVars, tables, snap, deploys, aux>>

DeployStep ==
    \/ StartDeploy \/ RegisterStatic \/ ReadFeed \/ RetryRead
    \/ LoadSnapshot \/ ChooseTarget \/ NoTarget \/ AskFeed
    \/ RunLog \/ RejectLog \/ StopRunning \/ FinishSync \/ DeployFails

\* The chain-reader services (their failed passes are ChainFeed's).
ServiceReads(r) ==
    /\ ReaderStep(r)
    /\ raced' = (raced \/ (dep.pc # "off" /\ reader[r].pc = "write"
                                          /\ reader'[r].pc = "scan"))
    /\ WatchCursors
    /\ UNCHANGED <<dep, snap, deploys>>

ChainGrows == Mine /\ UNCHANGED <<dep, snap, deploys, aux>>

DeployNext ==
    \/ DeployStep
    \/ ChainGrows
    \/ \E r \in Readers \ {Deployer} : ServiceReads(r)

DeploySpec == DeployInit /\ [][DeployNext]_deployVars

(***************************************************************************)
(* Properties.                                                              *)
(***************************************************************************)
StaticPlan == {[addr |-> SubAddr[s], at |-> SubFrom[s]] : s \in Static}

\* What one uninterrupted pass over the chain itself would execute.
Expected == Ideal(chain, StaticPlan, 0, snap.ckpt.to)

\* Logs a new template emitted in front of the log that creates it, in the
\* same block: dropped by the pass that creates the source, executed by the
\* next one.
EarlyLogs ==
    {l \in UNION {BlockLogs(chain, b) : b \in BlocksIn(chain, 0, snap.ckpt.to)} :
        \E c \in Range(Expected) :
            l.ev.addr \in c.ev.creates /\ l.blk = c.blk /\ Before(l, c)}

IndexExact ==
    /\ Range(Expected) \subseteq Range(snap.applied)
    /\ Range(snap.applied) \subseteq Range(Expected) \cup EarlyLogs

\* A deployment whose checkpoint says complete has executed every log of its
\* static sources and of every source its mappings created, up to the
\* checkpoint block, and no other log, unless a chain-reader service wrote to
\* the feed while the command ran.
CompleteMeansIndexed == snap.found /\ snap.ckpt.complete /\ ~raced => IndexExact

\* What the theorem about CompleteMeansIndexed assumes of a deployment: a
\* --from-block at or below every start block; mappings that handle every event
\* of the contracts they follow; sources created by static contracts only; and a
\* key for each source these can create.
FactoryDeploy ==
    /\ NoBlock \notin FromArgs
    /\ \A f \in FromArgs, s \in Subs : f <= SubFrom[s]
    /\ \A body \in Contents : \A e \in body :
          /\ \A s \in Subs : e.addr = SubAddr[s] => e.topic \in TopicsOf(s)
          /\ e.creates # {} => \A t \in Templates : SubAddr[t] # e.addr
          /\ \A a \in e.creates, s \in Static, b \in Blocks :
                SubAddr[s] = e.addr /\ SubFrom[s] <= b =>
                    \E t \in Templates : SubAddr[t] = a /\ SubFrom[t] = b

\* What the deploy command reports when it ends, whatever its arguments: the
\* sources its mappings created are subscribed, backfilled and indexed.  It
\* does not hold without --from-block: the pass behind the one that created a
\* source starts at the target block (sync_start_block), loads nothing below
\* it and finds the source caught up.  Nor with a chain-reader service at
\* work, which may write between the load of a source and its check.
CompleteMeansIndexedAlways == snap.found /\ snap.ckpt.complete => IndexExact

\* However often a deploy is cut or repeated, no log is executed twice into one
\* store, as long as the feed's highest cursor does not fall while one runs.
\* It falls when a chain-reader that fixed its target long ago writes it over
\* the cursor a faster one has left (write_feed_logs sets it, whatever it was).
\* A pass may then complete below what an unfinished one has executed; its
\* processed-log cursors are dropped, and the next pass runs those logs again.
NoLogExecutedTwice == ~lowered => IsInjective(snap.applied)

\* A deploy that runs undisturbed with a pass for every template contract and
\* one more ends complete, unless a handler's entities do not validate.
EnoughPasses == MaxPasses > Cardinality({SubAddr[s] : s \in Templates})

\* What the theorem about it assumes besides FactoryDeploy: the static sources
\* start first, all at one block, and --limit is never reached.
EventIndices == {e.idx : e \in UNION Contents}

RoomyDeploy ==
    /\ \A s \in Static, t \in Subs : SubFrom[s] <= SubFrom[t]
    /\ IsFiniteSet(EventIndices) /\ Cardinality(Blocks \X EventIndices) <= Limit

DeployCompletes ==
    dep.outcome = "failed" /\ ~raced /\ EnoughPasses => snap.ckpt.errors > 0
=============================================================================
