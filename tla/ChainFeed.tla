------------------------------ MODULE ChainFeed ------------------------------
(***************************************************************************)
(* The shared raw-log feed: `chain-reader' processes copy the logs of every *)
(* registered subscription from RPC into Postgres, and undo what a reorg    *)
(* orphaned.  One reader per chain is the documented deployment, but no     *)
(* lock enforces it (ugraph deploy runs reader passes of its own), so the   *)
(* number of readers is a parameter.                                        *)
(*                                                                          *)
(* A reader pass (run_chain_reader_scan) is                                 *)
(*                                                                          *)
(*  idle -> hash -> list -> probe* [-> relist] -> scan <-> write ... -> idle *)
(*                                                                          *)
(* where every RPC request and every transaction is a step of its own.      *)
(* rollback_feed_chain and write_feed_logs are one transaction each.        *)
(***************************************************************************)
EXTENDS Chain

CONSTANTS
    Readers,       \* chain-reader processes
    Subs,          \* subscription keys (deployment, source, template, address, from)
    SubAddr,       \* the address of a subscription
    SubFrom,       \* its start block
    SubRank,       \* its position in list_feed_subscriptions' ORDER BY
    Registrations, \* [sub, topics] records a plan may register
    ReaderFroms,   \* --from-block values (NoBlock: none)
    ReaderTos,     \* --to-block values (NoBlock: none)
    MaxFaults      \* bound: failed passes and crashes of readers

Blocks == 0 .. MaxHead

\* A block emits at most one event per index.
ASSUME FeedConstants ==
    /\ SubFrom \in [Subs -> Nat]
    /\ SubRank \in [Subs -> Nat]
    /\ \A s, t \in Subs : SubRank[s] = SubRank[t] => s = t
    /\ \A p \in Registrations : p.sub \in Subs /\ p = [sub |-> p.sub, topics |-> p.topics]
    /\ ReaderFroms \subseteq Nat \cup {NoBlock}
    /\ ReaderTos \subseteq Blocks \cup {NoBlock}
    /\ MaxFaults \in Nat
    /\ \A body \in Contents : \A e, f \in body : e.idx = f.idx => e = f

VARIABLES
    subs,       \* ugraph_feed_subscriptions: one row per key
    rawLogs,    \* ugraph_raw_logs, unique in (block, index)
    rawBlocks,  \* ugraph_raw_blocks: block -> hash, NoHash for none
    reader,     \* the locals of every reader
    faults      \* failed passes so far

tables == <<subs, rawLogs, rawBlocks>>
vars == <<chain, forks, reorgs, subs, rawLogs, rawBlocks, reader, faults>>

NoRow == [active |-> FALSE, topics |-> {}, cursor |-> NoBlock, hash |-> NoHash]

Idle == [pc |-> "idle", from |-> NoBlock, to |-> NoBlock, hash |-> NoHash,
         rows |-> [s \in Subs |-> NoRow], blocks |-> {}, min |-> NoBlock,
         todo |-> {}, sub |-> NoBlock, logs |-> {}]

Active(rows) == {s \in Subs : rows[s].active}

\* What a subscription is about: its address and its topics.
Matches(s, topics, l) == l.ev.addr = SubAddr[s] /\ l.ev.topic \in topics

\* scan_raw_logs: eth_getLogs with the subscription's address and topics.
ScanRawLogs(s, topics, lo, hi) ==
    {l \in GetLogs(chain, SubAddr[s], lo, hi) : l.ev.topic \in topics}

Init ==
    /\ ChainInit
    /\ subs = [s \in Subs |-> NoRow]
    /\ rawLogs = {}
    /\ rawBlocks = [b \in Blocks |-> NoHash]
    /\ reader = [r \in Readers |-> Idle]
    /\ faults = 0

Mine == MineBlock /\ UNCHANGED <<tables, reader, faults>>

Reorg == ReplaceBlocks /\ UNCHANGED <<tables, reader, faults>>

\* register_feed_source_subscription: insert, or refresh the topics of the
\* existing row and keep its cursor.
Register ==
    /\ \E p \in Registrations :
          subs' = [subs EXCEPT ![p.sub] =
                     [@ EXCEPT !.active = TRUE, !.topics = p.topics]]
    /\ UNCHANGED <<chainVars, rawLogs, rawBlocks, reader, faults>>

SetReader(r, locals) == reader' = [reader EXCEPT ![r] = locals]

\* Fault: the block count is taken for the head's number.
ReaderStartPastHead(r) ==
    /\ reader[r].pc = "idle"
    /\ \E f \in ReaderFroms, t \in ReaderTos :
          SetReader(r, [reader[r] EXCEPT !.pc = "hash", !.from = f,
                          !.to = IF t # NoBlock THEN t ELSE Len(chain)])
    /\ UNCHANGED <<chainVars, tables, faults>>

\* A pass begins: its target is --to-block or the head.
ReaderStart(r) ==
    /\ reader[r].pc = "idle"
    /\ \E f \in ReaderFroms, t \in ReaderTos :
          SetReader(r, [reader[r] EXCEPT !.pc = "hash", !.from = f,
                          !.to = IF t # NoBlock THEN t ELSE HeadBlock])
    /\ UNCHANGED <<chainVars, tables, faults>>

ReaderHash(r) ==
    /\ reader[r].pc = "hash"
    /\ \E h \in RpcHashes(reader[r].to) :
          SetReader(r, [reader[r] EXCEPT !.pc = "list", !.hash = h])
    /\ UNCHANGED <<chainVars, tables, faults>>

\* The subscriptions feed_reorg_rollback_block can check.
Hashed(rows) ==
    {s \in Active(rows) : rows[s].cursor # NoBlock /\ rows[s].hash # NoHash}

ReaderList(r) ==
    /\ reader[r].pc = "list"
    /\ SetReader(r, [reader[r] EXCEPT !.pc = "probe", !.rows = subs,
                       !.blocks = {subs[s].cursor : s \in Hashed(subs)}])
    /\ UNCHANGED <<chainVars, tables, faults>>

\* One hash is kept per cursor block, the first listed subscription's.
CursorHashes(rows, b) ==
    LET at == {s \in Hashed(rows) : rows[s].cursor = b}
    IN  {rows[s].hash : s \in {t \in at : \A u \in at : SubRank[t] <= SubRank[u]}}

\* The lowest mismatched block so far; a missing answer is no mismatch.
LowestMismatch(min, b, rpc, stored) ==
    IF rpc # NoHash /\ rpc # stored /\ (min = NoBlock \/ b < min) THEN b ELSE min

\* One cursor hash against the RPC, in block order.
ReaderProbe(r) ==
    /\ reader[r].pc = "probe"
    /\ \E b \in reader[r].blocks :
          /\ \A c \in reader[r].blocks : b <= c
          /\ \E rpc \in RpcHashes(b), stored \in CursorHashes(reader[r].rows, b) :
                SetReader(r, [reader[r] EXCEPT !.blocks = @ \ {b},
                                !.min = LowestMismatch(@, b, rpc, stored)])
    /\ UNCHANGED <<chainVars, tables, faults>>

\* No mismatch: the subscriptions as listed are scanned next.
ReaderClean(r) ==
    /\ reader[r].pc = "probe"
    /\ reader[r].blocks = {}
    /\ reader[r].min = NoBlock
    /\ SetReader(r, [reader[r] EXCEPT !.pc = "scan", !.todo = Active(reader[r].rows)])
    /\ UNCHANGED <<chainVars, tables, faults>>

\* Fault: the logs of the mismatched block itself survive.
RollbackFeedChainAbove(b) ==
    /\ rawLogs' = {l \in rawLogs : l.blk <= b}
    /\ rawBlocks' = [n \in Blocks |-> IF n >= b THEN NoHash ELSE rawBlocks[n]]
    /\ subs' = [s \in Subs |->
                  IF subs[s].cursor >= b
                  THEN [subs[s] EXCEPT
                          !.cursor = IF b = 0 THEN NoBlock ELSE b - 1,
                          !.hash = IF b = 0 THEN NoHash ELSE rawBlocks[b - 1]]
                  ELSE subs[s]]

\* rollback_feed_chain: logs and blocks from b on are deleted, the cursors at
\* or beyond b step back to b - 1 with whatever hash is stored for it.
RollbackFeedChain(b) ==
    /\ rawLogs' = {l \in rawLogs : l.blk < b}
    /\ rawBlocks' = [n \in Blocks |-> IF n >= b THEN NoHash ELSE rawBlocks[n]]
    /\ subs' = [s \in Subs |->
                  IF subs[s].cursor >= b
                  THEN [subs[s] EXCEPT
                          !.cursor = IF b = 0 THEN NoBlock ELSE b - 1,
                          !.hash = IF b = 0 THEN NoHash ELSE rawBlocks[b - 1]]
                  ELSE subs[s]]

ReaderRollback(r) ==
    /\ reader[r].pc = "probe"
    /\ reader[r].blocks = {}
    /\ reader[r].min # NoBlock
    /\ RollbackFeedChain(reader[r].min)
    /\ SetReader(r, [reader[r] EXCEPT !.pc = "relist"])
    /\ UNCHANGED <<chainVars, faults>>

ReaderRelist(r) ==
    /\ reader[r].pc = "relist"
    /\ SetReader(r, [reader[r] EXCEPT !.pc = "scan", !.rows = subs,
                                      !.todo = Active(subs)])
    /\ UNCHANGED <<chainVars, tables, faults>>

\* Where a subscription's scan starts: behind its cursor, or at --from-block
\* or its start block while it has none.
ScanFrom(s, row, f) ==
    MaxOf(SubFrom[s],
          IF row.cursor # NoBlock THEN row.cursor + 1
          ELSE IF f # NoBlock THEN f ELSE SubFrom[s])

\* Fault: the target block is taken for an exclusive bound.
ReaderSkipAtTarget(r) ==
    /\ reader[r].pc = "scan"
    /\ \E s \in reader[r].todo :
          /\ \A t \in reader[r].todo : SubRank[s] <= SubRank[t]
          /\ ScanFrom(s, reader[r].rows[s], reader[r].from) >= reader[r].to
          /\ SetReader(r, [reader[r] EXCEPT !.todo = @ \ {s}])
    /\ UNCHANGED <<chainVars, tables, faults>>

\* The next subscription of the list: nothing to do yet ...
ReaderSkip(r) ==
    /\ reader[r].pc = "scan"
    /\ \E s \in reader[r].todo :
          /\ \A t \in reader[r].todo : SubRank[s] <= SubRank[t]
          /\ ScanFrom(s, reader[r].rows[s], reader[r].from) > reader[r].to
          /\ SetReader(r, [reader[r] EXCEPT !.todo = @ \ {s}])
    /\ UNCHANGED <<chainVars, tables, faults>>

\* ... or its logs are fetched.
ReaderScan(r) ==
    /\ reader[r].pc = "scan"
    /\ \E s \in reader[r].todo :
          LET row == reader[r].rows[s]
              lo  == ScanFrom(s, row, reader[r].from)
          IN /\ \A t \in reader[r].todo : SubRank[s] <= SubRank[t]
             /\ lo <= reader[r].to
             /\ SetReader(r, [reader[r] EXCEPT !.pc = "write", !.sub = s,
                                !.logs = ScanRawLogs(s, row.topics, lo, reader[r].to)])
    /\ UNCHANGED <<chainVars, tables, faults>>

\* Fault: the block number is missing from the conflict key.
InsertLogsByIndex(logs) ==
    rawLogs \cup {l \in logs : \A m \in rawLogs : m.ev.idx # l.ev.idx}

\* write_feed_logs: new (block, index) keys are inserted, existing ones kept;
\* the target block's hash and the subscription's cursor are set.
InsertLogs(logs) ==
    rawLogs \cup {l \in logs : \A m \in rawLogs : m.blk = l.blk => m.ev.idx # l.ev.idx}

ReaderWrite(r) ==
    /\ reader[r].pc = "write"
    /\ rawLogs' = InsertLogs(reader[r].logs)
    /\ rawBlocks' = [rawBlocks EXCEPT ![reader[r].to] = reader[r].hash]
    /\ subs' = [subs EXCEPT ![reader[r].sub] =
                  [@ EXCEPT !.cursor = reader[r].to, !.hash = reader[r].hash]]
    /\ SetReader(r, [reader[r] EXCEPT !.pc = "scan", !.logs = {},
                                      !.todo = @ \ {reader[r].sub}])
    /\ UNCHANGED <<chainVars, faults>>

ReaderDone(r) ==
    /\ reader[r].pc = "scan"
    /\ reader[r].todo = {}
    /\ SetReader(r, Idle)
    /\ UNCHANGED <<chainVars, tables, faults>>

\* Any request or transaction of the pass fails, or the process dies: the
\* subscriptions already written stay written.
ReaderFail(r) ==
    /\ reader[r].pc # "idle"
    /\ faults < MaxFaults
    /\ faults' = faults + 1
    /\ SetReader(r, Idle)
    /\ UNCHANGED <<chainVars, tables>>

ReaderStep(r) ==
    \/ ReaderStart(r) \/ ReaderHash(r) \/ ReaderList(r) \/ ReaderProbe(r)
    \/ ReaderClean(r) \/ ReaderRollback(r) \/ ReaderRelist(r)
    \/ ReaderSkip(r) \/ ReaderScan(r) \/ ReaderWrite(r) \/ ReaderDone(r)

Next ==
    \/ Mine
    \/ Reorg
    \/ Register
    \/ \E r \in Readers : ReaderStep(r) \/ ReaderFail(r)

Spec == Init /\ [][Next]_vars

FairSpec == Spec /\ \A r \in Readers : WF_vars(ReaderStep(r))

(***************************************************************************)
(* Properties.                                                              *)
(***************************************************************************)
Hashes == Nat \cup {NoHash}
Cursors == Blocks \cup {NoBlock}
Topics == UNION {p.topics : p \in Registrations}
ChainBlocks == [fork : Nat, body : Contents]
Logs == [blk : Nat, fork : Nat, ev : UNION Contents]
Rows == [active : BOOLEAN, topics : SUBSET Topics, cursor : Cursors, hash : Hashes]
ReaderStates ==
    [pc : {"idle", "hash", "list", "probe", "relist", "scan", "write"},
     from : Nat \cup {NoBlock}, to : Cursors, hash : Hashes,
     rows : [Subs -> Rows], blocks : SUBSET Blocks, min : Cursors,
     todo : SUBSET Subs, sub : Subs \cup {NoBlock}, logs : SUBSET Logs]

\* The types of the chain, of the feed tables and of the readers' locals.
TypeOK ==
    /\ chain \in Seq(ChainBlocks) /\ Len(chain) \in 1 .. MaxHead + 1
    /\ forks \in Nat
    /\ reorgs \in Nat
    /\ subs \in [Subs -> Rows]
    /\ rawLogs \in SUBSET Logs
    /\ rawBlocks \in [Blocks -> Hashes]
    /\ reader \in [Readers -> ReaderStates]
    /\ \A r \in Readers : reader[r].pc = "write" => reader[r].sub \in Subs
    /\ faults \in Nat

\* A subscription whose cursor hash is on the canonical chain is exact: the
\* feed holds every log of its address and topics from its start block up to
\* the cursor, and no log of an orphaned block in between.
FeedCertifiesLogs ==
    \A s \in Subs :
        IsCanonical(subs[s].cursor, subs[s].hash) =>
            {l \in rawLogs : Matches(s, subs[s].topics, l)
                             /\ l.blk \in SubFrom[s] .. subs[s].cursor}
              = ScanRawLogs(s, subs[s].topics, SubFrom[s], subs[s].cursor)

\* The inductive strengthening of FeedCertifiesLogs on a chain that only
\* grows.  A row is sound when its hash is the canonical one and the feed
\* covers its range; the rows a reader works from were sound when it listed
\* them and stay so, because nothing is ever rolled back.
Emitted(l) ==
    l.blk + 1 \in DOMAIN chain /\ l.ev \in chain[l.blk + 1].body
    /\ l = LogAt(chain, l.blk, l.ev)

Covers(logs, s, topics, hi) ==
    \A b \in SubFrom[s] .. hi : \A e \in chain[b + 1].body :
        e.addr = SubAddr[s] /\ e.topic \in topics => LogAt(chain, b, e) \in logs

HashSound(b, hash) == hash = NoHash \/ IsCanonical(b, hash)

RowSound(s, row) ==
    /\ row.cursor < Len(chain)
    /\ HashSound(row.cursor, row.hash)
    /\ row.active => [sub |-> s, topics |-> row.topics] \in Registrations
    /\ row.cursor # NoBlock => row.active
    /\ Covers(rawLogs, s, row.topics, row.cursor)

ReaderSound(x) ==
    /\ x.pc = "idle" => x = Idle
    /\ x.pc # "relist"
    /\ x.min = NoBlock
    /\ x.from \in ReaderFroms \cup {NoBlock}
    /\ x.to < Len(chain)
    /\ HashSound(x.to, x.hash)
    /\ \A s \in Subs :
          /\ RowSound(s, x.rows[s])
          /\ x.rows[s].active => subs[s].active
    /\ x.todo \subseteq Active(x.rows)
    /\ x.pc = "write" =>
          /\ x.sub \in Active(x.rows)
          /\ \A l \in x.logs : Emitted(l)
          /\ Covers(rawLogs \cup x.logs, x.sub,
                    x.rows[x.sub].topics, x.to)

GrowthInv ==
    /\ TypeOK
    /\ \A l \in rawLogs : Emitted(l)
    /\ \A s \in Subs : RowSound(s, subs[s])
    /\ \A r \in Readers : ReaderSound(reader[r])

\* What the growth theorem assumes of a deployment: no reorgs, no reader with
\* a --to-block above the head or a --from-block above a subscription's start,
\* and manifests that register a key with the same topics every time.
GrowthOnly ==
    /\ MaxReorgs = 0
    /\ ReaderTos \subseteq {NoBlock}
    /\ \A f \in ReaderFroms, s \in Subs : f <= SubFrom[s]
    /\ \A p, q \in Registrations : p.sub = q.sub => p.topics = q.topics

\* Once the chain and the failures stop, every subscription that has started
\* is at the head with a canonical hash, for good.
FeedCatchesUp ==
    <>[](\A s \in Active(subs) :
            SubFrom[s] <= HeadBlock =>
                /\ subs[s].cursor = HeadBlock
                /\ IsCanonical(subs[s].cursor, subs[s].hash))
=============================================================================
