--------------------------- MODULE FeedSyncProofs ---------------------------
(***************************************************************************)
(* Proofs about FeedSync: the feed's inductive invariant survives the deploy *)
(* command, no log is executed twice, a deployment that reports complete    *)
(* holds an exact index of the chain, and enough passes complete it.        *)
(***************************************************************************)
EXTENDS FeedSync, ChainFeedProofs, SyncCoreProofs

USE DEF NoBlock, NoHash

(***************************************************************************)
(* The feed under the deploy command.                                       *)
(***************************************************************************)
\* What GrowthOnly says of manifests gives a subscription's plan its topics.
LEMMA PlanIsRegistered ==
  ASSUME GrowthOnly, NEW s \in Subs
  PROVE  [sub |-> s, topics |-> TopicsOf(s)] \in Registrations
  <1>1. PICK p \in Registrations : p.sub = s
    BY DeployConstants
  <1>2. \A q \in Registrations : q.sub = s => q.topics = p.topics
    BY <1>1 DEF GrowthOnly
  <1>3. TopicsOf(s) = p.topics
    BY <1>1, <1>2 DEF TopicsOf
  <1>4. p = [sub |-> p.sub, topics |-> p.topics]
    BY FeedConstants
  <1> QED
    BY <1>1, <1>3, <1>4

\* The rows after a registration.
LEMMA SubscribedRows ==
  ASSUME GrowthOnly, TypeOK, NEW sources, subs' = Subscribed(sources)
  PROVE  /\ subs' \in [Subs -> Rows]
         /\ \A s \in Subs \ sources : subs'[s] = subs[s]
         /\ \A s \in Subs \cap sources :
               /\ subs'[s].active = TRUE
               /\ subs'[s].topics = TopicsOf(s)
         /\ \A s \in Subs : /\ subs'[s].cursor = subs[s].cursor
                            /\ subs'[s].hash = subs[s].hash
                            /\ subs[s].active => subs'[s].active
  <1>1. ASSUME NEW s \in Subs
        PROVE  /\ subs'[s] \in Rows
               /\ s \notin sources => subs'[s] = subs[s]
               /\ s \in sources => subs'[s].active = TRUE /\ subs'[s].topics = TopicsOf(s)
               /\ subs'[s].cursor = subs[s].cursor
               /\ subs'[s].hash = subs[s].hash
               /\ subs[s].active => subs'[s].active
    <2>1. subs[s] \in Rows
      BY DEF TypeOK
    <2>2. TopicsOf(s) \in SUBSET Topics
      BY PlanIsRegistered DEF TopicsOf, Topics
    <2>3. subs'[s] = IF s \in sources
                     THEN [subs[s] EXCEPT !.active = TRUE, !.topics = TopicsOf(s)]
                     ELSE subs[s]
      BY DEF Subscribed
    <2> HIDE DEF TopicsOf
    <2> QED
      BY <2>1, <2>2, <2>3 DEF Rows
  <1>2. subs' = [s \in Subs |-> subs'[s]]
    BY DEF Subscribed
  <1> QED
    BY <1>1, <1>2

\* A registration keeps the feed's invariant: it moves no cursor.
LEMMA SubscribeGrowth ==
  ASSUME GrowthOnly, GrowthInv, NEW sources, subs' = Subscribed(sources),
         UNCHANGED <<chainVars, rawLogs, rawBlocks, reader, faults>>
  PROVE  GrowthInv'
  <1>0. TypeOK /\ subs \in [Subs -> Rows]
    BY DEF GrowthInv, TypeOK
  <1>1. subs' \in [Subs -> Rows]
    BY <1>0, SubscribedRows
  <1>2. TypeOK'
    BY <1>0, <1>1 DEF TypeOK, chainVars
  <1>3. \A s \in Subs : subs[s].active => subs'[s].active
    BY <1>0, SubscribedRows
  <1>4. Grows /\ chain' = chain /\ rawLogs' = rawLogs /\ reader' = reader
    BY <1>0, <1>3 DEF Grows, chainVars, TypeOK
  <1>5. ASSUME NEW s \in Subs PROVE subs'[s] = subs[s] \/ RowSound(s, subs[s])'
    <2>1. CASE s \notin sources
      BY <1>0, <2>1, SubscribedRows
    <2>2. CASE s \in sources
      <3>1. /\ subs[s] \in Rows /\ RowSound(s, subs[s])
            /\ subs'[s].active = TRUE /\ subs'[s].topics = TopicsOf(s)
            /\ subs'[s].cursor = subs[s].cursor /\ subs'[s].hash = subs[s].hash
            /\ subs'[s] \in Rows
        BY <1>0, <1>1, <2>2, SubscribedRows DEF GrowthInv
      <3>2. [sub |-> s, topics |-> TopicsOf(s)] \in Registrations
        BY PlanIsRegistered
      <3>3. RowSound(s, subs'[s])
        <4>1. CASE subs[s].active
          <5>1. [sub |-> s, topics |-> subs[s].topics] \in Registrations
            BY <3>1, <4>1 DEF RowSound
          <5>2. subs[s].topics = TopicsOf(s)
            BY <3>2, <5>1 DEF GrowthOnly
          <5> QED
            BY <3>1, <3>2, <5>2 DEF RowSound
        <4>2. CASE ~subs[s].active
          <5>1. subs[s].cursor = -1
            BY <3>1, <4>2 DEF RowSound
          <5>2. SubFrom[s] .. -1 = {}
            BY FeedConstants
          <5> QED
            BY <3>1, <3>2, <5>1, <5>2 DEF RowSound, Covers
        <4> QED
          BY <4>1, <4>2
      <3> QED
        BY <1>0, <1>2, <1>4, <3>1, <3>3, RowKept
    <2> QED
      BY <2>1, <2>2
  <1> QED
    BY <1>2, <1>4, <1>5, GrowthKept DEF GrowthInv

\* What a step of the composition does to the feed.
LEMMA FeedSteps ==
  ASSUME [DeployNext]_deployVars
  PROVE  \/ [Next]_vars
         \/ DeployFails
         \/ \E sources : /\ subs' = Subscribed(sources)
                         /\ UNCHANGED <<chainVars, rawLogs, rawBlocks, reader, faults>>
  <1>1. CASE StartDeploy \/ LoadSnapshot \/ NoTarget \/ RunLog \/ RejectLog
             \/ StopRunning \/ FinishSync
    BY <1>1 DEF StartDeploy, LoadSnapshot, NoTarget, RunLog, RejectLog, StopRunning,
                FinishSync
  <1>2. CASE RegisterStatic \/ ChooseTarget
    BY <1>2 DEF RegisterStatic, ChooseTarget
  <1>3. CASE AskFeed
    <2>1. UNCHANGED <<chainVars, rawLogs, rawBlocks, reader, faults>>
      BY <1>3 DEF AskFeed
    <2>2. (\E sources : subs' = Subscribed(sources)) \/ UNCHANGED subs
      BY <1>3 DEF AskFeed
    <2>3. CASE UNCHANGED subs
      BY <2>1, <2>3 DEF vars, chainVars
    <2> QED
      BY <2>1, <2>2, <2>3
  <1>4. CASE ReadFeed \/ RetryRead \/ ChainGrows
             \/ \E r \in Readers \ {Deployer} : ServiceReads(r)
    BY <1>4, DeployConstants DEF ReadFeed, RetryRead, ChainGrows, ServiceReads, Next
  <1>5. CASE UNCHANGED deployVars
    BY <1>5 DEF deployVars
  <1> QED
    BY <1>1, <1>2, <1>3, <1>4, <1>5 DEF DeployNext, DeployStep

\* So does every step of the composition.
LEMMA DeployGrowth ==
  ASSUME GrowthOnly, GrowthInv, [DeployNext]_deployVars
  PROVE  GrowthInv'
  <1>1. CASE [Next]_vars
    BY <1>1, NextGrowth
  <1>2. CASE DeployFails
    <2>1. /\ TypeOK /\ SetReader(Deployer, Idle) /\ UNCHANGED <<chainVars, tables>>
          /\ faults' = faults + 1
      BY <1>2 DEF DeployFails, GrowthInv
    <2>2. TypeOK'
      <3>1. /\ reader' \in [Readers -> ReaderStates]
            /\ \A q \in Readers : reader'[q].pc = "write" => reader'[q].sub \in Subs
        BY <2>1, IdleType, SetReaderType, DeployConstants
      <3> QED
        BY <2>1, <3>1 DEF TypeOK, chainVars, tables
    <2> QED
      BY <2>1, <2>2, IdleLocals, LocalStep, DeployConstants
  <1>3. CASE \E sources : /\ subs' = Subscribed(sources)
                          /\ UNCHANGED <<chainVars, rawLogs, rawBlocks, reader, faults>>
    BY <1>3, SubscribeGrowth
  <1> QED
    BY <1>1, <1>2, <1>3, FeedSteps

\* The deploy command keeps the feed's invariant: its own registrations (of
\* the manifest and of every source its mappings create), its reader passes and
\* its crashes, interleaved with the chain-reader services.
THEOREM DeployKeepsFeed ==
  ASSUME GrowthOnly
  PROVE  DeploySpec => []GrowthInv
  <1>1. DeployInit => GrowthInv
    BY InitGrowth DEF DeployInit
  <1> QED
    BY <1>1, DeployGrowth, PTL DEF DeploySpec

(***************************************************************************)
(* No log is executed twice.  The argument, for the part of a behaviour in  *)
(* which the highest cursor does not fall under a deploy command:           *)
(*                                                                          *)
(*  - a snapshot executed nothing above its checkpoint block, and what it   *)
(*    executed at or above its start block is in the processed-log cursors  *)
(*    unless it is complete, when the next pass starts behind it;           *)
(*  - a pass therefore never runs below a block its store has executed and  *)
(*    forgotten, if its target is not below the checkpoint it starts from;  *)
(*  - and it is not: some source started at or below that checkpoint, and   *)
(*    the command's own reader pass brings that source to the head before   *)
(*    the target is chosen.                                                 *)
(***************************************************************************)
\* Executed logs are behind a cursor or below the block a pass starts at ...
Handled(applied, done, from) ==
    \A i \in DOMAIN applied : LogId(applied[i]) \in done \/ applied[i].blk < from

\* ... and never above its target.
NotAbove(applied, b) == \A i \in DOMAIN applied : applied[i].blk <= b

\* A followed source that started at or below the block.
Started(rows, b) == {s \in Active(rows) : SubFrom[s] <= b}

\* A subscription's cursor is not below its start block.
CursorsStarted ==
    /\ \A s \in Subs : subs[s].cursor # NoBlock => SubFrom[s] <= subs[s].cursor
    /\ \A r \in Readers :
          reader[r].pc = "write" => SubFrom[reader[r].sub] <= reader[r].to

\* A block a pass may have for its target.
TargetSound(b) == b \in Blocks /\ b < Len(chain) /\ Started(subs, b) # {}

StoreType(x) ==
    /\ x.applied \in Seq(Logs)
    /\ IsInjective(x.applied)
    /\ x.dyn \subseteq Subs

\* A snapshot that is stored, or that a pass starts from.
StoreSound(x) ==
    /\ StoreType(x)
    /\ ~x.found => x.applied = <<>>
    /\ x.found =>
          /\ TargetSound(x.ckpt.to)
          /\ x.ckpt.from \in Int
          /\ NotAbove(x.applied, x.ckpt.to)
          /\ ~x.ckpt.complete => Handled(x.applied, x.done, x.ckpt.from)

\* The command's reader pass reaches the checkpoint block before it ends.
ReadSound ==
    LET x == reader[Deployer]
    IN  dep.pc = "read" /\ snap.found /\ x.pc # "idle" =>
          /\ snap.ckpt.to <= x.to
          /\ x.pc \in {"probe", "scan", "write"} =>
                \E s \in Started(x.rows, snap.ckpt.to) :
                    /\ x.rows[s].cursor <= LatestFeedBlock
                    /\ x.pc # "probe" => s \in x.todo \/ x.to <= LatestFeedBlock

QueueSound(queue, from) ==
    /\ queue \in Seq(Range(queue))
    /\ \A i \in DOMAIN queue : queue[i].from \in Int /\ queue[i].from >= from

\* The locals of a sync pass, from the load of the snapshot to its write.
PassSound(d) ==
    /\ StoreType(d)
    /\ StoreSound(d.prev)
    /\ d.lo \in Int
    /\ Handled(d.applied, d.done, d.lo)
    /\ \A l \in d.pending : l \in Logs /\ l.blk >= d.lo
    /\ d.pc # "target" =>
          /\ TargetSound(d.to)
          /\ NotAbove(d.applied, d.to)
          /\ \A l \in d.pending : l.blk <= d.to
          /\ QueueSound(d.queue, d.lo)

DepSound ==
    /\ DOMAIN dep = DOMAIN Off
    /\ dep.pc \in {"off", "register", "read", "load", "target", "feed", "finish"}
    /\ dep.from \in Int
    /\ dep.pc # "read" => reader[Deployer].pc = "idle"
    /\ dep.pc = "load" /\ snap.found => snap.ckpt.to <= LatestFeedBlock
    /\ dep.pc = "target" => /\ dep.applied = dep.prev.applied
                            /\ dep.pending = {}
                            /\ dep.prev.found => dep.prev.ckpt.to <= LatestFeedBlock
    /\ dep.pc \in {"target", "feed", "finish"} => PassSound(dep)

\* The inductive strengthening of NoLogExecutedTwice.
OnceInv ==
    /\ GrowthInv
    /\ CursorsStarted
    /\ ~lowered => StoreSound(snap) /\ ReadSound /\ DepSound

(***************************************************************************)
(* The highest cursor.                                                      *)
(***************************************************************************)
LEMMA HighestIs ==
  ASSUME NEW rows \in [Subs -> Rows]
  PROVE  /\ HighestCursor(rows) \in Cursors
         /\ \A s \in Subs : rows[s].cursor <= HighestCursor(rows)
         /\ HighestCursor(rows) # NoBlock =>
               \E s \in Subs : rows[s].cursor = HighestCursor(rows)
  <1> DEFINE cursors == {NoBlock} \cup {rows[s].cursor : s \in Subs}
             below == {MaxHead - c : c \in cursors}
  <1>1. cursors \subseteq Cursors /\ \A c \in Cursors : c \in Int /\ c <= MaxHead
    <2>1. \A s \in Subs : rows[s].cursor \in Cursors
      BY DEF Rows
    <2> QED
      BY <2>1, ChainConstants DEF Cursors, Blocks
  <1>2. below \in SUBSET Nat /\ below # {}
    BY <1>1, ChainConstants
  <1>3. PICK n \in below : \A m \in below : n <= m
    <2>1. IsWellFoundedOn(OpToRel(<, Nat), Nat)
      BY NatLessThanWellFounded
    <2> HIDE DEF below
    <2>2. PICK n \in below : \A m \in below : ~(<<m, n>> \in OpToRel(<, Nat))
      BY <1>2, <2>1, WFMin
    <2>3. \A m \in below : ~(m < n)
      BY <1>2, <2>2 DEF OpToRel
    <2> QED
      BY <1>2, <2>3
  <1>4. PICK b \in cursors : n = MaxHead - b
    BY <1>3
  <1>5. ASSUME NEW c \in cursors PROVE c <= b
    <2>1. MaxHead - c \in below /\ c \in Int /\ b \in Int /\ MaxHead \in Int
      BY <1>1, ChainConstants
    <2>2. n <= MaxHead - c
      BY <1>3, <2>1
    <2> HIDE DEF cursors, below
    <2> QED
      BY <1>4, <2>1, <2>2
  <1>6. HighestCursor(rows) = CHOOSE h \in cursors : \A c \in cursors : c <= h
    BY DEF HighestCursor
  <1>7. /\ HighestCursor(rows) \in cursors
        /\ \A c \in cursors : c <= HighestCursor(rows)
    BY <1>4, <1>5, <1>6
  <1> QED
    BY <1>1, <1>7

\* Rows with the same cursors have the same highest one.
LEMMA SameCursors ==
  ASSUME NEW rows, NEW next, \A s \in Subs : next[s].cursor = rows[s].cursor
  PROVE  HighestCursor(next) = HighestCursor(rows)
  <1>1. {next[s].cursor : s \in Subs} = {rows[s].cursor : s \in Subs}
    OBVIOUS
  <1> QED
    BY <1>1 DEF HighestCursor

(***************************************************************************)
(* What the steps do to the chain and to the cursors.                       *)
(***************************************************************************)
\* The chain grows and no subscription is deactivated.
Moves ==
    /\ Len(chain) <= Len(chain')
    /\ \A s \in Subs : subs[s].active => subs'[s].active

SameRowCursors == \A s \in Subs : subs'[s].cursor = subs[s].cursor

\* Only its write makes a reader touch the tables: without a reorg it finds no
\* mismatch to roll back.
LEMMA ReaderMoves ==
  ASSUME GrowthInv, NEW r \in Readers, ReaderStep(r) \/ ReaderFail(r)
  PROVE  /\ chain' = chain
         /\ ReaderWrite(r) \/ subs' = subs
         /\ \A q \in Readers : q # r => reader'[q] = reader[q]
  <1>1. reader[r].min = NoBlock /\ reader \in [Readers -> ReaderStates]
    BY DEF GrowthInv, ReaderSound, TypeOK
  <1>2. CASE ReaderStart(r)
    BY <1>1, <1>2 DEF ReaderStart, chainVars, tables, SetReader
  <1>3. CASE ReaderHash(r)
    BY <1>1, <1>3 DEF ReaderHash, chainVars, tables, SetReader
  <1>4. CASE ReaderList(r)
    BY <1>1, <1>4 DEF ReaderList, chainVars, tables, SetReader
  <1>5. CASE ReaderProbe(r)
    BY <1>1, <1>5 DEF ReaderProbe, chainVars, tables, SetReader
  <1>6. CASE ReaderClean(r)
    BY <1>1, <1>6 DEF ReaderClean, chainVars, tables, SetReader
  <1>7. CASE ReaderRollback(r)
    BY <1>1, <1>7 DEF ReaderRollback
  <1>8. CASE ReaderRelist(r)
    BY <1>1, <1>8 DEF ReaderRelist, chainVars, tables, SetReader
  <1>9. CASE ReaderSkip(r)
    BY <1>1, <1>9 DEF ReaderSkip, chainVars, tables, SetReader
  <1>10. CASE ReaderScan(r)
    BY <1>1, <1>10 DEF ReaderScan, chainVars, tables, SetReader
  <1>11. CASE ReaderWrite(r)
    BY <1>1, <1>11 DEF ReaderWrite, chainVars, SetReader
  <1>12. CASE ReaderDone(r)
    BY <1>1, <1>12 DEF ReaderDone, chainVars, tables, SetReader
  <1>13. CASE ReaderFail(r)
    BY <1>1, <1>13 DEF ReaderFail, chainVars, tables, SetReader
  <1> QED
    BY <1>2, <1>3, <1>4, <1>5, <1>6, <1>7, <1>8, <1>9, <1>10, <1>11, <1>12, <1>13
       DEF ReaderStep

\* The row a write leaves.
LEMMA WrittenRow ==
  ASSUME GrowthInv, NEW r \in Readers, ReaderWrite(r)
  PROVE  /\ reader[r].sub \in Subs
         /\ subs'[reader[r].sub].cursor = reader[r].to
         /\ \A s \in Subs : /\ subs'[s].active = subs[s].active
                            /\ s # reader[r].sub => subs'[s] = subs[s]
  <1> DEFINE x == reader[r]
  <1>1. x.sub \in Subs /\ subs \in [Subs -> Rows] /\ \A s \in Subs : subs[s] \in Rows
    BY DEF GrowthInv, TypeOK, ReaderWrite
  <1>2. subs' = [subs EXCEPT ![x.sub] = [@ EXCEPT !.cursor = x.to, !.hash = x.hash]]
    BY DEF ReaderWrite
  <1> HIDE DEF x
  <1>3. /\ subs'[x.sub] = [subs[x.sub] EXCEPT !.cursor = x.to, !.hash = x.hash]
        /\ \A s \in Subs : s # x.sub => subs'[s] = subs[s]
    BY <1>1, <1>2
  <1>4. subs'[x.sub].cursor = x.to /\ subs'[x.sub].active = subs[x.sub].active
    BY <1>1, <1>3 DEF Rows
  <1> QED
    BY <1>1, <1>3, <1>4 DEF x

\* Where a scan starts.
LEMMA ScanFromIs ==
  ASSUME NEW s \in Subs, NEW row \in Rows, NEW f \in Nat \cup {NoBlock}
  PROVE  /\ ScanFrom(s, row, f) \in Int /\ SubFrom[s] \in Int /\ row.cursor \in Int
         /\ SubFrom[s] <= ScanFrom(s, row, f)
         /\ f <= SubFrom[s] => \/ ScanFrom(s, row, f) = SubFrom[s]
                              \/ ScanFrom(s, row, f) = row.cursor + 1
  <1>1. PICK c : c = row.cursor
    OBVIOUS
  <1>2. PICK a : a = SubFrom[s]
    OBVIOUS
  <1>3. c \in Int /\ a \in Int /\ f \in Int
    BY <1>1, <1>2, ChainConstants, FeedConstants DEF Rows, Cursors, Blocks
  <1>4. ScanFrom(s, row, f) = MaxOf(a, IF c # NoBlock THEN c + 1
                                       ELSE IF f # NoBlock THEN f ELSE a)
    BY <1>1, <1>2 DEF ScanFrom
  <1> QED
    BY <1>1, <1>2, <1>3, <1>4 DEF MaxOf

\* The chain never shrinks, no row is deactivated, and only a write moves a cursor.
LEMMA FeedMoves ==
  ASSUME GrowthOnly, GrowthInv, [DeployNext]_deployVars
  PROVE  /\ Moves
         /\ SameRowCursors \/ \E r \in Readers : ReaderWrite(r)
  <1>0. /\ chain \in Seq(ChainBlocks) /\ Len(chain) \in Nat
        /\ subs \in [Subs -> Rows] /\ TypeOK
    BY DEF GrowthInv, TypeOK
  <1>1. CASE Mine
    BY <1>0, <1>1 DEF Mine, MineBlock, tables, Moves, SameRowCursors
  <1>2. CASE Reorg
    BY <1>0, <1>2 DEF Reorg, ReplaceBlocks, GrowthOnly, GrowthInv, TypeOK
  <1>3. CASE Register
    <2>1. PICK p \in Registrations :
            subs' = [subs EXCEPT ![p.sub] =
                       [@ EXCEPT !.active = TRUE, !.topics = p.topics]]
      BY <1>3 DEF Register
    <2>2. \A s \in Subs : subs'[s] = IF s = p.sub
                                     THEN [subs[s] EXCEPT !.active = TRUE, !.topics = p.topics]
                                     ELSE subs[s]
      BY <1>0, <2>1
    <2>3. ASSUME NEW s \in Subs
          PROVE  subs'[s].cursor = subs[s].cursor /\ (subs[s].active => subs'[s].active)
      <3>1. subs[s] \in Rows
        BY <1>0
      <3> QED
        BY <2>2, <3>1 DEF Rows
    <2> QED
      BY <1>0, <1>3, <2>3 DEF Register, chainVars, Moves, SameRowCursors
  <1>4. ASSUME NEW r \in Readers, ReaderStep(r) \/ ReaderFail(r)
        PROVE  Moves /\ (SameRowCursors \/ ReaderWrite(r))
    <2>1. chain' = chain /\ (ReaderWrite(r) \/ subs' = subs)
      BY <1>4, ReaderMoves
    <2>2. CASE ReaderWrite(r)
      BY <1>0, <2>1, <2>2, WrittenRow DEF Moves
    <2>3. CASE subs' = subs
      BY <1>0, <2>1, <2>3 DEF Moves, SameRowCursors
    <2> QED
      BY <2>1, <2>2, <2>3
  <1>5. CASE UNCHANGED vars \/ DeployFails
    <2>1. chain' = chain /\ subs' = subs
      BY <1>5 DEF vars, DeployFails, chainVars, tables
    <2> QED
      BY <1>0, <2>1 DEF Moves, SameRowCursors
  <1>6. CASE \E sources : /\ subs' = Subscribed(sources)
                          /\ UNCHANGED <<chainVars, rawLogs, rawBlocks, reader, faults>>
    <2>1. PICK sources : subs' = Subscribed(sources)
      BY <1>6
    <2>2. chain' = chain
      BY <1>6 DEF chainVars
    <2>3. \A s \in Subs : /\ subs'[s].cursor = subs[s].cursor
                          /\ subs[s].active => subs'[s].active
      BY <1>0, <2>1, SubscribedRows
    <2> QED
      BY <1>0, <2>2, <2>3 DEF Moves, SameRowCursors
  <1> QED
    BY <1>1, <1>2, <1>3, <1>4, <1>5, <1>6, FeedSteps DEF Next

\* Every cursor is at or beyond its subscription's start block.
LEMMA CursorsStartedKept ==
  ASSUME GrowthOnly, GrowthInv, CursorsStarted, [DeployNext]_deployVars
  PROVE  CursorsStarted'
  <1>0. /\ subs \in [Subs -> Rows] /\ reader \in [Readers -> ReaderStates]
        /\ SubFrom \in [Subs -> Nat] /\ DeployFails => Deployer \in Readers
    BY FeedConstants, DeployConstants DEF GrowthInv, TypeOK
  <1>1. ASSUME NEW r \in Readers, ReaderWrite(r)
        PROVE  CursorsStarted'
    <2>1. /\ subs'[reader[r].sub].cursor = reader[r].to
          /\ SubFrom[reader[r].sub] <= reader[r].to
          /\ \A s \in Subs : s # reader[r].sub => subs'[s] = subs[s]
      BY <1>1, WrittenRow DEF CursorsStarted, ReaderWrite
    <2>2. \A s \in Subs : subs'[s].cursor # NoBlock => SubFrom[s] <= subs'[s].cursor
      BY <2>1 DEF CursorsStarted
    <2>3. \A q \in Readers : q # r => reader'[q] = reader[q]
      BY <1>1, ReaderMoves DEF ReaderStep
    <2>4. reader'[r].pc = "scan"
      BY <1>0, <1>1 DEF ReaderWrite, SetReader, ReaderStates
    <2> QED
      BY <2>2, <2>3, <2>4 DEF CursorsStarted
  <1>2. ASSUME SameRowCursors,
               \A q \in Readers : reader'[q].pc = "write" =>
                  reader'[q] = reader[q] \/ SubFrom[reader'[q].sub] <= reader'[q].to
        PROVE  CursorsStarted'
    BY <1>2 DEF CursorsStarted, SameRowCursors
  <1>3. ASSUME NEW r \in Readers, ReaderStep(r) \/ ReaderFail(r), ~ReaderWrite(r)
        PROVE  \A q \in Readers : reader'[q].pc = "write" =>
                  reader'[q] = reader[q] \/ SubFrom[reader'[q].sub] <= reader'[q].to
    <2>1. \A q \in Readers : q # r => reader'[q] = reader[q]
      BY <1>3, ReaderMoves
    <2>2. reader[r] \in ReaderStates
      BY <1>0
    <2>3. CASE ReaderScan(r)
      <3> DEFINE lo(s) == ScanFrom(s, reader[r].rows[s], reader[r].from)
                 found(s) == ScanRawLogs(s, reader[r].rows[s].topics, lo(s), reader[r].to)
      <3>1. PICK s \in reader[r].todo :
              /\ lo(s) <= reader[r].to
              /\ SetReader(r, [reader[r] EXCEPT !.pc = "write", !.sub = s, !.logs = found(s)])
        BY <2>3 DEF ReaderScan
      <3> HIDE DEF found
      <3>2. reader'[r].sub = s /\ reader'[r].to = reader[r].to
        BY <1>0, <2>2, <3>1 DEF SetReader, ReaderStates
      <3>3. /\ s \in Subs /\ reader[r].rows[s] \in Rows /\ reader[r].to \in Cursors
            /\ reader[r].from \in Nat \cup {NoBlock}
        BY <2>2 DEF ReaderStates
      <3>4. lo(s) \in Int /\ SubFrom[s] \in Int /\ SubFrom[s] <= lo(s)
        BY <3>3, ScanFromIs
      <3>5. reader[r].to \in Int
        BY <3>3, ChainConstants DEF Cursors, Blocks
      <3> QED
        BY <2>1, <3>1, <3>2, <3>4, <3>5
    <2>4. CASE ~ReaderScan(r)
      <3>1. CASE ReaderStart(r)
        BY <1>0, <2>1, <2>2, <3>1 DEF ReaderStart, SetReader, ReaderStates
      <3>6. CASE ReaderHash(r)
        BY <1>0, <2>1, <2>2, <3>6 DEF ReaderHash, SetReader, ReaderStates
      <3>4. CASE ReaderList(r)
        <4> DEFINE cursors == {subs[s].cursor : s \in Hashed(subs)}
        <4>1. reader' = [reader EXCEPT ![r] = [reader[r] EXCEPT !.pc = "probe", !.rows = subs,
                                                                !.blocks = cursors]]
          BY <3>4 DEF ReaderList, SetReader
        <4> HIDE DEF cursors
        <4> QED
          BY <1>0, <2>1, <2>2, <4>1 DEF ReaderStates
      <3>5. CASE ReaderProbe(r)
        BY <1>0, <2>1, <2>2, <3>5 DEF ReaderProbe, SetReader, ReaderStates
      <3>2. CASE ReaderClean(r)
        <4>1. PICK todo : reader' = [reader EXCEPT ![r] = [reader[r] EXCEPT !.pc = "scan",
                                                                        !.todo = todo]]
          BY <3>2 DEF ReaderClean, SetReader
        <4> QED
          BY <1>0, <2>1, <2>2, <4>1 DEF ReaderStates
      <3>s. CASE ReaderSkip(r)
        <4>1. /\ reader[r].pc = "scan"
              /\ \E todo : reader' = [reader EXCEPT ![r] = [reader[r] EXCEPT !.todo = todo]]
          BY <3>s, Zenon DEF ReaderSkip, SetReader
        <4>2. PICK todo : reader' = [reader EXCEPT ![r] = [reader[r] EXCEPT !.todo = todo]]
          BY <4>1
        <4>3. reader'[r] = [reader[r] EXCEPT !.todo = todo]
          BY <1>0, <4>2
        <4>4. reader'[r].pc = "scan"
          BY <2>2, <4>1, <4>3 DEF ReaderStates
        <4> QED
          BY <2>1, <4>4
      <3>7. CASE ReaderRollback(r)
        BY <1>0, <2>1, <2>2, <3>7 DEF ReaderRollback, SetReader, ReaderStates
      <3>8. CASE ReaderRelist(r)
        BY <1>0, <2>1, <2>2, <3>8 DEF ReaderRelist, SetReader, ReaderStates
      <3>3. CASE ReaderDone(r) \/ ReaderFail(r)
        BY <1>0, <2>1, <3>3, IdleType DEF ReaderDone, ReaderFail, SetReader
      <3> QED
        BY <1>3, <2>4, <3>1, <3>2, <3>s, <3>3, <3>4, <3>5, <3>6, <3>7, <3>8 DEF ReaderStep
    <2> QED
      BY <2>3, <2>4
  <1>4. ASSUME UNCHANGED reader
        PROVE  \A q \in Readers : reader'[q].pc = "write" => reader'[q] = reader[q]
    BY <1>4
  <1>5. CASE \E r \in Readers : ReaderWrite(r)
    BY <1>1, <1>5
  <1>6. CASE ~ \E r \in Readers : ReaderWrite(r)
    <2>1. SameRowCursors
      BY <1>6, FeedMoves
    <2>2. CASE [Next]_vars
      <3>1. CASE UNCHANGED reader
        BY <1>2, <1>4, <2>1, <3>1
      <3>2. CASE \E r \in Readers : ReaderStep(r) \/ ReaderFail(r)
        BY <1>2, <1>3, <1>6, <2>1, <3>2
      <3> QED
        BY <2>2, <3>1, <3>2 DEF Next, vars, Mine, Reorg, Register
    <2>3. CASE DeployFails
      <3>1. \A q \in Readers : reader'[q] = IF q = Deployer THEN Idle ELSE reader[q]
        BY <1>0, <2>3 DEF DeployFails, SetReader
      <3> QED
        BY <1>2, <2>1, <3>1, IdleType
    <2>4. CASE \E sources : /\ subs' = Subscribed(sources)
                            /\ UNCHANGED <<chainVars, rawLogs, rawBlocks, reader, faults>>
      <3>1. UNCHANGED reader
        BY <2>4
      <3> QED
        BY <1>2, <1>4, <2>1, <3>1
    <2> QED
      BY <2>2, <2>3, <2>4, FeedSteps
  <1> QED
    BY <1>5, <1>6

(***************************************************************************)
(* What survives while the chain grows and subscriptions appear.            *)
(***************************************************************************)
LEMMA TargetKept ==
  ASSUME TypeOK, TypeOK', Moves, NEW b, TargetSound(b)
  PROVE  TargetSound(b)'
  <1>1. b \in Int /\ b \in Blocks /\ b < Len(chain) /\ Len(chain) \in Int /\ Len(chain') \in Int
    BY ChainConstants DEF TargetSound, Blocks, TypeOK
  <1>2. b < Len(chain')
    BY <1>1 DEF Moves
  <1>3. PICK s \in Subs : subs[s].active /\ SubFrom[s] <= b
    BY DEF TargetSound, Started, Active
  <1>4. subs'[s].active
    BY <1>3 DEF Moves
  <1> QED
    BY <1>1, <1>2, <1>3, <1>4 DEF TargetSound, Started, Active

\* A sound snapshot stays sound ...
LEMMA StoreKept ==
  ASSUME TypeOK, TypeOK', Moves, NEW x, StoreSound(x)
  PROVE  StoreSound(x)'
  <1>1. x.found => TargetSound(x.ckpt.to)'
    BY TargetKept DEF StoreSound
  <1> QED
    BY <1>1 DEF StoreSound

\* ... and so do the locals of a pass.
LEMMA PassKept ==
  ASSUME TypeOK, TypeOK', Moves, NEW d, PassSound(d)
  PROVE  PassSound(d)'
  <1>1. StoreSound(d.prev)'
    BY StoreKept DEF PassSound
  <1>2. d.pc # "target" => TargetSound(d.to)'
    BY TargetKept DEF PassSound
  <1> QED
    BY <1>1, <1>2 DEF PassSound

(***************************************************************************)
(* The queue of statements.                                                 *)
(***************************************************************************)
LEMMA RangedSeq ==
  ASSUME NEW S, NEW q \in Seq(S)
  PROVE  q \in Seq(Range(q)) /\ Len(q) \in Nat /\ DOMAIN q = 1 .. Len(q)
  <1> DEFINE n == Len(q)
  <1>1. n \in Nat /\ DOMAIN q = 1 .. n /\ q = [i \in 1 .. n |-> q[i]]
    OBVIOUS
  <1> HIDE DEF n
  <1>2. q \in [1 .. n -> Range(q)]
    BY <1>1 DEF Range
  <1>3. q \in Seq(Range(q))
    BY <1>1, <1>2, FunctionIsSeq
  <1> QED
    BY <1>1, <1>3 DEF n

\* A list of statements that all ask from one block.
LEMMA AskedFrom ==
  ASSUME NEW from, NEW at \in Int, at >= from, NEW n \in Nat, NEW q,
         DOMAIN q = 1 .. n, q = [i \in 1 .. n |-> q[i]], \A i \in 1 .. n : q[i].from = at
  PROVE  QueueSound(q, from)
  <1>1. q \in [1 .. n -> Range(q)]
    BY DEF Range
  <1>2. q \in Seq(Range(q))
    BY <1>1, FunctionIsSeq
  <1> QED
    BY <1>2 DEF QueueSound

\* Two queues in a row,
LEMMA QueueJoined ==
  ASSUME NEW from, NEW q, NEW r, QueueSound(q, from), QueueSound(r, from)
  PROVE  QueueSound(q \o r, from)
  <1> DEFINE S == Range(q) \cup Range(r)
             j == q \o r
  <1>1. q \in Seq(S) /\ r \in Seq(S)
    <2>1. q \in Seq(Range(q)) /\ r \in Seq(Range(r))
      BY DEF QueueSound
    <2> HIDE DEF S
    <2>2. Range(q) \subseteq S /\ Range(r) \subseteq S
      BY DEF S
    <2> QED
      BY <2>1, <2>2
  <1> HIDE DEF S
  <1>2. /\ j \in Seq(S) /\ Len(j) = Len(q) + Len(r)
        /\ \A i \in 1 .. Len(j) : \/ i \in 1 .. Len(q) /\ j[i] = q[i]
                                  \/ i - Len(q) \in 1 .. Len(r) /\ j[i] = r[i - Len(q)]
    BY <1>1
  <1> HIDE DEF j
  <1>3. j \in Seq(Range(j)) /\ DOMAIN j = 1 .. Len(j)
        /\ DOMAIN q = 1 .. Len(q) /\ DOMAIN r = 1 .. Len(r)
    BY <1>1, <1>2, RangedSeq
  <1>4. QueueSound(j, from)
    BY <1>2, <1>3 DEF QueueSound
  <1> QED
    BY <1>4 DEF j

\* a queue whose first statement is sent,
LEMMA QueueTaken ==
  ASSUME NEW from, NEW q, QueueSound(q, from), q # <<>>
  PROVE  /\ Head(q).from \in Int /\ Head(q).from >= from
         /\ QueueSound(Tail(q), from)
  <1> DEFINE S == Range(q)
             t == Tail(q)
  <1>1. q \in Seq(S)
    BY DEF QueueSound
  <1> HIDE DEF S
  <1>2. /\ t \in Seq(S) /\ Head(q) = q[1] /\ 1 \in DOMAIN q
        /\ \A i \in DOMAIN t : t[i] = q[i + 1] /\ i + 1 \in DOMAIN q
    BY <1>1
  <1> HIDE DEF t
  <1>3. t \in Seq(Range(t))
    BY <1>2, RangedSeq
  <1>4. QueueSound(t, from)
    BY <1>2, <1>3 DEF QueueSound
  <1> QED
    BY <1>2, <1>4 DEF t, QueueSound

\* the statements of the manifest's sources
LEMMA StaticQueueSound ==
  ASSUME NEW from \in Int
  PROVE  QueueSound(StaticQueue(from), from)
  <1> DEFINE n == 2 * Len(Manifest)
             q == StaticQueue(from)
  <1>1. n \in Nat /\ from >= from
    BY DeployConstants
  <1>2. /\ DOMAIN q = 1 .. n /\ q = [i \in 1 .. n |-> q[i]]
        /\ \A i \in 1 .. n : q[i].from = from
    BY DEF StaticQueue, Ask
  <1> HIDE DEF n, q
  <1>3. QueueSound(q, from)
    BY <1>1, <1>2, AskedFrom
  <1> QED
    BY <1>3 DEF q

\* and those of template sources ask for nothing below the start of the pass.
LEMMA DynamicQueueSound ==
  ASSUME NEW sources \in SUBSET Subs, NEW after, NEW from, NEW at \in Int, at >= from
  PROVE  QueueSound(DynamicQueue(sources, at, after), from)
  <1>1. Cardinality(sources) \in Nat
    BY FS_Subset, FS_CardinalityType, DeployConstants
  <1> DEFINE n == 3 * Cardinality(sources)
             q == DynamicQueue(sources, at, after)
  <1>2. /\ DOMAIN q = 1 .. n /\ q = [i \in 1 .. n |-> q[i]]
        /\ \A i \in 1 .. n : q[i].from = at
    BY DEF DynamicQueue, Ask
  <1>3. n \in Nat
    BY <1>1
  <1> HIDE DEF n, q
  <1>4. QueueSound(q, from)
    BY <1>2, <1>3, AskedFrom
  <1> QED
    BY <1>4 DEF q

(***************************************************************************)
(* The steps.                                                               *)
(***************************************************************************)
\* What every step below starts from.
SoundBefore ==
    /\ GrowthOnly /\ GrowthInv /\ TypeOK /\ TypeOK' /\ Moves
    /\ CursorsStarted
    /\ StoreSound(snap) /\ ReadSound /\ DepSound

SoundAfter == StoreSound(snap)' /\ ReadSound' /\ DepSound'

\* A step that does not write leaves the stored snapshot sound.
LEMMA SnapKept ==
  ASSUME SoundBefore, snap' = snap
  PROVE  StoreSound(snap)'
  BY StoreKept DEF SoundBefore

\* The highest cursor is a block number or none.
LEMMA CursorsTyped ==
  ASSUME SoundBefore
  PROVE  /\ subs \in [Subs -> Rows] /\ subs' \in [Subs -> Rows]
         /\ LatestFeedBlock \in Cursors /\ LatestFeedBlock' \in Cursors
         /\ LatestFeedBlock \in Int /\ LatestFeedBlock' \in Int
  <1>1. subs \in [Subs -> Rows] /\ subs' \in [Subs -> Rows]
    BY DEF SoundBefore, TypeOK
  <1>2. LatestFeedBlock \in Cursors
    BY <1>1, HighestIs DEF LatestFeedBlock
  <1>3. LatestFeedBlock' \in Cursors
    BY <1>1, HighestIs DEF LatestFeedBlock
  <1> QED
    BY <1>1, <1>2, <1>3, ChainConstants DEF Cursors, Blocks

\* It moves with the cursors only.
LEMMA SameLatest ==
  ASSUME SameRowCursors \/ subs' = subs
  PROVE  LatestFeedBlock' = LatestFeedBlock
  BY SameCursors DEF SameRowCursors, LatestFeedBlock

\* A step of somebody else that does not lower the highest cursor.
LEMMA QuietStep ==
  ASSUME SoundBefore, UNCHANGED <<dep, snap>>, reader'[Deployer] = reader[Deployer],
         dep.pc = "off" \/ LatestFeedBlock <= LatestFeedBlock'
  PROVE  SoundAfter
  <1>1. StoreSound(snap)'
    BY SnapKept
  <1>2. dep.pc \in {"target", "feed", "finish"} => PassSound(dep)'
    BY PassKept DEF SoundBefore, DepSound
  <1>3. LatestFeedBlock \in Int /\ LatestFeedBlock' \in Int
    BY CursorsTyped
  <1>4. snap.found => snap.ckpt.to \in Int
    BY DEF SoundBefore, StoreSound, TargetSound, Blocks
  <1>5. (dep.pc = "target" /\ dep.prev.found) => dep.prev.ckpt.to \in Int
    BY DEF SoundBefore, DepSound, PassSound, StoreSound, TargetSound, Blocks
  <1>6. DepSound'
    BY <1>2, <1>3, <1>4, <1>5 DEF SoundBefore, DepSound
  <1>7. ReadSound'
    <2> SUFFICES ASSUME dep.pc = "read", snap.found, reader[Deployer].pc # "idle"
                 PROVE  ReadSound'
      BY DEF ReadSound
    <2> DEFINE x == reader[Deployer]
    <2>1. x \in ReaderStates /\ x.to \in Int /\ \A s \in Subs : x.rows[s].cursor \in Int
      <3>1. x \in ReaderStates
        BY DeployConstants DEF SoundBefore, TypeOK
      <3>2. x.to \in Cursors /\ \A s \in Subs : x.rows[s] \in Rows
        BY <3>1 DEF ReaderStates
      <3> QED
        BY <3>1, <3>2, ChainConstants DEF Rows, Cursors, Blocks
    <2> HIDE DEF x
    <2>2. /\ snap.ckpt.to <= x.to
          /\ x.pc \in {"probe", "scan", "write"} =>
                \E s \in Started(x.rows, snap.ckpt.to) :
                    /\ x.rows[s].cursor <= LatestFeedBlock
                    /\ x.pc # "probe" => s \in x.todo \/ x.to <= LatestFeedBlock
      BY DEF SoundBefore, ReadSound, x
    <2>3. x.pc \in {"probe", "scan", "write"} =>
             \E s \in Started(x.rows, snap.ckpt.to) :
                 /\ x.rows[s].cursor <= LatestFeedBlock'
                 /\ x.pc # "probe" => s \in x.todo \/ x.to <= LatestFeedBlock'
      BY <1>3, <2>1, <2>2 DEF Started, Active
    <2> QED
      BY <2>2, <2>3 DEF ReadSound, x
  <1> QED
    BY <1>1, <1>6, <1>7 DEF SoundAfter

\* Between two passes nothing is claimed of the locals.
LEMMA AtRest ==
  ASSUME SoundBefore, StoreSound(snap)', dep'.pc \in {"off", "register"},
         DOMAIN dep' = DOMAIN Off, dep'.from \in Int, reader'[Deployer].pc = "idle"
  PROVE  SoundAfter
  BY DEF SoundAfter, ReadSound, DepSound

\* A deploy command begins.
LEMMA StartDeploySound ==
  ASSUME SoundBefore, StartDeploy
  PROVE  SoundAfter
  <1>1. PICK f \in FromArgs, r \in ResetArgs :
          dep' = [Off EXCEPT !.pc = "register", !.cli = f, !.from = f, !.reset = r, !.pass = 1]
    BY DEF StartDeploy, SetDep
  <1>2. dep'.pc = "register" /\ DOMAIN dep' = DOMAIN Off /\ dep'.from \in Int
    BY <1>1, DeployConstants DEF Off
  <1>3. snap' = snap /\ reader' = reader /\ reader[Deployer].pc = "idle"
    BY DEF StartDeploy, vars, SoundBefore, DepSound
  <1> QED
    BY <1>2, <1>3, SnapKept, AtRest

\* It registers its manifest; the reader pass has not begun.
LEMMA RegisterStaticSound ==
  ASSUME SoundBefore, RegisterStatic
  PROVE  SoundAfter
  <1>1. dep' = [dep EXCEPT !.pc = "read"] /\ snap' = snap /\ reader' = reader
    BY DEF RegisterStatic, SetDep
  <1>2. /\ DOMAIN dep = DOMAIN Off /\ dep.from \in Int /\ dep.pc = "register"
        /\ reader[Deployer].pc = "idle"
    BY DEF SoundBefore, DepSound, RegisterStatic
  <1>3. DOMAIN dep' = DOMAIN Off /\ dep'.from \in Int /\ dep'.pc = "read"
    BY <1>1, <1>2 DEF Off
  <1>4. DepSound'
    BY <1>3 DEF DepSound
  <1>5. ReadSound'
    BY <1>1, <1>2 DEF ReadSound
  <1> QED
    BY <1>1, <1>4, <1>5, SnapKept DEF SoundAfter

\* sync_start_block goes below executed blocks only where the cursors remember them.
LEMMA LoadSnapshotSound ==
  ASSUME SoundBefore, LoadSnapshot
  PROVE  SoundAfter
  <1> DEFINE x == IF dep.reset THEN NoSnap ELSE snap
             lo == SyncStartBlock(dep.from, x.found, x.ckpt)
             done == ProcessedLogs(x)
  <1>1. dep' = [dep EXCEPT !.pc = "target", !.prev = x, !.lo = lo,
                           !.applied = x.applied, !.dyn = x.dyn, !.done = done,
                           !.pending = {}, !.backfill = FALSE, !.executed = 0,
                           !.last = NoBlock, !.errors = 0]
    BY DEF LoadSnapshot, SetDep
  <1>2. /\ DOMAIN dep = DOMAIN Off /\ dep.from \in Int /\ dep.pc = "load"
        /\ reader[Deployer].pc = "idle"
    BY DEF SoundBefore, DepSound, LoadSnapshot
  <1>3. StoreSound(x)
    <2>1. StoreSound(NoSnap)
      BY DEF NoSnap, StoreSound, StoreType, IsInjective
    <2> QED
      BY <2>1 DEF SoundBefore
  <1>4. x.found => x.ckpt.to <= LatestFeedBlock
    BY <1>2 DEF SoundBefore, DepSound, NoSnap
  <1> HIDE DEF x
  <1>5. lo \in Int /\ Handled(x.applied, done, lo)
    <2>1. CASE ~x.found
      BY <1>2, <1>3, <2>1 DEF StoreSound, SyncStartBlock, Handled
    <2>2. CASE x.found
      <3>1. /\ x.ckpt.to \in Int /\ x.ckpt.from \in Int /\ NotAbove(x.applied, x.ckpt.to)
            /\ ~x.ckpt.complete => Handled(x.applied, x.done, x.ckpt.from)
            /\ \A i \in DOMAIN x.applied : x.applied[i].blk \in Nat
        <4>1. x.applied \in Seq(Logs)
          BY <1>3 DEF StoreSound, StoreType
        <4>2. \A i \in DOMAIN x.applied : x.applied[i] \in Logs
          BY <4>1
        <4> QED
          BY <1>3, <2>2, <4>2 DEF StoreSound, TargetSound, Blocks, Logs
      <3>2. CASE x.ckpt.complete
        <4>1. lo = x.ckpt.to + 1
          BY <2>2, <3>2 DEF SyncStartBlock
        <4> QED
          BY <3>1, <4>1 DEF NotAbove, Handled
      <3>3. CASE ~x.ckpt.complete /\ x.ckpt.from # NoBlock
        <4>1. lo = x.ckpt.from /\ done = x.done
          BY <2>2, <3>3 DEF SyncStartBlock, ProcessedLogs
        <4> QED
          BY <3>1, <3>3, <4>1
      <3>4. CASE ~x.ckpt.complete /\ x.ckpt.from = NoBlock
        <4>1. lo = x.ckpt.to /\ done = x.done
          BY <2>2, <3>4 DEF SyncStartBlock, ProcessedLogs
        <4>2. \A i \in DOMAIN x.applied : LogId(x.applied[i]) \in done
          BY <3>1, <3>4, <4>1 DEF Handled
        <4> QED
          BY <3>1, <4>1, <4>2 DEF Handled
      <3> QED
        BY <3>2, <3>3, <3>4
    <2> QED
      BY <2>1, <2>2
  <1> HIDE DEF lo, done
  <1>6. /\ dep'.pc = "target" /\ dep'.prev = x /\ dep'.lo = lo /\ dep'.applied = x.applied
        /\ dep'.dyn = x.dyn /\ dep'.done = done /\ dep'.pending = {}
        /\ DOMAIN dep' = DOMAIN Off /\ dep'.from = dep.from
    BY <1>1, <1>2 DEF Off
  <1>7. snap' = snap /\ reader' = reader /\ subs' = subs
    BY DEF LoadSnapshot, vars
  <1>8. StoreSound(dep.prev)'
    <2>1. StoreSound(dep'.prev)
      BY <1>3, <1>6
    <2> QED
      BY <2>1, StoreKept DEF SoundBefore
  <1>9. PassSound(dep)'
    <2>1. StoreType(x)
      BY <1>3 DEF StoreSound
    <2>2. StoreType(dep)'
      BY <1>6, <2>1 DEF StoreType
    <2>4. dep'.lo \in Int /\ Handled(dep'.applied, dep'.done, dep'.lo)
      BY <1>5, <1>6
    <2> QED
      BY <1>6, <1>8, <2>2, <2>4 DEF PassSound
  <1>10. DepSound'
    <2>1. LatestFeedBlock' = LatestFeedBlock
      BY <1>7, SameLatest
    <2>2. dep'.prev.found => dep'.prev.ckpt.to <= LatestFeedBlock'
      BY <1>4, <1>6, <2>1
    <2>3. DOMAIN dep' = DOMAIN Off /\ dep'.from \in Int /\ reader'[Deployer].pc = "idle"
      BY <1>2, <1>6, <1>7
    <2> QED
      BY <1>6, <1>9, <2>2, <2>3 DEF DepSound
  <1>11. ReadSound'
    BY <1>6 DEF ReadSound
  <1> QED
    BY <1>7, <1>10, <1>11, SnapKept DEF SoundAfter

\* The locals at the start of a step of the pass.
LEMMA PassLocals ==
  ASSUME SoundBefore, dep.pc \in {"target", "feed", "finish"}
  PROVE  /\ DOMAIN dep = DOMAIN Off /\ dep.from \in Int /\ reader[Deployer].pc = "idle"
         /\ PassSound(dep)
         /\ dep.lo \in Int
         /\ \A i \in DOMAIN dep.applied : dep.applied[i] \in Logs /\ dep.applied[i].blk \in Int
  <1>1. PassSound(dep)
    BY DEF SoundBefore, DepSound
  <1>2. dep.applied \in Seq(Logs)
    BY <1>1 DEF PassSound, StoreType
  <1>3. \A i \in DOMAIN dep.applied : dep.applied[i] \in Logs
    BY <1>2
  <1> QED
    BY <1>1, <1>3 DEF SoundBefore, DepSound, PassSound, Logs

\* A step of the pass itself.
LEMMA PassStep ==
  ASSUME SoundBefore, snap' = snap, reader' = reader,
         dep.pc \in {"target", "feed"}, dep'.pc \in {"feed", "finish"},
         DOMAIN dep' = DOMAIN Off, dep'.from = dep.from, dep'.prev = dep.prev,
         dep'.lo = dep.lo, StoreType(dep'), Handled(dep'.applied, dep'.done, dep.lo),
         TargetSound(dep'.to), NotAbove(dep'.applied, dep'.to),
         \A l \in dep'.pending : l \in Logs /\ l.blk >= dep.lo /\ l.blk <= dep'.to,
         QueueSound(dep'.queue, dep.lo)
  PROVE  SoundAfter
  <1>1. /\ PassSound(dep) /\ dep.from \in Int /\ reader[Deployer].pc = "idle"
    BY PassLocals
  <1>2. StoreSound(dep.prev)'
    <2>1. StoreSound(dep'.prev)
      BY <1>1 DEF PassSound
    <2> QED
      BY <2>1, StoreKept DEF SoundBefore
  <1>3. TargetSound(dep.to)'
    BY TargetKept DEF SoundBefore
  <1>4. PassSound(dep)'
    BY <1>1, <1>2, <1>3 DEF PassSound, StoreType
  <1>5. DepSound'
    BY <1>1, <1>4 DEF DepSound
  <1>6. ReadSound'
    BY DEF ReadSound
  <1> QED
    BY <1>5, <1>6, SnapKept DEF SoundAfter

\* The target: the highest cursor, not below the loaded checkpoint.
LEMMA ChooseTargetSound ==
  ASSUME SoundBefore, ChooseTarget
  PROVE  SoundAfter
  <1>1. /\ PassSound(dep) /\ DOMAIN dep = DOMAIN Off /\ dep.lo \in Int /\ dep.pc = "target"
        /\ dep.applied = dep.prev.applied /\ dep.pending = {}
        /\ dep.prev.found => dep.prev.ckpt.to <= LatestFeedBlock
    BY PassLocals DEF ChooseTarget, SoundBefore, DepSound
  <1> DEFINE queue == StaticQueue(dep.lo) \o DynamicQueue(dep.dyn, dep.lo, FirstKey)
  <1>2. dep' = [dep EXCEPT !.pc = "feed", !.to = LatestFeedBlock, !.queue = queue]
    BY DEF ChooseTarget, SetDep
  <1>3. QueueSound(queue, dep.lo)
    <2>1. dep.dyn \in SUBSET Subs
      BY <1>1 DEF PassSound, StoreType
    <2> QED
      BY <1>1, <2>1, StaticQueueSound, DynamicQueueSound, QueueJoined
  <1> HIDE DEF queue
  <1>4. /\ dep'.pc = "feed" /\ dep'.to = LatestFeedBlock /\ dep'.queue = queue
        /\ DOMAIN dep' = DOMAIN Off /\ dep'.from = dep.from /\ dep'.prev = dep.prev
        /\ dep'.lo = dep.lo /\ dep'.applied = dep.applied /\ dep'.done = dep.done
        /\ dep'.dyn = dep.dyn /\ dep'.pending = dep.pending
    BY <1>1, <1>2 DEF Off
  <1>5. TargetSound(LatestFeedBlock)
    <2>0. subs \in [Subs -> Rows] /\ LatestFeedBlock # NoBlock /\ LatestFeedBlock \in Cursors
      BY CursorsTyped DEF ChooseTarget
    <2>1. PICK s \in Subs : subs[s].cursor = LatestFeedBlock
      BY <2>0, HighestIs DEF LatestFeedBlock
    <2>2. RowSound(s, subs[s]) /\ SubFrom[s] <= LatestFeedBlock
      BY <2>0, <2>1 DEF SoundBefore, GrowthInv, CursorsStarted
    <2>3. s \in Active(subs) /\ LatestFeedBlock < Len(chain)
      BY <2>0, <2>1, <2>2 DEF RowSound, Active
    <2>4. LatestFeedBlock \in Blocks
      BY <2>0 DEF Cursors
    <2> QED
      BY <2>2, <2>3, <2>4 DEF TargetSound, Started
  <1>6. NotAbove(dep.applied, LatestFeedBlock)
    <2>1. LatestFeedBlock \in Int /\ \A i \in DOMAIN dep.applied : dep.applied[i].blk \in Int
      BY <1>1, CursorsTyped, PassLocals
    <2>2. StoreSound(dep.prev)
      BY <1>1 DEF PassSound
    <2>3. CASE dep.prev.found
      <3>1. NotAbove(dep.applied, dep.prev.ckpt.to) /\ dep.prev.ckpt.to \in Int
        BY <1>1, <2>2, <2>3 DEF StoreSound, TargetSound, Blocks
      <3> QED
        BY <1>1, <2>1, <2>3, <3>1 DEF NotAbove
    <2>4. CASE ~dep.prev.found
      BY <1>1, <2>2, <2>4 DEF StoreSound, NotAbove
    <2> QED
      BY <2>3, <2>4
  <1>7. StoreType(dep')
    BY <1>1, <1>4 DEF PassSound, StoreType
  <1>8. Handled(dep'.applied, dep'.done, dep.lo)
    BY <1>1, <1>4 DEF PassSound
  <1>9. snap' = snap /\ reader' = reader
    BY DEF ChooseTarget
  <1>10. TargetSound(dep'.to) /\ NotAbove(dep'.applied, dep'.to) /\ QueueSound(dep'.queue, dep.lo)
         /\ dep'.pending = {}
    BY <1>1, <1>3, <1>4, <1>5, <1>6
  <1> QED
    BY <1>1, <1>4, <1>7, <1>8, <1>9, <1>10, PassStep

\* One statement: what it loads is between the start and the target of the pass.
LEMMA AskFeedSound ==
  ASSUME SoundBefore, AskFeed
  PROVE  SoundAfter
  <1>1. /\ PassSound(dep) /\ DOMAIN dep = DOMAIN Off /\ dep.lo \in Int /\ dep.pc = "feed"
        /\ dep.queue # <<>>
    BY PassLocals DEF AskFeed
  <1>2. /\ StoreType(dep) /\ Handled(dep.applied, dep.done, dep.lo) /\ TargetSound(dep.to)
        /\ NotAbove(dep.applied, dep.to) /\ QueueSound(dep.queue, dep.lo)
        /\ \A l \in dep.pending : l \in Logs /\ l.blk >= dep.lo /\ l.blk <= dep.to
    BY <1>1 DEF PassSound
  <1> DEFINE q == Head(dep.queue)
             rest == Tail(dep.queue)
             more == {l \in LoadFeedSourceReport(q.sub, q.from, dep.to) : Before(q.after, l)}
             behind == ~FeedSourceCaughtUp(q.sub, dep.to)
  <1>3. q.from \in Int /\ q.from >= dep.lo /\ QueueSound(rest, dep.lo)
    BY <1>1, <1>2, QueueTaken
  <1>4. \A l \in more : l \in Logs /\ l.blk >= dep.lo /\ l.blk <= dep.to
    <2> SUFFICES ASSUME NEW l \in rawLogs, l.blk >= q.from, l.blk <= dep.to
                 PROVE  l \in Logs /\ l.blk >= dep.lo /\ l.blk <= dep.to
      BY DEF LoadFeedSourceReport
    <2>1. l \in Logs /\ l.blk \in Int
      BY DEF SoundBefore, TypeOK, Logs
    <2> HIDE DEF q
    <2> QED
      BY <1>1, <1>3, <2>1
  <1>5. \/ dep' = [dep EXCEPT !.queue = rest]
        \/ dep' = [[dep EXCEPT !.queue = rest] EXCEPT !.pending = @ \cup more]
        \/ dep' = [[dep EXCEPT !.queue = rest] EXCEPT !.backfill = @ \/ behind]
    BY DEF AskFeed, SetDep
  <1> HIDE DEF q, rest, more, behind
  <1>6. /\ dep'.pc = "feed" /\ dep'.to = dep.to /\ dep'.queue = rest
        /\ DOMAIN dep' = DOMAIN Off /\ dep'.from = dep.from /\ dep'.prev = dep.prev
        /\ dep'.lo = dep.lo /\ dep'.applied = dep.applied /\ dep'.done = dep.done
        /\ dep'.dyn = dep.dyn /\ (dep'.pending = dep.pending \/ dep'.pending = dep.pending \cup more)
    BY <1>1, <1>5 DEF Off
  <1>7. snap' = snap /\ reader' = reader
    BY DEF AskFeed
  <1>8. StoreType(dep')
    BY <1>2, <1>6 DEF StoreType
  <1>9. \A l \in dep'.pending : l \in Logs /\ l.blk >= dep.lo /\ l.blk <= dep'.to
    BY <1>2, <1>4, <1>6
  <1> QED
    BY <1>1, <1>2, <1>3, <1>6, <1>7, <1>8, <1>9, PassStep

\* The next log is new: no cursor remembers it, and it is not below the start.
LEMMA RunLogSound ==
  ASSUME SoundBefore, RunLog
  PROVE  SoundAfter
  <1>1. /\ PassSound(dep) /\ DOMAIN dep = DOMAIN Off /\ dep.lo \in Int /\ dep.pc = "feed"
        /\ \A i \in DOMAIN dep.applied : dep.applied[i] \in Logs /\ dep.applied[i].blk \in Int
    BY PassLocals DEF RunLog
  <1>2. /\ StoreType(dep) /\ Handled(dep.applied, dep.done, dep.lo) /\ TargetSound(dep.to)
        /\ NotAbove(dep.applied, dep.to)
        /\ \A l \in dep.pending : l \in Logs /\ l.blk >= dep.lo /\ l.blk <= dep.to
    BY <1>1 DEF PassSound
  <1>3. PICK log \in NextUnprocessedLogs(dep.pending, dep.done) :
          dep' = [dep EXCEPT !.applied = Append(@, log), !.done = @ \cup {LogId(log)},
                             !.dyn = @ \cup CreatedSources(log),
                             !.queue = DynamicQueue(CreatedSources(log), log.blk, log),
                             !.executed = @ + 1, !.last = log.blk]
    BY DEF RunLog, SetDep
  <1>4. /\ log \in dep.pending /\ LogId(log) \notin dep.done
        /\ log \in Logs /\ log.blk \in Int /\ log.blk >= dep.lo /\ log.blk <= dep.to
    BY <1>2 DEF NextUnprocessedLogs, Unprocessed, Logs
  <1> DEFINE new == CreatedSources(log)
             queue == DynamicQueue(new, log.blk, log)
             applied == Append(dep.applied, log)
             done == dep.done \cup {LogId(log)}
             dyn == dep.dyn \cup new
  <1>5. new \in SUBSET Subs
    BY DEF CreatedSources, Templates
  <1>6. QueueSound(queue, dep.lo)
    BY <1>1, <1>4, <1>5, DynamicQueueSound
  <1>7. /\ applied \in Seq(Logs) /\ DOMAIN applied = 1 .. Len(dep.applied) + 1
        /\ Len(dep.applied) \in Nat /\ DOMAIN dep.applied = 1 .. Len(dep.applied)
        /\ \A i \in DOMAIN dep.applied : applied[i] = dep.applied[i]
        /\ applied[Len(dep.applied) + 1] = log
    BY <1>2, <1>4 DEF StoreType
  <1>8. \A i \in DOMAIN dep.applied : dep.applied[i] # log
    BY <1>1, <1>2, <1>4 DEF Handled
  <1> HIDE DEF applied
  <1>9. IsInjective(applied)
    BY <1>2, <1>7, <1>8 DEF StoreType, IsInjective
  <1>10. Handled(applied, done, dep.lo)
    BY <1>2, <1>7 DEF Handled
  <1>11. NotAbove(applied, dep.to)
    BY <1>2, <1>4, <1>7 DEF NotAbove
  <1>12. dyn \subseteq Subs
    BY <1>2, <1>5 DEF StoreType
  <1>13. dep' = [dep EXCEPT !.applied = applied, !.done = done, !.dyn = dyn, !.queue = queue,
                            !.executed = @ + 1, !.last = log.blk]
    BY <1>3 DEF applied
  <1> HIDE DEF done, dyn, queue, new
  <1>14. /\ dep'.pc = "feed" /\ dep'.to = dep.to /\ dep'.queue = queue
         /\ DOMAIN dep' = DOMAIN Off /\ dep'.from = dep.from /\ dep'.prev = dep.prev
         /\ dep'.lo = dep.lo /\ dep'.applied = applied /\ dep'.done = done
         /\ dep'.dyn = dyn /\ dep'.pending = dep.pending
    BY <1>1, <1>13 DEF Off
  <1>15. snap' = snap /\ reader' = reader
    BY DEF RunLog, vars
  <1>16. StoreType(dep')
    BY <1>7, <1>9, <1>12, <1>14 DEF StoreType
  <1>17. \A l \in dep'.pending : l \in Logs /\ l.blk >= dep.lo /\ l.blk <= dep'.to
    BY <1>2, <1>14
  <1> QED
    BY <1>1, <1>2, <1>6, <1>10, <1>11, <1>14, <1>15, <1>16, <1>17, PassStep

\* Without a cursor in the feed the command ends.
LEMMA NoTargetSound ==
  ASSUME SoundBefore, NoTarget
  PROVE  SoundAfter
  <1>1. dep' = [Off EXCEPT !.outcome = "no_cursor"] /\ snap' = snap /\ reader' = reader
        /\ reader[Deployer].pc = "idle"
    BY PassLocals DEF NoTarget, SetDep, vars
  <1>2. dep'.pc = "off" /\ DOMAIN dep' = DOMAIN Off /\ dep'.from \in Int
    BY <1>1 DEF Off
  <1> QED
    BY <1>1, <1>2, SnapKept, AtRest

\* A handler that does not validate, or nothing left that may run.
LEMMA EndRunSound ==
  ASSUME SoundBefore, RejectLog \/ StopRunning
  PROVE  SoundAfter
  <1>1. /\ PassSound(dep) /\ DOMAIN dep = DOMAIN Off /\ dep.lo \in Int /\ dep.pc = "feed"
    BY PassLocals DEF RejectLog, StopRunning
  <1>2. /\ StoreType(dep) /\ Handled(dep.applied, dep.done, dep.lo) /\ TargetSound(dep.to)
        /\ NotAbove(dep.applied, dep.to) /\ QueueSound(dep.queue, dep.lo)
        /\ \A l \in dep.pending : l \in Logs /\ l.blk >= dep.lo /\ l.blk <= dep.to
    BY <1>1 DEF PassSound
  <1>3. \/ dep' = [dep EXCEPT !.pc = "finish", !.executed = @ + 1, !.errors = @ + 1]
        \/ dep' = [dep EXCEPT !.pc = "finish"]
    BY DEF RejectLog, StopRunning, SetDep
  <1>4. /\ dep'.pc = "finish" /\ dep'.to = dep.to /\ dep'.queue = dep.queue
        /\ DOMAIN dep' = DOMAIN Off /\ dep'.from = dep.from /\ dep'.prev = dep.prev
        /\ dep'.lo = dep.lo /\ dep'.applied = dep.applied /\ dep'.done = dep.done
        /\ dep'.dyn = dep.dyn /\ dep'.pending = dep.pending
    BY <1>1, <1>3 DEF Off
  <1>5. snap' = snap /\ reader' = reader
    BY DEF RejectLog, StopRunning, vars
  <1>6. StoreType(dep')
    BY <1>2, <1>4 DEF StoreType
  <1> QED
    BY <1>1, <1>2, <1>4, <1>5, <1>6, PassStep

\* What a pass writes: the snapshot it started from, or its own.
LEMMA FinishSyncSound ==
  ASSUME SoundBefore, FinishSync
  PROVE  SoundAfter
  <1>1. /\ PassSound(dep) /\ dep.lo \in Int /\ dep.pc = "finish"
        /\ reader[Deployer].pc = "idle"
    BY PassLocals DEF FinishSync
  <1>2. /\ StoreType(dep) /\ StoreSound(dep.prev) /\ Handled(dep.applied, dep.done, dep.lo)
        /\ TargetSound(dep.to) /\ NotAbove(dep.applied, dep.to)
    BY <1>1 DEF PassSound
  <1>r. PICK rpc \in RpcHashes(dep.to) :
          /\ snap' = SyncedSnapshot(TargetHash(rpc))
          /\ dep' = IF /\ DeployShouldContinue(SyncedSnapshot(TargetHash(rpc)))
                       /\ dep.pass < MaxPasses
                    THEN [Off EXCEPT !.pc = "register", !.cli = dep.cli, !.pass = dep.pass + 1]
                    ELSE [Off EXCEPT !.outcome = Outcome(SyncedSnapshot(TargetHash(rpc)))]
    BY DEF FinishSync, SetDep
  <1> DEFINE hash == TargetHash(rpc)
             again == DeployShouldContinue(SyncedSnapshot(hash)) /\ dep.pass < MaxPasses
             next == [Off EXCEPT !.pc = "register", !.cli = dep.cli, !.pass = dep.pass + 1]
             ended == [Off EXCEPT !.outcome = Outcome(SyncedSnapshot(hash))]
  <1>3. snap' = SyncedSnapshot(hash) /\ dep' = IF again THEN next ELSE ended
    BY <1>r
  <1>n. next.pc = "register" /\ DOMAIN next = DOMAIN Off /\ next.from = NoBlock
    BY DEF Off
  <1>e. ended.pc = "off" /\ DOMAIN ended = DOMAIN Off /\ ended.from = NoBlock
    BY DEF Off
  <1> HIDE DEF hash, again, next, ended
  <1>4. dep'.pc \in {"off", "register"} /\ DOMAIN dep' = DOMAIN Off /\ dep'.from \in Int
    BY <1>3, <1>n, <1>e
  <1>5. reader'[Deployer].pc = "idle"
    BY <1>1 DEF FinishSync, vars
  <1> DEFINE kept == SyncedSnapshot(hash)
  <1>6. StoreSound(kept)
    <2>1. CASE kept = dep.prev
      BY <1>2, <2>1
    <2>2. CASE kept # dep.prev
      <3> DEFINE done == IF ReplayComplete THEN {} ELSE dep.done
                 complete == ReplayComplete
                 ckpt == [from |-> dep.lo, to |-> dep.to, hash |-> hash,
                          complete |-> complete, errors |-> dep.errors]
      <3>1. kept = [found |-> TRUE, ckpt |-> ckpt,
                    applied |-> dep.applied, dyn |-> dep.dyn, done |-> done]
        BY <2>2 DEF SyncedSnapshot
      <3>2. ~complete => done = dep.done
        OBVIOUS
      <3>3. ckpt.from = dep.lo /\ ckpt.to = dep.to /\ (ckpt.complete <=> complete)
        OBVIOUS
      <3> HIDE DEF complete, done, kept, ckpt
      <3>4. /\ kept.found /\ kept.ckpt = ckpt
            /\ kept.applied = dep.applied /\ kept.dyn = dep.dyn /\ kept.done = done
        BY <3>1
      <3> QED
        BY <1>1, <1>2, <3>2, <3>3, <3>4 DEF StoreSound, StoreType
    <2> QED
      BY <2>1, <2>2
  <1> HIDE DEF kept
  <1>7. StoreSound(snap)'
    <2>1. StoreSound(snap')
      BY <1>3, <1>6 DEF kept
    <2> QED
      BY <2>1, StoreKept DEF SoundBefore
  <1> QED
    BY <1>4, <1>5, <1>7, AtRest

\* An error or a crash leaves the stored snapshot as it is.
LEMMA DeployFailsSound ==
  ASSUME SoundBefore, DeployFails
  PROVE  SoundAfter
  <1>1. dep' = [Off EXCEPT !.outcome = "error"] /\ snap' = snap
    BY DEF DeployFails, SetDep
  <1>2. dep'.pc = "off" /\ DOMAIN dep' = DOMAIN Off /\ dep'.from \in Int
    BY <1>1 DEF Off
  <1>3. reader'[Deployer].pc = "idle"
    BY DeployConstants, IdleType DEF DeployFails, SetReader, SoundBefore, TypeOK
  <1> QED
    BY <1>1, <1>2, <1>3, SnapKept, AtRest

\* What a reader's step does to the locals that say how far its pass has come.
Kept(y, x) == y.rows = x.rows /\ y.to = x.to

PassStarts(x, y) == x.pc = "idle" /\ y.pc = "hash" /\ y.to = HeadBlock
PassHashes(x, y) == x.pc = "hash" /\ y.pc = "list" /\ Kept(y, x)
PassLists(x, y) == x.pc = "list" /\ y.pc = "probe" /\ y.rows = subs /\ y.to = x.to
PassProbes(x, y) == x.pc = "probe" /\ y.pc = "probe" /\ Kept(y, x)
PassClean(x, y) == x.pc = "probe" /\ y.pc = "scan" /\ Kept(y, x) /\ y.todo = Active(x.rows)
PassSkips(x, y) ==
    /\ x.pc = "scan" /\ y.pc = "scan" /\ Kept(y, x)
    /\ \E s \in x.todo : /\ ScanFrom(s, x.rows[s], x.from) > x.to
                         /\ y.todo = x.todo \ {s}
PassScans(x, y) == x.pc = "scan" /\ y.pc = "write" /\ Kept(y, x) /\ y.todo = x.todo
PassWrites(x, y) ==
    /\ x.pc = "write" /\ y.pc = "scan" /\ Kept(y, x)
    /\ x.sub \in Subs /\ subs'[x.sub].cursor = x.to
    /\ y.todo = x.todo \ {x.sub}
PassDone(x, y) == x.pc = "scan" /\ x.todo = {} /\ y.pc = "idle"

\* Every step of a reader is one of these: without a reorg there is no rollback.
LEMMA ReadSteps ==
  ASSUME GrowthOnly, GrowthInv, NEW r \in Readers, ReaderStep(r), NEW x, NEW y,
         x = reader[r], y = reader'[r]
  PROVE  \/ PassStarts(x, y) \/ PassHashes(x, y) \/ PassLists(x, y) \/ PassProbes(x, y)
         \/ PassClean(x, y) \/ PassSkips(x, y) \/ PassScans(x, y) \/ PassWrites(x, y)
         \/ PassDone(x, y)
  <1>0. /\ reader \in [Readers -> ReaderStates] /\ x \in ReaderStates
        /\ x.min = NoBlock /\ x.pc # "relist"
    BY DEF GrowthInv, ReaderSound, TypeOK
  <1>s. ASSUME NEW z, SetReader(r, z) PROVE y = z
    BY <1>0, <1>s DEF SetReader
  <1>1. CASE ReaderStart(r)
    <2>1. PICK f \in ReaderFroms, t \in ReaderTos :
            SetReader(r, [x EXCEPT !.pc = "hash", !.from = f,
                            !.to = IF t # NoBlock THEN t ELSE HeadBlock])
      BY <1>1 DEF ReaderStart
    <2>2. t = NoBlock
      BY DEF GrowthOnly
    <2>3. y = [x EXCEPT !.pc = "hash", !.from = f, !.to = HeadBlock]
      BY <1>s, <2>1, <2>2
    <2>4. y.pc = "hash" /\ y.to = HeadBlock
      BY <1>0, <2>3 DEF ReaderStates
    <2> QED
      BY <1>1, <2>4 DEF ReaderStart, PassStarts
  <1>2. CASE ReaderHash(r)
    <2>1. PICK h : y = [x EXCEPT !.pc = "list", !.hash = h]
      BY <1>2, <1>s DEF ReaderHash
    <2>2. y.pc = "list" /\ Kept(y, x)
      BY <1>0, <2>1 DEF ReaderStates, Kept
    <2> QED
      BY <1>2, <2>2 DEF ReaderHash, PassHashes
  <1>3. CASE ReaderList(r)
    <2> DEFINE cursors == {subs[s].cursor : s \in Hashed(subs)}
    <2>1. y = [x EXCEPT !.pc = "probe", !.rows = subs, !.blocks = cursors]
      BY <1>3, <1>s DEF ReaderList
    <2> HIDE DEF cursors
    <2>2. y.pc = "probe" /\ y.rows = subs /\ y.to = x.to
      BY <1>0, <2>1 DEF ReaderStates
    <2> QED
      BY <1>3, <2>2 DEF ReaderList, PassLists
  <1>4. CASE ReaderProbe(r)
    <2>1. PICK b, rpc, stored :
            SetReader(r, [x EXCEPT !.blocks = @ \ {b}, !.min = LowestMismatch(@, b, rpc, stored)])
      BY <1>4 DEF ReaderProbe
    <2> DEFINE blocks == x.blocks \ {b}
               min == LowestMismatch(x.min, b, rpc, stored)
    <2>2. y = [x EXCEPT !.blocks = blocks, !.min = min]
      BY <1>s, <2>1
    <2> HIDE DEF blocks, min
    <2>3. y.pc = x.pc /\ Kept(y, x)
      BY <1>0, <2>2 DEF ReaderStates, Kept
    <2> QED
      BY <1>4, <2>3 DEF ReaderProbe, PassProbes
  <1>5. CASE ReaderClean(r)
    <2> DEFINE todo == Active(x.rows)
    <2>1. y = [x EXCEPT !.pc = "scan", !.todo = todo]
      BY <1>5, <1>s DEF ReaderClean
    <2>2. y.pc = "scan" /\ Kept(y, x) /\ y.todo = todo
      BY <1>0, <2>1 DEF ReaderStates, Kept
    <2> QED
      BY <1>5, <2>2 DEF ReaderClean, PassClean
  <1>6. CASE ReaderRollback(r) \/ ReaderRelist(r)
    BY <1>0, <1>6 DEF ReaderRollback, ReaderRelist
  <1>7. CASE ReaderSkip(r)
    <2>1. PICK s \in x.todo :
            /\ ScanFrom(s, x.rows[s], x.from) > x.to
            /\ SetReader(r, [x EXCEPT !.todo = @ \ {s}])
      BY <1>7 DEF ReaderSkip
    <2>2. y = [x EXCEPT !.todo = @ \ {s}]
      BY <1>s, <2>1
    <2>3. y.pc = x.pc /\ Kept(y, x) /\ y.todo = x.todo \ {s}
      BY <1>0, <2>2 DEF ReaderStates, Kept
    <2> QED
      BY <1>7, <2>1, <2>3 DEF ReaderSkip, PassSkips
  <1>8. CASE ReaderScan(r)
    <2>1. PICK s, found : SetReader(r, [x EXCEPT !.pc = "write", !.sub = s, !.logs = found])
      BY <1>8 DEF ReaderScan
    <2>2. y = [x EXCEPT !.pc = "write", !.sub = s, !.logs = found]
      BY <1>s, <2>1
    <2>3. y.pc = "write" /\ Kept(y, x) /\ y.todo = x.todo
      BY <1>0, <2>2 DEF ReaderStates, Kept
    <2> QED
      BY <1>8, <2>3 DEF ReaderScan, PassScans
  <1>9. CASE ReaderWrite(r)
    <2>1. y = [x EXCEPT !.pc = "scan", !.logs = {}, !.todo = @ \ {x.sub}]
      BY <1>9, <1>s DEF ReaderWrite
    <2>2. y.pc = "scan" /\ Kept(y, x) /\ y.todo = x.todo \ {x.sub}
      BY <1>0, <2>1 DEF ReaderStates, Kept
    <2> QED
      BY <1>9, <2>2, WrittenRow DEF ReaderWrite, PassWrites
  <1>10. CASE ReaderDone(r)
    BY <1>10, <1>s, IdleType DEF ReaderDone, PassDone
  <1> QED
    BY <1>1, <1>2, <1>3, <1>4, <1>5, <1>6, <1>7, <1>8, <1>9, <1>10 DEF ReaderStep

\* The row of one subscription, while its pass goes on.
LEMMA RowsListed ==
  ASSUME SoundBefore, NEW x, x = reader[Deployer]
  PROVE  /\ x \in ReaderStates /\ x.to \in Int /\ x.from \in Nat \cup {NoBlock}
         /\ x.todo \subseteq Active(x.rows) /\ Active(x.rows) \subseteq Subs
         /\ \A s \in Subs : /\ x.rows[s] \in Rows /\ x.rows[s].cursor \in Int
                            /\ SubFrom[s] \in Int
                            /\ x.from <= SubFrom[s]
         /\ snap.found => snap.ckpt.to \in Int
  <1>1. x \in ReaderStates /\ ReaderSound(x)
    BY DeployConstants DEF SoundBefore, GrowthInv, TypeOK
  <1>2. x.to \in Cursors /\ x.from \in Nat \cup {NoBlock} /\ \A s \in Subs : x.rows[s] \in Rows
    BY <1>1 DEF ReaderStates
  <1>3. \A s \in Subs : SubFrom[s] \in Nat /\ x.rows[s].cursor \in Cursors
    BY <1>2, FeedConstants DEF Rows
  <1>4. \A s \in Subs : x.from <= SubFrom[s]
    BY <1>1, <1>3 DEF ReaderSound, GrowthOnly, SoundBefore
  <1>5. \A c \in Cursors : c \in Int
    BY ChainConstants DEF Cursors, Blocks
  <1>6. snap.found => snap.ckpt.to \in Int
    BY DEF SoundBefore, StoreSound, TargetSound, Blocks
  <1>7. x.todo \subseteq Active(x.rows) /\ Active(x.rows) \subseteq Subs
    BY <1>1 DEF ReaderSound, Active
  <1> QED
    BY <1>1, <1>2, <1>3, <1>4, <1>5, <1>6, <1>7

\* The command's reader brings a started source to its target before it ends.
Behind(x, latest) ==
    \E s \in Started(x.rows, snap.ckpt.to) :
        /\ x.rows[s].cursor <= latest
        /\ x.pc # "probe" => s \in x.todo \/ x.to <= latest

\* Its pass therefore ends with the highest cursor at or beyond the checkpoint.
LEMMA ReadAdvances ==
  ASSUME SoundBefore, ReaderStep(Deployer), snap.found, dep.pc = "read",
         LatestFeedBlock <= LatestFeedBlock', NEW x, NEW y,
         x = reader[Deployer], y = reader'[Deployer]
  PROVE  IF y.pc = "idle"
         THEN snap.ckpt.to <= LatestFeedBlock'
         ELSE /\ snap.ckpt.to <= y.to
              /\ y.pc \in {"probe", "scan", "write"} => Behind(y, LatestFeedBlock')
  <1> DEFINE to == snap.ckpt.to
             was == LatestFeedBlock
             is == LatestFeedBlock'
  <1>0. /\ x \in ReaderStates /\ x.to \in Int /\ to \in Int /\ was \in Int /\ is \in Int
        /\ x.from \in Nat \cup {NoBlock} /\ was <= is
        /\ \A s \in Subs : /\ x.rows[s] \in Rows /\ x.rows[s].cursor \in Int
                           /\ SubFrom[s] \in Int /\ x.from <= SubFrom[s]
        /\ x.todo \subseteq Active(x.rows) /\ Active(x.rows) \subseteq Subs
    BY RowsListed, CursorsTyped
  <1>1. /\ x.pc # "idle" => to <= x.to
        /\ x.pc \in {"probe", "scan", "write"} => Behind(x, was)
    BY DEF SoundBefore, ReadSound, Behind
  <1>2. TargetSound(to) /\ Len(chain) \in Int
    BY DEF SoundBefore, StoreSound, TypeOK
  <1> HIDE DEF was, is
  <1>3. CASE PassStarts(x, y)
    BY <1>0, <1>2, <1>3 DEF PassStarts, HeadBlock, TargetSound
  <1>4. CASE PassHashes(x, y)
    BY <1>1, <1>4 DEF PassHashes, Kept
  <1>5. CASE PassLists(x, y)
    <2>1. PICK s \in Started(subs, to) : TRUE
      BY <1>2 DEF TargetSound
    <2>2. s \in Subs
      BY <2>1 DEF Started, Active
    <2>3. subs[s].cursor <= was /\ subs[s].cursor \in Int
      BY <2>2, CursorsTyped, HighestIs, ChainConstants DEF was, LatestFeedBlock, Rows, Cursors, Blocks
    <2>4. subs[s].cursor <= is
      BY <1>0, <2>3
    <2> QED
      BY <1>1, <1>5, <2>1, <2>4 DEF PassLists, Behind, is
  <1>6. CASE PassProbes(x, y)
    BY <1>0, <1>1, <1>6 DEF PassProbes, Kept, Behind, Started, is
  <1>7. ASSUME NEW s \in Started(x.rows, to), x.pc # "idle", y.pc \in {"scan", "write"},
               Kept(y, x), x.rows[s].cursor <= was, s \in y.todo \/ x.to <= is
        PROVE  /\ to <= y.to
               /\ Behind(y, LatestFeedBlock')
    <2>1. x.rows[s].cursor <= is
      BY <1>0, <1>7 DEF Started
    <2> QED
      BY <1>1, <1>7, <2>1 DEF Kept, Behind, is
  <1>8. CASE PassClean(x, y)
    <2>1. PICK s \in Started(x.rows, to) : x.rows[s].cursor <= was
      BY <1>1, <1>8 DEF PassClean, Behind
    <2> QED
      BY <1>7, <1>8, <2>1 DEF PassClean, Started
  <1>9. ASSUME x.pc \in {"scan", "write"}
        PROVE  \E s \in Started(x.rows, to) : /\ x.rows[s].cursor <= was
                                              /\ s \in x.todo \/ x.to <= is
    <2>1. PICK s \in Started(x.rows, to) : /\ x.rows[s].cursor <= was
                                           /\ s \in x.todo \/ x.to <= was
      BY <1>1, <1>9 DEF Behind
    <2> QED
      BY <1>0, <2>1
  <1>10. CASE PassScans(x, y)
    <2>1. PICK s \in Started(x.rows, to) : /\ x.rows[s].cursor <= was
                                           /\ s \in x.todo \/ x.to <= is
      BY <1>9, <1>10 DEF PassScans
    <2> QED
      BY <1>7, <1>10, <2>1 DEF PassScans
  <1>11. CASE PassSkips(x, y)
    <2>1. PICK s \in Started(x.rows, to) : /\ x.rows[s].cursor <= was
                                           /\ s \in x.todo \/ x.to <= is
      BY <1>9, <1>11 DEF PassSkips
    <2>2. PICK t \in x.todo : ScanFrom(t, x.rows[t], x.from) > x.to /\ y.todo = x.todo \ {t}
      BY <1>11 DEF PassSkips
    <2>3. CASE s # t
      BY <1>7, <1>11, <2>1, <2>2, <2>3 DEF PassSkips
    <2>4. CASE s = t
      <3>1. s \in Subs /\ SubFrom[s] <= to /\ to <= x.to
        BY <1>1, <1>11, <2>1 DEF Started, Active, PassSkips
      <3>2. \/ ScanFrom(s, x.rows[s], x.from) = SubFrom[s]
            \/ ScanFrom(s, x.rows[s], x.from) = x.rows[s].cursor + 1
        BY <1>0, <3>1, ScanFromIs
      <3>3. x.to <= is
        BY <1>0, <2>1, <2>2, <2>4, <3>1, <3>2
      <3> QED
        BY <1>7, <1>11, <2>1, <3>3 DEF PassSkips
    <2> QED
      BY <2>3, <2>4
  <1>12. CASE PassWrites(x, y)
    <2>1. PICK s \in Started(x.rows, to) : /\ x.rows[s].cursor <= was
                                           /\ s \in x.todo \/ x.to <= is
      BY <1>9, <1>12 DEF PassWrites
    <2>2. x.to <= is
      <3>1. x.sub \in Subs /\ subs'[x.sub].cursor = x.to /\ subs' \in [Subs -> Rows]
        BY <1>12, CursorsTyped DEF PassWrites
      <3>2. subs'[x.sub].cursor <= HighestCursor(subs')
        BY <3>1, HighestIs
      <3> QED
        BY <3>1, <3>2 DEF is, LatestFeedBlock
    <2> QED
      BY <1>7, <1>12, <2>1, <2>2 DEF PassWrites
  <1>13. CASE PassDone(x, y)
    <2>1. PICK s \in Started(x.rows, to) : s \in x.todo \/ x.to <= is
      BY <1>9, <1>13 DEF PassDone
    <2> QED
      BY <1>0, <1>1, <1>13, <2>1 DEF PassDone, is
  <1>14. GrowthOnly /\ GrowthInv /\ Deployer \in Readers
    BY DeployConstants DEF SoundBefore
  <1>15. \/ PassStarts(x, y) \/ PassHashes(x, y) \/ PassLists(x, y) \/ PassProbes(x, y)
         \/ PassClean(x, y) \/ PassSkips(x, y) \/ PassScans(x, y) \/ PassWrites(x, y)
         \/ PassDone(x, y)
    BY <1>14, ReadSteps
  <1>16. CASE PassClean(x, y) \/ PassSkips(x, y) \/ PassScans(x, y) \/ PassWrites(x, y)
    <2>1. y.pc # "idle"
      BY <1>16 DEF PassClean, PassSkips, PassScans, PassWrites
    <2> QED
      BY <1>8, <1>10, <1>11, <1>12, <1>16, <2>1
  <1> QED
    BY <1>3, <1>4, <1>5, <1>6, <1>13, <1>15, <1>16

\* A step of the command's own reader.
LEMMA ReadFeedSound ==
  ASSUME SoundBefore, ReadFeed, LatestFeedBlock <= LatestFeedBlock'
  PROVE  SoundAfter
  <1> DEFINE x == reader[Deployer]
             y == reader'[Deployer]
  <1>1. /\ dep.pc = "read" /\ snap' = snap /\ ReaderStep(Deployer)
        /\ DOMAIN dep = DOMAIN Off /\ dep.from \in Int
    BY DEF ReadFeed, SoundBefore, DepSound
  <1>2. dep' = IF x.pc # "idle" /\ y.pc = "idle" THEN [dep EXCEPT !.pc = "load"] ELSE dep
    BY DEF ReadFeed, SetDep
  <1>3. /\ DOMAIN dep' = DOMAIN Off /\ dep'.from \in Int
        /\ dep'.pc = IF x.pc # "idle" /\ y.pc = "idle" THEN "load" ELSE "read"
    BY <1>1, <1>2 DEF Off
  <1> HIDE DEF x, y
  <1>4. snap.found =>
          IF y.pc = "idle"
          THEN snap.ckpt.to <= LatestFeedBlock'
          ELSE /\ snap.ckpt.to <= y.to
               /\ y.pc \in {"probe", "scan", "write"} => Behind(y, LatestFeedBlock')
    BY <1>1, ReadAdvances DEF x, y
  <1>5. DepSound'
    BY <1>1, <1>3, <1>4 DEF DepSound, y
  <1>6. ReadSound'
    <2>1. snap.found /\ y.pc # "idle" =>
            /\ snap.ckpt.to <= y.to
            /\ y.pc \in {"probe", "scan", "write"} =>
                  \E s \in Started(y.rows, snap.ckpt.to) :
                      /\ y.rows[s].cursor <= LatestFeedBlock'
                      /\ y.pc # "probe" => s \in y.todo \/ y.to <= LatestFeedBlock'
      BY <1>4 DEF Behind
    <2> QED
      BY <1>1, <2>1 DEF ReadSound, Started, Active, y
  <1> QED
    BY <1>1, <1>5, <1>6, SnapKept DEF SoundAfter

\* Its failure: the pass begins again.
LEMMA RetryReadSound ==
  ASSUME SoundBefore, RetryRead
  PROVE  SoundAfter
  <1>1. dep' = dep /\ snap' = snap /\ dep.pc = "read"
    BY DEF RetryRead
  <1>2. reader'[Deployer].pc = "idle"
    BY DeployConstants, IdleType
       DEF RetryRead, ReaderFail, SetReader, SoundBefore, TypeOK
  <1>3. DepSound' /\ ReadSound'
    BY <1>1, <1>2 DEF DepSound, ReadSound, SoundBefore
  <1> QED
    BY <1>1, <1>3, SnapKept DEF SoundAfter

(***************************************************************************)
(* The invariant.                                                           *)
(***************************************************************************)
\* Every step keeps what the invariant claims while the cursor has not fallen.
LEMMA SoundStep ==
  ASSUME SoundBefore, [DeployNext]_deployVars, ~lowered'
  PROVE  SoundAfter
  <1>1. ASSUME WatchCursors PROVE dep.pc = "off" \/ LatestFeedBlock <= LatestFeedBlock'
    <2> DEFINE was == LatestFeedBlock
               is == LatestFeedBlock'
               fell == is < was
    <2>1. lowered' = (lowered \/ (dep.pc # "off" /\ fell))
      BY <1>1 DEF WatchCursors
    <2>2. was \in Int /\ is \in Int /\ (~fell => was <= is)
      BY CursorsTyped
    <2> HIDE DEF fell
    <2>3. ~(dep.pc # "off" /\ fell)
      BY <2>1, Zenon
    <2> QED
      BY <2>2, <2>3
  <1>2. CASE ReadFeed
    <2>1. WatchCursors /\ dep.pc # "off"
      BY <1>2 DEF ReadFeed
    <2> QED
      BY <1>1, <1>2, <2>1, ReadFeedSound
  <1>3. ASSUME NEW r \in Readers \ {Deployer}, ServiceReads(r)
        PROVE  SoundAfter
    <2>1. UNCHANGED <<dep, snap>> /\ WatchCursors /\ ReaderStep(r)
      BY <1>3 DEF ServiceReads
    <2>2. reader'[Deployer] = reader[Deployer]
      BY <1>3, <2>1, DeployConstants, ReaderMoves DEF SoundBefore
    <2> QED
      BY <1>1, <2>1, <2>2, QuietStep
  <1>4. CASE ChainGrows \/ UNCHANGED deployVars
    <2>1. UNCHANGED <<dep, snap, subs, reader>>
      BY <1>4 DEF ChainGrows, Mine, tables, deployVars, vars
    <2>2. LatestFeedBlock' = LatestFeedBlock /\ LatestFeedBlock \in Int
      BY <2>1, SameLatest, CursorsTyped
    <2> QED
      BY <2>1, <2>2, QuietStep
  <1>5. CASE DeployStep /\ ~ReadFeed
    BY <1>5, StartDeploySound, RegisterStaticSound, RetryReadSound, LoadSnapshotSound,
       ChooseTargetSound, NoTargetSound, AskFeedSound, RunLogSound, EndRunSound,
       FinishSyncSound, DeployFailsSound DEF DeployStep
  <1> QED
    BY <1>2, <1>3, <1>4, <1>5 DEF DeployNext

\* A cursor that has fallen stays fallen.
LEMMA LoweredStays ==
  ASSUME [DeployNext]_deployVars, lowered
  PROVE  lowered'
  <1>1. CASE DeployStep
    BY <1>1 DEF DeployStep, StartDeploy, RegisterStatic, ReadFeed, RetryRead, LoadSnapshot,
                ChooseTarget, NoTarget, AskFeed, RunLog, RejectLog, StopRunning, FinishSync,
                DeployFails, WatchCursors, aux
  <1>2. CASE ChainGrows \/ (\E r \in Readers \ {Deployer} : ServiceReads(r))
             \/ UNCHANGED deployVars
    BY <1>2 DEF ChainGrows, ServiceReads, WatchCursors, aux, deployVars
  <1> QED
    BY <1>1, <1>2 DEF DeployNext

\* The invariant is inductive,
LEMMA OnceStep ==
  ASSUME GrowthOnly, OnceInv, [DeployNext]_deployVars
  PROVE  OnceInv'
  <1>1. GrowthInv /\ GrowthInv' /\ TypeOK /\ TypeOK'
    BY DeployGrowth DEF OnceInv, GrowthInv
  <1>2. Moves /\ CursorsStarted /\ CursorsStarted'
    BY <1>1, FeedMoves, CursorsStartedKept DEF OnceInv
  <1>3. ASSUME ~lowered' PROVE SoundAfter
    <2>1. ~lowered
      BY <1>3, LoweredStays
    <2>2. SoundBefore
      BY <1>1, <1>2, <2>1 DEF OnceInv, SoundBefore
    <2> QED
      BY <1>3, <2>2, SoundStep
  <1> QED
    BY <1>1, <1>2, <1>3 DEF OnceInv, SoundAfter

\* and holds at first.
LEMMA OnceInit ==
  ASSUME GrowthOnly, DeployInit
  PROVE  OnceInv
  <1>1. GrowthInv
    BY InitGrowth DEF DeployInit
  <1>2. /\ dep = Off /\ snap = NoSnap /\ lowered = FALSE /\ Init
    BY DEF DeployInit
  <1>3. \A r \in Readers : reader[r].pc = "idle"
    BY <1>2, IdleType DEF Init
  <1>4. CursorsStarted
    BY <1>2, <1>3 DEF CursorsStarted, Init, NoRow
  <1>5. StoreSound(snap)
    BY <1>2 DEF NoSnap, StoreSound, StoreType, IsInjective
  <1>6. dep.pc = "off" /\ DOMAIN dep = DOMAIN Off /\ dep.from \in Int
    BY <1>2 DEF Off
  <1>7. ReadSound /\ DepSound
    BY <1>3, <1>6, DeployConstants DEF ReadSound, DepSound
  <1> QED
    BY <1>1, <1>4, <1>5, <1>7 DEF OnceInv

\* No log is executed twice into one store, for any number of deploys,
\* services, crashes and failed passes, as long as the highest cursor of the
\* feed does not fall while a deploy runs.
THEOREM NoLogTwice ==
  ASSUME GrowthOnly
  PROVE  DeploySpec => []NoLogExecutedTwice
  <1>1. DeployInit => OnceInv
    BY OnceInit
  <1>2. OnceInv /\ [DeployNext]_deployVars => OnceInv'
    BY OnceStep
  <1>3. OnceInv => NoLogExecutedTwice
    BY DEF OnceInv, StoreSound, StoreType, NoLogExecutedTwice
  <1> QED
    BY <1>1, <1>2, <1>3, PTL DEF DeploySpec

(***************************************************************************)
(* What a deployment has executed, of a chain c.                            *)
(***************************************************************************)
Chained(c) == c \in Seq(ChainBlocks) /\ Len(c) <= MaxHead + 1

LogsOf(c) == AllLogs(c, Len(c) - 1)

\* A log of a static source that has started.
Rooted(l) == \E s \in Static : SubAddr[s] = l.ev.addr /\ SubFrom[s] <= l.blk

\* A log that an index of the chain contains.
Due(c, l) ==
    \/ Rooted(l)
    \/ \E m \in LogsOf(c) : Rooted(m) /\ Before(m, l) /\ l.ev.addr \in m.ev.creates

\* The log that created a template source.
Creator(m, t) == Rooted(m) /\ SubAddr[t] \in m.ev.creates /\ SubFrom[t] = m.blk

DueBelow(c, A, b) == \A l \in LogsOf(c) : Due(c, l) /\ l.blk < b => l \in A

\* Nothing is missing below a block: it is a --from-block, or it was reached.
Reached(c, A, b) == b \in FromArgs \/ (b <= Len(c) /\ DueBelow(c, A, b))

\* The executed logs are logs of the chain that a static source or one of its
\* creations accounts for, and the static sources' were executed in chain order.
IndexSound(c, A) ==
    /\ \A l \in A :
          /\ l \in LogsOf(c)
          /\ Rooted(l) \/ \E m \in A : /\ Rooted(m) /\ m.blk <= l.blk
                                       /\ l.ev.addr \in m.ev.creates
    /\ \A m \in A, l \in LogsOf(c) : Rooted(l) /\ Rooted(m) /\ Before(l, m) => l \in A

\* The followed template sources are those the executed logs created, each from
\* the first of these logs on.
SourcesSound(A, dyn) ==
    /\ dyn \subseteq Templates
    /\ \A t \in dyn : \E m \in A : Creator(m, t)
    /\ \A l \in A : Rooted(l) => \A a \in l.ev.creates :
          \E t \in dyn, m \in A : SubAddr[t] = a /\ Creator(m, t) /\ ~Before(l, m)

CursorsOf(A, done) == \A id \in done : \E l \in A : LogId(l) = id

SnapIndexed(c, rows, x) ==
    LET A == Range(x.applied)
    IN  /\ IndexSound(c, A)
        /\ SourcesSound(A, x.dyn)
        /\ CursorsOf(A, x.done)
        /\ x.dyn \subseteq Active(rows)
        /\ x.found => /\ x.ckpt.from \in Nat
                      /\ Reached(c, A, IF x.ckpt.complete THEN x.ckpt.to + 1 ELSE x.ckpt.from)

(***************************************************************************)
(* Logs of a chain that grows.                                              *)
(***************************************************************************)
\* The logs of the chain are ordered, and known by block and index.
LEMMA OnChainFacts ==
  ASSUME NEW c, Chained(c)
  PROVE  /\ LogSet(LogsOf(c)) /\ Len(c) \in Nat
         /\ \A l \in LogsOf(c) :
               /\ l.blk \in Nat /\ l.blk \in Blocks /\ l.blk < Len(c)
               /\ l.ev \in c[l.blk + 1].body /\ c[l.blk + 1].body \in Contents
               /\ l.ev.idx \in Nat /\ l = LogAt(c, l.blk, l.ev)
         /\ \A l : (/\ l.blk \in Nat /\ l.blk + 1 \in DOMAIN c
                    /\ l.ev \in c[l.blk + 1].body /\ l = LogAt(c, l.blk, l.ev))
                   => l \in LogsOf(c)
  <1> DEFINE top == Len(c) - 1
  <1>1. /\ c \in Seq(ChainBlocks) /\ Len(c) \in Nat /\ DOMAIN c = 1 .. Len(c)
        /\ Len(c) <= MaxHead + 1 /\ top \in Int /\ MaxHead \in Nat
    BY ChainConstants DEF Chained
  <1>2. \A b \in DOMAIN c : c[b].body \in Contents
    <2>1. \A b \in DOMAIN c : c[b] \in ChainBlocks
      BY <1>1
    <2> QED
      BY <2>1 DEF ChainBlocks
  <1>3. \A b \in DOMAIN c : IsBody(c[b].body)
    <2>1. ASSUME NEW body \in Contents PROVE IsBody(body)
      <3>1. IsFiniteSet(body) /\ \A e \in body : e.idx \in Nat
        BY DeployConstants
      <3>2. \A e, f \in body : e.idx = f.idx => e = f
        BY FeedConstants
      <3> QED
        BY <3>1, <3>2 DEF IsBody
    <2> QED
      BY <1>2, <2>1
  <1>4. /\ LogSet(LogsOf(c))
        /\ \A l : l \in LogsOf(c) <=> \E b \in BlocksIn(c, 0, top) : l \in BlockLogs(c, b)
        /\ \A l \in LogsOf(c) :
               /\ l.blk \in 0 .. top /\ l.blk + 1 \in DOMAIN c
               /\ l.ev \in c[l.blk + 1].body
               /\ l = LogAt(c, l.blk, l.ev)
    BY <1>1, <1>3, AllLogsFacts DEF LogsOf
  <1>5. ASSUME NEW l, l.blk \in Nat, l.blk + 1 \in DOMAIN c, l.ev \in c[l.blk + 1].body,
               l = LogAt(c, l.blk, l.ev)
        PROVE  l \in LogsOf(c)
    <2>1. l.blk \in BlocksIn(c, 0, top)
      BY <1>1, <1>5 DEF BlocksIn
    <2>2. l \in BlockLogs(c, l.blk)
      BY <1>5 DEF BlockLogs
    <2> QED
      BY <1>4, <2>1, <2>2
  <1>6. ASSUME NEW l \in LogsOf(c)
        PROVE  /\ l.blk \in Nat /\ l.blk \in Blocks /\ l.blk < Len(c)
               /\ l.ev \in c[l.blk + 1].body /\ c[l.blk + 1].body \in Contents
               /\ l.ev.idx \in Nat /\ l = LogAt(c, l.blk, l.ev)
    <2>1. /\ l.blk \in 0 .. top /\ l.blk + 1 \in DOMAIN c
          /\ l.ev \in c[l.blk + 1].body /\ l = LogAt(c, l.blk, l.ev)
      BY <1>4
    <2>2. l.blk \in Nat /\ l.blk \in Blocks /\ l.blk < Len(c)
      BY <1>1, <2>1 DEF Blocks
    <2>3. l.ev.idx \in Nat
      BY <1>2, <2>1, DeployConstants
    <2> QED
      BY <1>2, <2>1, <2>2, <2>3
  <1> QED
    BY <1>1, <1>4, <1>5, <1>6

\* A chain that is the other one, or one block longer.
Extends(d, c) == d = c \/ \E block : d = Append(c, block)

\* Its logs stay; new ones are above all others.
LEMMA LogsKept ==
  ASSUME NEW c, NEW d, Chained(c), Chained(d), Extends(d, c)
  PROVE  /\ LogsOf(c) \subseteq LogsOf(d)
         /\ \A l \in LogsOf(d) : l \in LogsOf(c) \/ l.blk = Len(c)
         /\ Len(c) <= Len(d) /\ Len(c) \in Nat /\ Len(d) \in Nat
  <1>0. Len(c) \in Nat /\ Len(d) \in Nat
    BY OnChainFacts
  <1>1. CASE d = c
    BY <1>0, <1>1
  <1>2. CASE d # c
    <2>1. PICK block : d = Append(c, block)
      BY <1>2 DEF Extends
    <2>2. c \in Seq(ChainBlocks) /\ d \in Seq(ChainBlocks) /\ DOMAIN c = 1 .. Len(c)
      BY DEF Chained
    <2>3. /\ Len(d) = Len(c) + 1 /\ DOMAIN d = 1 .. Len(c) + 1
          /\ \A b \in 1 .. Len(c) : d[b] = c[b]
      BY <2>1, <2>2
    <2>4. ASSUME NEW l \in LogsOf(c) PROVE l \in LogsOf(d)
      <3>1. /\ l.blk \in Nat /\ l.blk < Len(c) /\ l.ev \in c[l.blk + 1].body
            /\ l = LogAt(c, l.blk, l.ev)
        BY OnChainFacts
      <3>2. l.blk + 1 \in 1 .. Len(c) /\ l.blk + 1 \in DOMAIN d
        BY <1>0, <2>3, <3>1
      <3>3. d[l.blk + 1] = c[l.blk + 1]
        BY <2>3, <3>2
      <3>4. l = LogAt(d, l.blk, l.ev)
        BY <3>1, <3>3 DEF LogAt
      <3> QED
        BY <3>1, <3>2, <3>3, <3>4, OnChainFacts
    <2>5. ASSUME NEW l \in LogsOf(d), l.blk # Len(c) PROVE l \in LogsOf(c)
      <3>1. /\ l.blk \in Nat /\ l.blk < Len(d) /\ l.ev \in d[l.blk + 1].body
            /\ l = LogAt(d, l.blk, l.ev)
        BY OnChainFacts
      <3>2. l.blk + 1 \in 1 .. Len(c) /\ l.blk + 1 \in DOMAIN c
        BY <1>0, <2>2, <2>3, <2>5, <3>1
      <3>3. d[l.blk + 1] = c[l.blk + 1]
        BY <2>3, <3>2
      <3>4. l = LogAt(c, l.blk, l.ev)
        BY <3>1, <3>3 DEF LogAt
      <3> QED
        BY <3>1, <3>2, <3>3, <3>4, OnChainFacts
    <2> QED
      BY <1>0, <2>3, <2>4, <2>5
  <1> QED
    BY <1>1, <1>2

\* What was due below its head still is, and nothing else is.
LEMMA ReachedKept ==
  ASSUME NEW c, NEW d, Chained(c), Chained(d), Extends(d, c), NEW A, NEW b \in Int,
         Reached(c, A, b)
  PROVE  Reached(d, A, b)
  <1>1. /\ LogsOf(c) \subseteq LogsOf(d)
        /\ \A l \in LogsOf(d) : l \in LogsOf(c) \/ l.blk = Len(c)
        /\ Len(c) <= Len(d) /\ Len(c) \in Nat /\ Len(d) \in Nat
        /\ LogSet(LogsOf(d))
    BY LogsKept, OnChainFacts
  <1>2. CASE b \in FromArgs
    BY <1>2 DEF Reached
  <1>3. CASE b <= Len(c) /\ DueBelow(c, A, b)
    <2>1. ASSUME NEW l \in LogsOf(d), Due(d, l), l.blk < b PROVE l \in A
      <3>1. l.blk \in Nat /\ l.blk < Len(c) /\ l \in LogsOf(c)
        BY <1>1, <1>3, <2>1 DEF LogSet
      <3>2. Due(c, l)
        <4>1. CASE Rooted(l)
          BY <4>1 DEF Due
        <4>2. ASSUME NEW m \in LogsOf(d), Rooted(m), Before(m, l), l.ev.addr \in m.ev.creates
              PROVE  Due(c, l)
          <5>1. m.blk \in Nat /\ m.blk <= l.blk
            BY <1>1, <3>1, <4>2 DEF Before, LogSet
          <5>2. m \in LogsOf(c)
            BY <1>1, <3>1, <5>1
          <5> QED
            BY <4>2, <5>2 DEF Due
        <4> QED
          BY <2>1, <4>1, <4>2 DEF Due
      <3> QED
        BY <1>3, <2>1, <3>1, <3>2 DEF DueBelow
    <2> QED
      BY <1>1, <1>3, <2>1 DEF Reached, DueBelow
  <1> QED
    BY <1>2, <1>3 DEF Reached

\* More executed logs do not unreach a block.
LEMMA ReachedMore ==
  ASSUME NEW c, NEW A, NEW B, A \subseteq B, NEW b, Reached(c, A, b)
  PROVE  Reached(c, B, b)
  BY DEF Reached, DueBelow

\* A sound index of a chain is one of the longer chain.
LEMMA IndexKept ==
  ASSUME NEW c, NEW d, Chained(c), Chained(d), Extends(d, c), NEW A, IndexSound(c, A)
  PROVE  IndexSound(d, A)
  <1>1. /\ LogsOf(c) \subseteq LogsOf(d)
        /\ \A l \in LogsOf(d) : l \in LogsOf(c) \/ l.blk = Len(c)
        /\ LogSet(LogsOf(d)) /\ Len(c) \in Nat
        /\ \A l \in LogsOf(c) : l.blk < Len(c)
    BY LogsKept, OnChainFacts
  <1>2. ASSUME NEW m \in A, NEW l \in LogsOf(d), Rooted(l), Rooted(m), Before(l, m)
        PROVE  l \in A
    <2>1. m \in LogsOf(c) /\ m.blk < Len(c) /\ m.blk \in Nat /\ l.blk \in Nat
      BY <1>1 DEF IndexSound, LogSet
    <2>2. l.blk # Len(c)
      BY <1>1, <1>2, <2>1 DEF Before
    <2> QED
      BY <1>1, <1>2, <2>2 DEF IndexSound
  <1> QED
    BY <1>1, <1>2 DEF IndexSound

\* So is a sound snapshot, while subscriptions appear.
LEMMA SnapIndexKept ==
  ASSUME NEW c, NEW d, Chained(c), Chained(d), Extends(d, c),
         NEW rows, NEW next, Active(rows) \subseteq Active(next),
         NEW x, SnapIndexed(c, rows, x), x.found => x.ckpt.to \in Int
  PROVE  SnapIndexed(d, next, x)
  <1> DEFINE A == Range(x.applied)
             b == IF x.ckpt.complete THEN x.ckpt.to + 1 ELSE x.ckpt.from
  <1>1. IndexSound(d, A)
    BY IndexKept DEF SnapIndexed
  <1>2. ASSUME x.found PROVE Reached(d, A, b)
    <2>1. b \in Int /\ Reached(c, A, b)
      BY <1>2 DEF SnapIndexed
    <2> HIDE DEF b
    <2> QED
      BY <2>1, ReachedKept
  <1> QED
    BY <1>1, <1>2 DEF SnapIndexed

(***************************************************************************)
(* A pass over the feed.                                                    *)
(***************************************************************************)
\* Active sources whose cursors are at or beyond a block, if they have started.
CaughtUp(rows, sources, b) ==
    \A s \in sources : rows[s].active /\ (SubFrom[s] <= b => rows[s].cursor >= b)

\* The stored logs of a source from a block and behind a log on are pending, ...
Loaded(raw, d, s, from, after) ==
    \/ Ask("load", s, from, after) \in Range(d.queue)
    \/ \A l \in raw : /\ Matches(s, TopicsOf(s), l)
                      /\ l.blk >= from /\ l.blk >= SubFrom[s] /\ l.blk <= d.to
                      /\ Before(after, l)
                      => l \in d.pending

\* ... and a source the feed has not caught up with is remembered, ...
Checked(rows, d, s, from, after) ==
    \/ Ask("check", s, from, after) \in Range(d.queue)
    \/ rows[s].active /\ rows[s].cursor >= d.to
    \/ d.backfill

\* ... or the queue still asks for it.
Fetched(raw, rows, d, s, from, after) ==
    Loaded(raw, d, s, from, after) /\ Checked(rows, d, s, from, after)

\* A template source is fetched from the start of the pass, or from its creator.
Fetching(raw, rows, d, t, m) ==
    Fetched(raw, rows, d, t, d.lo, FirstKey) \/ Fetched(raw, rows, d, t, m.blk, m)

PassIndexed(c, rows, d) ==
    LET A == Range(d.applied)
    IN  /\ IndexSound(c, A)
        /\ CursorsOf(A, d.done)
        /\ d.lo \in Nat
        /\ Reached(c, A, d.lo)
        /\ SnapIndexed(c, rows, d.prev)

TargetIndexed(rows, d) ==
    /\ SourcesSound(Range(d.applied), d.dyn)
    /\ d.dyn = d.prev.dyn
    /\ CaughtUp(rows, Static \cup d.prev.dyn, HighestCursor(rows))

\* What a pending log is: of a static source that has started, or of a template's.
Accounted(c, dyn, l) ==
    /\ l \in LogsOf(c)
    /\ Rooted(l) \/ \E t \in dyn : SubAddr[t] = l.ev.addr /\ SubFrom[t] <= l.blk

\* A followed template source is active, or about to be.
Enrolled(rows, queue, t) ==
    rows[t].active \/ \E q \in Range(queue) : q.op = "register" /\ q.sub = t

FeedIndexed(c, raw, rows, d) ==
    LET A == Range(d.applied)
    IN  /\ CaughtUp(rows, Static \cup d.prev.dyn, d.to)
        /\ d.prev.dyn \subseteq d.dyn /\ d.dyn \subseteq Templates
        /\ \A s \in Static : Fetched(raw, rows, d, s, d.lo, FirstKey)
        /\ \A t \in d.dyn : \E m \in A : Creator(m, t) /\ Fetching(raw, rows, d, t, m)
        /\ \A l \in A : Rooted(l) => \A a \in l.ev.creates :
              \E t \in d.dyn, m \in A : /\ SubAddr[t] = a /\ Creator(m, t) /\ ~Before(l, m)
                                        /\ Fetching(raw, rows, d, t, m)
        /\ \A l \in d.pending : Accounted(c, d.dyn, l)
        /\ \A q \in Range(d.queue) : q.sub \in Static \cup d.dyn
        /\ \A t \in d.dyn : Enrolled(rows, d.queue, t)
        /\ d.pc = "finish" => d.queue = <<>>

\* The command, and its own pass of the chain reader: every cursor is at or below
\* the reader's target, and a listed source is waiting, up to it or not started.
DepIndexed ==
    /\ dep.pc \in {"register", "read", "load"} =>
          dep.from \in FromArgs \/ (~dep.reset /\ snap.found)
    /\ dep.pc \notin {"off", "register"} => Static \subseteq Active(subs)
    /\ dep.pc = "load" => CaughtUp(subs, Static \cup snap.dyn, LatestFeedBlock)
    /\ dep.pc \in {"target", "feed", "finish"} => PassIndexed(chain, subs, dep)
    /\ dep.pc = "target" => TargetIndexed(subs, dep)
    /\ dep.pc \in {"feed", "finish"} => FeedIndexed(chain, rawLogs, subs, dep)

Listed(x, rows) ==
    /\ x.pc # "idle" => \A s \in Subs : rows[s].cursor <= x.to
    /\ x.pc \in {"probe", "scan", "write"} =>
          /\ Static \cup snap.dyn \subseteq Active(x.rows)
          /\ \A s \in Subs : x.rows[s].cursor <= rows[s].cursor
    /\ x.pc \in {"scan", "write"} =>
          \A s \in Active(x.rows) :
              s \in x.todo \/ rows[s].cursor >= x.to \/ SubFrom[s] > x.to

ReadIndexed == dep.pc = "read" => Listed(reader[Deployer], subs)

\* What every step below starts from, and what it shows.
IndexBefore ==
    /\ SoundBefore /\ FactoryDeploy
    /\ SnapIndexed(chain, subs, snap) /\ ReadIndexed /\ DepIndexed

IndexAfter == SnapIndexed(chain', subs', snap') /\ ReadIndexed' /\ DepIndexed'

(***************************************************************************)
(* What survives while the chain grows and subscriptions appear.            *)
(***************************************************************************)
\* Rows that keep their cursors and stay active.
Refreshed(next, rows) ==
    \A s \in Subs : /\ next[s].cursor = rows[s].cursor
                    /\ rows[s].active => next[s].active

\* Refreshed rows lose no active subscription.
LEMMA ActiveKept ==
  ASSUME NEW rows, NEW next, Refreshed(next, rows)
  PROVE  Active(rows) \subseteq Active(next)
  BY DEF Refreshed, Active

\* Sources that have reached a block stay there while the rows are refreshed.
LEMMA CaughtUpKept ==
  ASSUME NEW rows, NEW next, Refreshed(next, rows), NEW sources, sources \subseteq Subs, NEW b,
         CaughtUp(rows, sources, b)
  PROVE  CaughtUp(next, sources, b)
  BY DEF CaughtUp, Refreshed

\* What a pass knows of its snapshot and its executed logs holds of a longer chain.
LEMMA PassIndexKept ==
  ASSUME NEW c, NEW e, Chained(c), Chained(e), Extends(e, c),
         NEW rows, NEW next, Active(rows) \subseteq Active(next),
         NEW d, PassIndexed(c, rows, d), d.prev.found => d.prev.ckpt.to \in Int
  PROVE  PassIndexed(e, next, d)
  <1>1. SnapIndexed(e, next, d.prev)
    BY SnapIndexKept DEF PassIndexed
  <1>2. IndexSound(e, Range(d.applied)) /\ Reached(e, Range(d.applied), d.lo)
    BY IndexKept, ReachedKept DEF PassIndexed
  <1> QED
    BY <1>1, <1>2 DEF PassIndexed

\* A step that only takes statements from the queue: what was fetched still is.
Carries(c, c2, raw, rows, next, d, e) ==
    /\ LogsOf(c) \subseteq LogsOf(c2) /\ Refreshed(next, rows)
    /\ FeedIndexed(c, raw, rows, d) /\ Static \cup d.prev.dyn \subseteq Subs
    /\ e.applied = d.applied /\ e.dyn = d.dyn /\ e.prev = d.prev /\ e.lo = d.lo /\ e.to = d.to
    /\ \A s \in Subs : \A from, after :
          Fetched(raw, rows, d, s, from, after) => Fetched(raw, next, e, s, from, after)
    /\ \A l \in e.pending : l \in d.pending \/ Accounted(c2, d.dyn, l)
    /\ Range(e.queue) \subseteq Range(d.queue)
    /\ \A t \in d.dyn : Enrolled(next, e.queue, t)
    /\ e.pc = "finish" => e.queue = <<>>

\* A running pass that is so carried along keeps what it knows of its sources.
LEMMA FeedCarried ==
  ASSUME NEW c, NEW c2, NEW raw, NEW rows, NEW next, NEW d, NEW e,
         Carries(c, c2, raw, rows, next, d, e)
  PROVE  FeedIndexed(c2, raw, next, e)
  <1> USE DEF Carries
  <1> DEFINE A == Range(d.applied)
  <1>1. CaughtUp(next, Static \cup e.prev.dyn, e.to)
    BY CaughtUpKept DEF FeedIndexed
  <1>2. d.dyn \subseteq Templates /\ d.dyn \subseteq Subs
    BY DEF FeedIndexed, Templates
  <1>3. \A s \in Static : Fetched(raw, next, e, s, e.lo, FirstKey)
    BY DEF FeedIndexed
  <1>4. ASSUME NEW t \in d.dyn, NEW m, Fetching(raw, rows, d, t, m)
        PROVE  Fetching(raw, next, e, t, m)
    BY <1>2, <1>4 DEF Fetching
  <1>5. \A t \in d.dyn : \E m \in A : Creator(m, t) /\ Fetching(raw, next, e, t, m)
    BY <1>4 DEF FeedIndexed
  <1>6. \A l \in A : Rooted(l) => \A a \in l.ev.creates :
           \E t \in d.dyn, m \in A : /\ SubAddr[t] = a /\ Creator(m, t) /\ ~Before(l, m)
                                     /\ Fetching(raw, next, e, t, m)
    <2> SUFFICES ASSUME NEW l \in A, Rooted(l), NEW a \in l.ev.creates
                 PROVE  \E t \in d.dyn, m \in A :
                           /\ SubAddr[t] = a /\ Creator(m, t) /\ ~Before(l, m)
                           /\ Fetching(raw, next, e, t, m)
      OBVIOUS
    <2>1. PICK t \in d.dyn, m \in A : /\ SubAddr[t] = a /\ Creator(m, t) /\ ~Before(l, m)
                                      /\ Fetching(raw, rows, d, t, m)
      BY DEF FeedIndexed
    <2> QED
      BY <1>4, <2>1
  <1>7. \A l \in e.pending : Accounted(c2, e.dyn, l)
    BY DEF FeedIndexed, Accounted
  <1>8. \A q \in Range(e.queue) : q.sub \in Static \cup e.dyn
    BY DEF FeedIndexed
  <1> QED
    BY <1>1, <1>2, <1>3, <1>5, <1>6, <1>7, <1>8 DEF FeedIndexed

\* A step of somebody else that leaves the stored logs and the cursors alone.
LEMMA FeedIndexKept ==
  ASSUME NEW c, NEW c2, LogsOf(c) \subseteq LogsOf(c2),
         NEW raw, NEW rows, NEW next, Refreshed(next, rows), NEW d,
         FeedIndexed(c, raw, rows, d), Static \cup d.prev.dyn \subseteq Subs
  PROVE  FeedIndexed(c2, raw, next, d)
  <1>1. ASSUME NEW s \in Subs, NEW from, NEW after, Fetched(raw, rows, d, s, from, after)
        PROVE  Fetched(raw, next, d, s, from, after)
    BY <1>1 DEF Fetched, Checked, Refreshed
  <1>2. \A t \in d.dyn : Enrolled(next, d.queue, t)
    BY DEF FeedIndexed, Enrolled, Refreshed, Templates
  <1>3. d.pc = "finish" => d.queue = <<>>
    BY DEF FeedIndexed
  <1>4. Carries(c, c2, raw, rows, next, d, d)
    BY <1>1, <1>2, <1>3 DEF Carries
  <1> QED
    BY <1>4, FeedCarried

(***************************************************************************)
(* The feed and the plan.                                                   *)
(***************************************************************************)
\* No log is due below a --from-block.
LEMMA NothingDueBelow ==
  ASSUME FactoryDeploy, NEW c, Chained(c), NEW A, NEW f \in FromArgs
  PROVE  DueBelow(c, A, f)
  <1>1. f \in Nat /\ \A s \in Static : f <= SubFrom[s] /\ SubFrom[s] \in Nat /\ s \in Subs
    <2>1. f \in Nat
      BY DeployConstants DEF FactoryDeploy
    <2>2. Static \subseteq Subs
      BY DeployConstants DEF Static, Range
    <2> QED
      BY <2>1, <2>2, FeedConstants DEF FactoryDeploy
  <1>2. ASSUME NEW l \in LogsOf(c), Rooted(l) PROVE f <= l.blk
    BY <1>1, <1>2, OnChainFacts DEF Rooted
  <1>3. ASSUME NEW l \in LogsOf(c), Due(c, l) PROVE f <= l.blk
    <2>1. ASSUME NEW m \in LogsOf(c), Rooted(m), Before(m, l) PROVE f <= l.blk
      <3>1. f <= m.blk /\ m.blk \in Nat /\ l.blk \in Nat
        BY <1>2, <2>1, OnChainFacts
      <3> QED
        BY <1>1, <2>1, <3>1 DEF Before
    <2> QED
      BY <1>2, <1>3, <2>1 DEF Due
  <1>4. \A l \in LogsOf(c) : l.blk \in Nat
    BY OnChainFacts
  <1> QED
    BY <1>1, <1>3, <1>4 DEF DueBelow

\* Under a factory manifest nothing that is due is missing below a reached block,
\* a --from-block included: no source starts below one.
LEMMA NothingMissing ==
  ASSUME FactoryDeploy, NEW c, Chained(c), NEW A, NEW b, Reached(c, A, b)
  PROVE  DueBelow(c, A, b)
  BY NothingDueBelow DEF Reached

\* The chains, the sources and the numbers of a step.
LEMMA IndexTypes ==
  ASSUME SoundBefore
  PROVE  /\ Chained(chain) /\ Chained(chain')
         /\ LogSet(LogsOf(chain)) /\ Len(chain) \in Nat
         /\ \A l \in LogsOf(chain) : l.blk \in Nat /\ l.blk < Len(chain)
         /\ Static \subseteq Subs
         /\ \A s \in Subs : SubFrom[s] \in Nat /\ subs[s] \in Rows /\ subs[s].cursor \in Int
         /\ snap.found => snap.ckpt.to \in Int
         /\ dep.pc \in {"target", "feed", "finish"} /\ dep.prev.found => dep.prev.ckpt.to \in Int
  <1>1. Chained(chain) /\ Chained(chain')
    BY ChainConstants DEF SoundBefore, TypeOK, Chained
  <1>2. Static \subseteq Subs
    BY DeployConstants DEF Static, Range
  <1>3. \A s \in Subs : SubFrom[s] \in Nat /\ subs[s] \in Rows
    BY FeedConstants DEF SoundBefore, TypeOK
  <1>4. \A s \in Subs : subs[s].cursor \in Int
    <2>1. \A row \in Rows : row.cursor \in Cursors
      BY DEF Rows
    <2>2. \A b \in Cursors : b \in Int
      BY ChainConstants DEF Cursors, Blocks
    <2> QED
      BY <1>3, <2>1, <2>2
  <1>5. snap.found => snap.ckpt.to \in Int
    BY DEF SoundBefore, StoreSound, TargetSound, Blocks
  <1>6. dep.pc \in {"target", "feed", "finish"} /\ dep.prev.found => dep.prev.ckpt.to \in Int
    BY DEF SoundBefore, DepSound, PassSound, StoreSound, TargetSound, Blocks
  <1> QED
    BY <1>1, <1>2, <1>3, <1>4, <1>5, <1>6, OnChainFacts

\* A stored log is a log of the chain.
LEMMA StoredOnChain ==
  ASSUME SoundBefore, NEW l \in rawLogs
  PROVE  l \in LogsOf(chain)
  <1>1. l.blk \in Nat /\ Emitted(l)
    BY DEF SoundBefore, GrowthInv, TypeOK, Logs
  <1> QED
    BY <1>1, IndexTypes, OnChainFacts DEF Emitted

\* The feed holds every log of an active source from its start to its cursor.
LEMMA SourceStored ==
  ASSUME SoundBefore, FactoryDeploy, NEW s \in Subs, subs[s].active,
         NEW l \in LogsOf(chain), l.ev.addr = SubAddr[s],
         SubFrom[s] <= l.blk, l.blk <= subs[s].cursor
  PROVE  l \in rawLogs /\ Matches(s, TopicsOf(s), l)
  <1>1. /\ RowSound(s, subs[s]) /\ l.blk \in Nat /\ SubFrom[s] \in Nat /\ subs[s].cursor \in Int
        /\ l.ev \in chain[l.blk + 1].body /\ chain[l.blk + 1].body \in Contents
        /\ l = LogAt(chain, l.blk, l.ev)
    BY IndexTypes, OnChainFacts DEF SoundBefore, GrowthInv
  <1>2. subs[s].topics = TopicsOf(s)
    <2>1. /\ [sub |-> s, topics |-> subs[s].topics] \in Registrations
          /\ [sub |-> s, topics |-> TopicsOf(s)] \in Registrations
      BY <1>1, PlanIsRegistered DEF RowSound, SoundBefore
    <2> QED
      BY <2>1 DEF GrowthOnly, SoundBefore
  <1>3. l.ev.topic \in TopicsOf(s)
    BY <1>1 DEF FactoryDeploy
  <1>4. l.blk \in SubFrom[s] .. subs[s].cursor
    BY <1>1
  <1>5. LogAt(chain, l.blk, l.ev) \in rawLogs
    BY <1>1, <1>2, <1>3, <1>4 DEF RowSound, Covers
  <1> QED
    BY <1>1, <1>3, <1>5 DEF Matches

(***************************************************************************)
(* What the queues ask for.                                                 *)
(***************************************************************************)
LEMMA RangeJoined ==
  ASSUME NEW q, NEW r, IsList(q), IsList(r)
  PROVE  Range(q \o r) = Range(q) \cup Range(r)
  <1>1. /\ Len(q) \in Nat /\ DOMAIN q = 1 .. Len(q) /\ Len(r) \in Nat /\ DOMAIN r = 1 .. Len(r)
    BY ListFacts
  <1>2. q \in Seq(Range(q) \cup Range(r)) /\ r \in Seq(Range(q) \cup Range(r))
    BY <1>1, ListFacts DEF IsList
  <1>3. /\ DOMAIN (q \o r) = 1 .. Len(q) + Len(r)
        /\ \A i \in 1 .. Len(q) : (q \o r)[i] = q[i]
        /\ \A i \in 1 .. Len(r) : (q \o r)[Len(q) + i] = r[i]
    BY <1>1, <1>2
  <1>4. ASSUME NEW i \in DOMAIN (q \o r) PROVE (q \o r)[i] \in Range(q) \cup Range(r)
    <2>1. CASE i <= Len(q)
      BY <1>1, <1>3, <2>1 DEF Range
    <2>2. CASE i > Len(q)
      <3>1. i - Len(q) \in 1 .. Len(r) /\ i = Len(q) + (i - Len(q))
        BY <1>1, <1>3, <2>2
      <3> QED
        BY <1>1, <1>3, <3>1 DEF Range
    <2> QED
      BY <1>1, <1>3, <2>1, <2>2
  <1>5. ASSUME NEW i \in DOMAIN q PROVE q[i] \in Range(q \o r)
    BY <1>1, <1>3 DEF Range
  <1>6. ASSUME NEW i \in DOMAIN r PROVE r[i] \in Range(q \o r)
    <2>1. Len(q) + i \in DOMAIN (q \o r) /\ (q \o r)[Len(q) + i] = r[i]
      BY <1>1, <1>3
    <2> QED
      BY <2>1 DEF Range
  <1> QED
    BY <1>4, <1>5, <1>6 DEF Range

\* Taking the head of a queue removes at most that element.
LEMMA RangeTaken ==
  ASSUME NEW q, IsList(q), q # <<>>
  PROVE  Range(q) = {Head(q)} \cup Range(Tail(q)) /\ IsList(Tail(q))
  <1>1. /\ Len(q) \in Nat \ {0} /\ DOMAIN q = 1 .. Len(q) /\ q \in Seq(Range(q))
        /\ q = [i \in 1 .. Len(q) |-> q[i]]
    BY ListFacts DEF IsList
  <1>2. /\ Head(q) = q[1] /\ DOMAIN Tail(q) = 1 .. Len(q) - 1
        /\ \A i \in 1 .. Len(q) - 1 : Tail(q)[i] = q[i + 1]
        /\ Tail(q) \in Seq(Range(q)) /\ Len(Tail(q)) = Len(q) - 1
    BY <1>1
  <1>3. ASSUME NEW i \in DOMAIN q PROVE q[i] \in {Head(q)} \cup Range(Tail(q))
    <2>1. CASE i = 1
      BY <1>2, <2>1
    <2>2. CASE i # 1
      <3>1. i - 1 \in 1 .. Len(q) - 1 /\ (i - 1) + 1 = i
        BY <1>1, <2>2
      <3> QED
        BY <1>2, <3>1 DEF Range
    <2> QED
      BY <2>1, <2>2
  <1>4. ASSUME NEW i \in DOMAIN Tail(q) PROVE Tail(q)[i] \in Range(q)
    <2>1. i + 1 \in DOMAIN q
      BY <1>1, <1>2
    <2> QED
      BY <1>2, <2>1 DEF Range
  <1>5. Head(q) \in Range(q)
    BY <1>1, <1>2 DEF Range
  <1>6. IsList(Tail(q))
    <2>1. Tail(q) \in Seq(Range(Tail(q)))
      BY <1>2, RangedSeq
    <2> QED
      BY <2>1 DEF IsList
  <1> QED
    BY <1>3, <1>4, <1>5, <1>6 DEF Range

\* A static source is checked and loaded, ...
LEMMA StaticAsked ==
  ASSUME NEW from \in Int
  PROVE  /\ IsList(StaticQueue(from))
         /\ \A s \in Static : /\ Ask("check", s, from, FirstKey) \in Range(StaticQueue(from))
                              /\ Ask("load", s, from, FirstKey) \in Range(StaticQueue(from))
         /\ \A q \in Range(StaticQueue(from)) : q.sub \in Static /\ q.op # "register"
  <1> DEFINE n == 2 * Len(Manifest)
             q == StaticQueue(from)
  <1>1. Len(Manifest) \in Nat /\ DOMAIN Manifest = 1 .. Len(Manifest) /\ n \in Nat
    BY DeployConstants
  <1>2. /\ DOMAIN q = 1 .. n /\ q = [i \in 1 .. n |-> q[i]]
        /\ \A i \in 1 .. n :
              q[i] = Ask(IF i % 2 = 1 THEN "check" ELSE "load", Manifest[(i + 1) \div 2],
                         from, FirstKey)
    BY DEF StaticQueue
  <1> HIDE DEF q
  <1>3. IsList(q)
    BY <1>1, <1>2, FunctionIsList
  <1>4. ASSUME NEW s \in Static
        PROVE  Ask("check", s, from, FirstKey) \in Range(q) /\ Ask("load", s, from, FirstKey) \in Range(q)
    <2>1. PICK j \in 1 .. Len(Manifest) : Manifest[j] = s
      BY <1>1 DEF Static, Range
    <2>2. /\ 2 * j - 1 \in 1 .. n /\ (2 * j - 1) % 2 = 1 /\ ((2 * j - 1) + 1) \div 2 = j
          /\ 2 * j \in 1 .. n /\ (2 * j) % 2 # 1 /\ (2 * j + 1) \div 2 = j
      BY <1>1
    <2>3. q[2 * j - 1] = Ask("check", s, from, FirstKey)
      BY <1>2, <2>1, <2>2
    <2>4. q[2 * j] = Ask("load", s, from, FirstKey)
      BY <1>2, <2>1, <2>2
    <2> QED
      BY <1>2, <2>2, <2>3, <2>4 DEF Range
  <1>5. ASSUME NEW i \in 1 .. n PROVE q[i].sub \in Static /\ q[i].op # "register"
    <2>1. (i + 1) \div 2 \in 1 .. Len(Manifest)
      BY <1>1
    <2>2. Manifest[(i + 1) \div 2] \in Static
      BY <1>1, <2>1 DEF Static, Range
    <2> QED
      BY <1>2, <2>2 DEF Ask
  <1>6. \A a \in Range(q) : a.sub \in Static /\ a.op # "register"
    BY <1>2, <1>5 DEF Range
  <1> QED
    BY <1>3, <1>4, <1>6 DEF q

\* The place of a source in a set of them: each has one, and each place is taken.
PlaceIn(S, s) == Cardinality({t \in S : SubRank[t] <= SubRank[s]})

\* Sorted by rank, every source of a set has a place of its own and no place is
\* empty: dynamic_sources_after_snapshot is asked for each of them once.
LEMMA SourcePlaces ==
  ASSUME NEW S \in SUBSET Subs
  PROVE  /\ Cardinality(S) \in Nat
         /\ \A s \in S : PlaceIn(S, s) \in 1 .. Cardinality(S)
         /\ \A s, t \in S : PlaceIn(S, s) = PlaceIn(S, t) => s = t
         /\ \A k \in 1 .. Cardinality(S) : \E s \in S : PlaceIn(S, s) = k
  <1> DEFINE upTo(s) == {t \in S : SubRank[t] <= SubRank[s]}
             ranks == {SubRank[s] : s \in S}
             key == [i \in ranks |-> i]
  <1>1. IsFiniteSet(S) /\ Cardinality(S) \in Nat
    BY FS_Subset, FS_CardinalityType, DeployConstants
  <1>2. \A s \in S : SubRank[s] \in Nat
    BY FeedConstants
  <1>3. \A s, t \in S : SubRank[s] = SubRank[t] => s = t
    BY FeedConstants
  <1>4. ASSUME NEW s \in S
        PROVE  IsFiniteSet(upTo(s)) /\ Cardinality(upTo(s)) \in 1 .. Cardinality(S)
    <2>1. upTo(s) \subseteq S /\ s \in upTo(s)
      BY <1>2
    <2>2. IsFiniteSet(upTo(s)) /\ Cardinality(upTo(s)) \in Nat /\ Cardinality(upTo(s)) <= Cardinality(S)
      BY <1>1, <2>1, FS_Subset, FS_CardinalityType
    <2>3. Cardinality(upTo(s)) # 0
      BY <2>1, <2>2, FS_EmptySet
    <2> QED
      BY <1>1, <2>2, <2>3
  <1>5. ASSUME NEW s \in S, NEW t \in S, SubRank[s] < SubRank[t]
        PROVE  Cardinality(upTo(s)) < Cardinality(upTo(t))
    <2>1. upTo(s) \subseteq upTo(t) /\ upTo(s) # upTo(t)
      <3>1. t \in upTo(t) /\ t \notin upTo(s)
        BY <1>2, <1>5
      <3>2. upTo(s) \subseteq upTo(t)
        BY <1>2, <1>5
      <3> QED
        BY <3>1, <3>2
    <2> HIDE DEF upTo
    <2> QED
      BY <1>4, <2>1, FS_Subset
  <1>6. ASSUME NEW s \in S, NEW t \in S, Cardinality(upTo(s)) = Cardinality(upTo(t)) PROVE s = t
    <2> HIDE DEF upTo
    <2>1. Cardinality(upTo(s)) \in Nat /\ Cardinality(upTo(t)) \in Nat
      BY <1>4
    <2> QED
      BY <1>2, <1>3, <1>5, <1>6, <2>1
  <1>7. ASSUME NEW k \in 1 .. Cardinality(S) PROVE \E s \in S : Cardinality(upTo(s)) = k
    <2> DEFINE f == [s \in S |-> Cardinality(upTo(s))]
    <2> HIDE DEF upTo
    <2>1. f \in Injection(S, 1 .. Cardinality(S))
      <3>1. f \in [S -> 1 .. Cardinality(S)] /\ \A s, t \in S : f[s] = f[t] => s = t
        BY <1>4, <1>6
      <3> HIDE DEF f
      <3> QED
        BY <3>1 DEF Injection, IsInjective
    <2>2. IsFiniteSet(1 .. Cardinality(S)) /\ Cardinality(1 .. Cardinality(S)) = Cardinality(S)
      BY <1>1, FS_Interval
    <2>3. f \in Surjection(S, 1 .. Cardinality(S))
      <3> HIDE DEF f
      <3> QED
        BY <2>1, <2>2, FS_Injection
    <2>4. PICK s \in S : f[s] = k
      BY <2>3 DEF Surjection
    <2> QED
      BY <2>4
  <1>8. \A s : PlaceIn(S, s) = Cardinality(upTo(s))
    BY DEF PlaceIn
  <1> HIDE DEF upTo
  <1> QED
    BY <1>1, <1>4, <1>6, <1>7, <1>8

\* ... a template's source is registered, loaded and checked.
LEMMA DynamicAsked ==
  ASSUME NEW S \in SUBSET Subs, NEW from, NEW after
  PROVE  LET q == DynamicQueue(S, from, after)
         IN  /\ IsList(q)
             /\ \A s \in S, op \in {"register", "load", "check"} :
                   Ask(op, s, from, after) \in Range(q)
             /\ \A a \in Range(q) : a.sub \in S
  <1> DEFINE nth(k)  == CHOOSE s \in S : PlaceIn(S, s) = k
             ops     == <<"register", "load", "check">>
             n       == 3 * Cardinality(S)
             q       == DynamicQueue(S, from, after)
  <1>1. /\ Cardinality(S) \in Nat /\ n \in Nat
        /\ \A s \in S : PlaceIn(S, s) \in 1 .. Cardinality(S)
        /\ \A s, t \in S : PlaceIn(S, s) = PlaceIn(S, t) => s = t
        /\ \A k \in 1 .. Cardinality(S) : \E s \in S : PlaceIn(S, s) = k
    BY SourcePlaces
  <1>2. /\ DOMAIN q = 1 .. n /\ q = [i \in 1 .. n |-> q[i]]
        /\ \A i \in 1 .. n :
              q[i] = Ask(ops[((i - 1) % 3) + 1], nth(((i - 1) \div 3) + 1), from, after)
    BY DEF DynamicQueue, PlaceIn
  <1> HIDE DEF q
  <1>3. IsList(q)
    BY <1>1, <1>2, FunctionIsList
  <1>4. \A s \in S : nth(PlaceIn(S, s)) = s
    BY <1>1
  <1>5. \A k \in 1 .. Cardinality(S) : nth(k) \in S
    BY <1>1
  <1> HIDE DEF nth
  <1>6. ASSUME NEW s \in S, NEW j \in 1 .. 3 PROVE Ask(ops[j], s, from, after) \in Range(q)
    <2>1. PICK k : k = PlaceIn(S, s)
      OBVIOUS
    <2> DEFINE i == 3 * (k - 1) + j
    <2>2. k \in 1 .. Cardinality(S) /\ nth(k) = s
      BY <1>1, <1>4, <2>1
    <2>3. /\ i \in 1 .. n /\ ((i - 1) % 3) + 1 = j /\ ((i - 1) \div 3) + 1 = k
      BY <1>1, <2>2
    <2>4. q[i] = Ask(ops[j], s, from, after)
      BY <1>2, <2>2, <2>3
    <2> QED
      BY <1>2, <2>3, <2>4 DEF Range
  <1>7. ASSUME NEW s \in S, NEW op \in {"register", "load", "check"}
        PROVE  Ask(op, s, from, after) \in Range(q)
    <2>1. ops[1] = "register" /\ ops[2] = "load" /\ ops[3] = "check"
      OBVIOUS
    <2> QED
      BY <1>6, <2>1
  <1>8. ASSUME NEW i \in 1 .. n PROVE q[i].sub \in S
    <2>1. ((i - 1) \div 3) + 1 \in 1 .. Cardinality(S)
      BY <1>1
    <2>2. nth(((i - 1) \div 3) + 1) \in S
      BY <1>5, <2>1
    <2> QED
      BY <1>2, <2>2 DEF Ask
  <1>9. \A a \in Range(q) : a.sub \in S
    BY <1>2, <1>8 DEF Range
  <1> QED
    BY <1>3, <1>7, <1>9 DEF q

(***************************************************************************)
(* The steps.                                                               *)
(***************************************************************************)
\* Between two passes, and while the command registers and reads, only the stored
\* snapshot is claimed.
LEMMA RestIndexed ==
  ASSUME IndexBefore, SnapIndexed(chain', subs', snap'), dep'.pc \in {"off", "register"},
         dep'.pc = "register" => dep'.from \in FromArgs \/ (~dep'.reset /\ snap'.found)
  PROVE  IndexAfter
  BY DEF IndexAfter, ReadIndexed, DepIndexed

\* A step that does not write leaves the stored snapshot indexed.
LEMMA SnapIndexStays ==
  ASSUME IndexBefore, snap' = snap, Extends(chain', chain), Active(subs) \subseteq Active(subs')
  PROVE  SnapIndexed(chain', subs', snap')
  <1>1. /\ Chained(chain) /\ Chained(chain') /\ SnapIndexed(chain, subs, snap)
        /\ snap.found => snap.ckpt.to \in Int
    BY IndexTypes DEF IndexBefore
  <1>2. SnapIndexed(chain', subs', snap)
    BY <1>1, SnapIndexKept
  <1> QED
    BY <1>2

\* A step of somebody else that leaves the stored logs and the cursors alone.
LEMMA QuietIndexed ==
  ASSUME IndexBefore, UNCHANGED <<dep, snap, rawLogs>>, reader'[Deployer] = reader[Deployer],
         Extends(chain', chain), Refreshed(subs', subs)
  PROVE  IndexAfter
  <1>1. /\ Chained(chain) /\ Chained(chain') /\ Static \subseteq Subs
        /\ Active(subs) \subseteq Active(subs') /\ LogsOf(chain) \subseteq LogsOf(chain')
    BY IndexTypes, ActiveKept, LogsKept DEF IndexBefore
  <1>2. SnapIndexed(chain', subs', snap')
    BY <1>1, SnapIndexStays
  <1>3. HighestCursor(subs') = HighestCursor(subs)
    BY SameCursors DEF Refreshed
  <1>4. ReadIndexed'
    <2>1. ASSUME NEW x, Listed(x, subs) PROVE Listed(x, subs')
      <3>1. \A s \in Active(x.rows) : s \in Subs
        BY DEF Active
      <3> QED
        BY <2>1, <3>1 DEF Listed, Refreshed
    <2>2. dep'.pc = "read" => Listed(reader'[Deployer], subs')
      <3> HIDE DEF Listed
      <3> QED
        BY <2>1 DEF IndexBefore, ReadIndexed
    <2>3. \A x : Listed(x, subs)' <=> Listed(x, subs')
      BY DEF Listed
    <2> QED
      BY <2>2, <2>3 DEF ReadIndexed, Listed
  <1>5. dep.pc \in {"target", "feed", "finish"} => PassIndexed(chain', subs', dep)
    BY <1>1, PassIndexKept, IndexTypes DEF IndexBefore, DepIndexed
  <1>6. dep.pc = "target" => TargetIndexed(subs', dep)
    <2>1. dep.pc = "target" => dep.prev.dyn \subseteq Active(subs)
      BY DEF IndexBefore, DepIndexed, PassIndexed, SnapIndexed
    <2>2. Active(subs) \subseteq Subs
      BY DEF Active
    <2> QED
      BY <1>1, <1>3, <2>1, <2>2, CaughtUpKept DEF IndexBefore, DepIndexed, TargetIndexed
  <1>7. dep.pc \in {"feed", "finish"} => FeedIndexed(chain', rawLogs, subs', dep)
    <2>1. dep.pc \in {"feed", "finish"} => dep.prev.dyn \subseteq Subs
      BY DEF IndexBefore, DepIndexed, PassIndexed, SnapIndexed, Active
    <2> QED
      BY <1>1, <2>1, FeedIndexKept DEF IndexBefore, DepIndexed
  <1>8. dep.pc = "load" => CaughtUp(subs', Static \cup snap.dyn, HighestCursor(subs'))
    <2>1. snap.dyn \subseteq Subs
      BY DEF IndexBefore, SnapIndexed, Active
    <2> QED
      BY <1>1, <1>3, <2>1, CaughtUpKept DEF IndexBefore, DepIndexed, LatestFeedBlock
  <1>9. DepIndexed'
    <2> HIDE DEF PassIndexed, TargetIndexed, FeedIndexed, CaughtUp
    <2> QED
      BY <1>1, <1>5, <1>6, <1>7, <1>8 DEF IndexBefore, DepIndexed, LatestFeedBlock
  <1> QED
    BY <1>2, <1>4, <1>9 DEF IndexAfter

\* A chain that stays is a chain that grows by nothing.
LEMMA SameChain ==
  ASSUME chain' = chain
  PROVE  Extends(chain', chain)
  BY DEF Extends

\* A deploy command begins, with a --from-block of its own.
LEMMA StartDeployIndexed ==
  ASSUME IndexBefore, StartDeploy
  PROVE  IndexAfter
  <1>1. PICK f \in FromArgs, r \in ResetArgs :
          dep' = [Off EXCEPT !.pc = "register", !.cli = f, !.from = f, !.reset = r, !.pass = 1]
    BY DEF StartDeploy, SetDep
  <1>2. dep'.pc = "register" /\ dep'.from \in FromArgs
    BY <1>1 DEF Off
  <1>3. snap' = snap /\ chain' = chain /\ subs' = subs
    BY DEF StartDeploy, vars
  <1>4. SnapIndexed(chain', subs', snap')
    BY <1>3 DEF IndexBefore
  <1> QED
    BY <1>2, <1>4, RestIndexed

\* An upsert of subscriptions keeps every cursor.
LEMMA SubscribedRefreshes ==
  ASSUME IndexBefore, NEW sources, subs' = Subscribed(sources)
  PROVE  /\ Refreshed(subs', subs) /\ Active(subs) \subseteq Active(subs')
         /\ \A s \in Subs \cap sources : subs'[s].active
         /\ HighestCursor(subs') = HighestCursor(subs)
  <1>1. /\ \A s \in Subs \cap sources : subs'[s].active = TRUE
        /\ \A s \in Subs : /\ subs'[s].cursor = subs[s].cursor
                           /\ subs[s].active => subs'[s].active
    BY SubscribedRows DEF IndexBefore, SoundBefore
  <1> QED
    BY <1>1, ActiveKept, SameCursors DEF Refreshed

\* It registers its manifest.
LEMMA RegisterStaticIndexed ==
  ASSUME IndexBefore, RegisterStatic
  PROVE  IndexAfter
  <1>1. /\ dep' = [dep EXCEPT !.pc = "read"] /\ snap' = snap /\ reader' = reader
        /\ chain' = chain /\ subs' = Subscribed(Static) /\ dep.pc = "register"
    BY DEF RegisterStatic, SetDep, chainVars
  <1>2. DOMAIN dep = DOMAIN Off /\ reader[Deployer].pc = "idle"
    BY <1>1 DEF IndexBefore, SoundBefore, DepSound
  <1>3. dep'.pc = "read" /\ dep'.from = dep.from /\ dep'.reset = dep.reset
    BY <1>1, <1>2 DEF Off
  <1>4. Active(subs) \subseteq Active(subs') /\ Static \subseteq Active(subs')
    BY <1>1, SubscribedRefreshes, IndexTypes DEF Active, IndexBefore
  <1>5. SnapIndexed(chain', subs', snap')
    BY <1>1, <1>4, SameChain, SnapIndexStays
  <1>6. DepIndexed'
    BY <1>1, <1>3, <1>4 DEF DepIndexed, IndexBefore
  <1>7. ReadIndexed'
    BY <1>1, <1>2 DEF ReadIndexed, Listed
  <1> QED
    BY <1>5, <1>6, <1>7 DEF IndexAfter

\* A failed scan leaves nothing to be claimed of the reader.
LEMMA RetryReadIndexed ==
  ASSUME IndexBefore, RetryRead
  PROVE  IndexAfter
  <1>1. /\ dep' = dep /\ snap' = snap /\ dep.pc = "read"
        /\ chain' = chain /\ subs' = subs
    BY DEF RetryRead, ReaderFail, chainVars, tables
  <1>2. reader'[Deployer].pc = "idle"
    BY DeployConstants, IdleType
       DEF RetryRead, ReaderFail, SetReader, IndexBefore, SoundBefore, TypeOK
  <1>3. SnapIndexed(chain', subs', snap')
    BY <1>1 DEF IndexBefore
  <1>4. DepIndexed'
    BY <1>1 DEF DepIndexed, IndexBefore
  <1>5. ReadIndexed'
    BY <1>2 DEF ReadIndexed, Listed
  <1> QED
    BY <1>3, <1>4, <1>5 DEF IndexAfter

\* The pass of the command's own reader, with no other writer at work: it sets
\* cursors to its target, which is at or above all of them.
LEMMA ReadLists ==
  ASSUME IndexBefore, ReaderStep(Deployer), dep.pc = "read", NEW x, NEW y,
         x = reader[Deployer], y = reader'[Deployer]
  PROVE  /\ Listed(y, subs')
         /\ \A s \in Subs : subs[s].cursor <= subs'[s].cursor /\ subs'[s].cursor \in Int
         /\ x.pc # "idle" /\ y.pc = "idle" =>
               CaughtUp(subs', Static \cup snap.dyn, HighestCursor(subs'))
  <1>1. /\ Listed(x, subs) /\ Static \subseteq Active(subs) /\ snap.dyn \subseteq Active(subs)
    BY DEF IndexBefore, ReadIndexed, DepIndexed, SnapIndexed
  <1>2. /\ GrowthOnly /\ GrowthInv /\ Deployer \in Readers /\ SoundBefore
        /\ subs \in [Subs -> Rows] /\ subs' \in [Subs -> Rows]
    BY DeployConstants, CursorsTyped DEF IndexBefore, SoundBefore
  <1>3. /\ x.to \in Int /\ x.from \in Nat \cup {NoBlock}
        /\ \A s \in Subs : /\ x.rows[s] \in Rows /\ x.rows[s].cursor \in Int
                           /\ SubFrom[s] \in Int /\ x.from <= SubFrom[s]
        /\ x.todo \subseteq Active(x.rows) /\ Active(x.rows) \subseteq Subs
    BY <1>2, RowsListed
  <1>4. \A s \in Subs : subs[s].cursor \in Int /\ subs[s].cursor < Len(chain) /\ Len(chain) \in Nat
    BY <1>2, IndexTypes DEF GrowthInv, RowSound
  <1>5. ReaderWrite(Deployer) \/ subs' = subs
    BY <1>2, ReaderMoves
  <1>6. ReaderWrite(Deployer) => x.pc = "write" /\ y.pc = "scan"
    <2>1. ASSUME ReaderWrite(Deployer) PROVE y.pc = "scan"
      <3>1. reader' = [reader EXCEPT ![Deployer] = [x EXCEPT !.pc = "scan", !.logs = {},
                                                            !.todo = @ \ {x.sub}]]
        BY <2>1 DEF ReaderWrite, SetReader
      <3>2. reader \in [Readers -> ReaderStates] /\ x \in ReaderStates
        BY <1>2 DEF SoundBefore, TypeOK
      <3> QED
        BY <1>2, <3>1, <3>2 DEF ReaderStates
    <2> QED
      BY <2>1 DEF ReaderWrite
  <1>7. CASE PassWrites(x, y) /\ ReaderWrite(Deployer)
    <2>1. /\ x.sub \in Subs /\ subs'[x.sub].cursor = x.to
          /\ \A s \in Subs : s # x.sub => subs'[s] = subs[s]
      BY <1>2, <1>7, WrittenRow
    <2>2. \A s \in Subs : subs[s].cursor <= subs'[s].cursor /\ subs'[s].cursor \in Int
                          /\ subs'[s].cursor <= x.to
      BY <1>1, <1>3, <1>4, <1>7, <2>1 DEF Listed, PassWrites
    <2>3. Listed(y, subs')
      <3>1. \A s \in Subs : y.rows[s].cursor <= subs'[s].cursor
        BY <1>1, <1>3, <1>4, <1>7, <2>2 DEF Listed, PassWrites, Kept
      <3>2. ASSUME NEW s \in Active(y.rows)
            PROVE  s \in y.todo \/ subs'[s].cursor >= y.to \/ SubFrom[s] > y.to
        <4>1. s \in Subs /\ (s \in x.todo \/ subs[s].cursor >= x.to \/ SubFrom[s] > x.to)
          BY <1>1, <1>3, <1>7 DEF Listed, PassWrites, Kept
        <4> QED
          BY <1>3, <1>4, <1>7, <2>1, <2>2, <4>1 DEF PassWrites, Kept
      <3> QED
        BY <1>1, <1>7, <2>2, <3>1, <3>2 DEF Listed, PassWrites, Kept
    <2> QED
      BY <1>7, <2>2, <2>3 DEF PassWrites
  <1>8. CASE subs' = subs
    <2>1. CASE PassStarts(x, y)
      BY <1>4, <1>8, <2>1 DEF PassStarts, Listed, HeadBlock
    <2>2. CASE PassHashes(x, y)
      BY <1>1, <1>4, <1>8, <2>2 DEF PassHashes, Listed, Kept
    <2>3. CASE PassLists(x, y)
      BY <1>1, <1>4, <1>8, <2>3 DEF PassLists, Listed
    <2>4. CASE PassProbes(x, y) \/ PassClean(x, y) \/ PassScans(x, y)
      BY <1>1, <1>4, <1>8, <2>4 DEF PassProbes, PassClean, PassScans, Listed, Kept
    <2>5. CASE PassSkips(x, y)
      <3>1. PICK t \in x.todo : ScanFrom(t, x.rows[t], x.from) > x.to /\ y.todo = x.todo \ {t}
        BY <2>5 DEF PassSkips
      <3>2. t \in Subs /\ t \in Active(x.rows)
        BY <1>3, <3>1
      <3>3. \/ ScanFrom(t, x.rows[t], x.from) = SubFrom[t]
            \/ ScanFrom(t, x.rows[t], x.from) = x.rows[t].cursor + 1
        BY <1>3, <3>2, ScanFromIs
      <3>4. x.rows[t].cursor <= subs[t].cursor
        BY <1>1, <2>5, <3>2 DEF Listed, PassSkips
      <3>5. subs[t].cursor >= x.to \/ SubFrom[t] > x.to
        BY <1>3, <1>4, <3>1, <3>2, <3>3, <3>4
      <3> QED
        BY <1>1, <1>4, <1>8, <2>5, <3>1, <3>5 DEF PassSkips, Listed, Kept
    <2>6. CASE PassDone(x, y)
      <3> DEFINE h == HighestCursor(subs)
      <3>1. h \in Cursors /\ h # NoBlock => \E s \in Subs : subs[s].cursor = h
        BY <1>2, HighestIs
      <3>2. h \in Int /\ (h # NoBlock => h <= x.to)
        <4>1. h \in Int
          BY <1>2, CursorsTyped DEF LatestFeedBlock
        <4>2. h \in Cursors
          BY <1>2, HighestIs
        <4> HIDE DEF h
        <4> QED
          BY <1>1, <2>6, <3>1, <4>1, <4>2 DEF Listed, PassDone
      <3> HIDE DEF h
      <3>3. ASSUME NEW s \in Static \cup snap.dyn
            PROVE  subs[s].active /\ (SubFrom[s] <= h => subs[s].cursor >= h)
        <4>1. s \in Active(subs) /\ s \in Subs /\ s \in Active(x.rows)
          BY <1>1, <1>3, <2>6 DEF Listed, PassDone
        <4>2. subs[s].cursor >= x.to \/ SubFrom[s] > x.to
          BY <1>1, <2>6, <4>1 DEF Listed, PassDone
        <4>3. subs[s].cursor \in Int /\ SubFrom[s] \in Nat
          BY <4>1, <1>2, IndexTypes
        <4> QED
          BY <1>3, <3>2, <4>1, <4>2, <4>3 DEF Active, NoBlock
      <3>4. CaughtUp(subs', Static \cup snap.dyn, HighestCursor(subs'))
        BY <1>8, <3>3 DEF CaughtUp, h
      <3> QED
        BY <1>4, <1>8, <2>6, <3>4 DEF PassDone, Listed
    <2>7. CASE PassWrites(x, y)
      <3>1. Listed(y, subs')
        <4>1. subs[x.sub].cursor = x.to /\ x.sub \in Subs
          BY <1>8, <2>7 DEF PassWrites
        <4> QED
          BY <1>1, <1>3, <1>8, <2>7, <4>1 DEF PassWrites, Listed, Kept
      <3> QED
        BY <1>4, <1>8, <2>7, <3>1 DEF PassWrites
    <2> QED
      BY <1>2, <2>1, <2>2, <2>3, <2>4, <2>5, <2>6, <2>7, ReadSteps
  <1>9. ReaderWrite(Deployer) => PassWrites(x, y)
    <2>1. \/ PassStarts(x, y) \/ PassHashes(x, y) \/ PassLists(x, y) \/ PassProbes(x, y)
          \/ PassClean(x, y) \/ PassSkips(x, y) \/ PassScans(x, y) \/ PassWrites(x, y)
          \/ PassDone(x, y)
      BY <1>2, ReadSteps
    <2> QED
      BY <1>6, <2>1 DEF PassStarts, PassHashes, PassLists, PassProbes, PassClean, PassSkips,
                        PassScans, PassDone
  <1> QED
    BY <1>5, <1>7, <1>8, <1>9

\* A step of the deploy command's own scan of the chain (read_chain_logs): when it
\* ends, every subscription it listed has reached the feed's highest cursor.
LEMMA ReadFeedIndexed ==
  ASSUME IndexBefore, ReadFeed
  PROVE  IndexAfter
  <1> DEFINE x == reader[Deployer]
             y == reader'[Deployer]
  <1>1. /\ dep.pc = "read" /\ snap' = snap /\ ReaderStep(Deployer)
        /\ DOMAIN dep = DOMAIN Off
        /\ dep' = IF x.pc # "idle" /\ y.pc = "idle" THEN [dep EXCEPT !.pc = "load"] ELSE dep
    BY DEF ReadFeed, SetDep, IndexBefore, SoundBefore, DepSound
  <1>2. /\ dep'.pc = IF x.pc # "idle" /\ y.pc = "idle" THEN "load" ELSE "read"
        /\ dep'.from = dep.from /\ dep'.reset = dep.reset
    BY <1>1 DEF Off
  <1>3. /\ Listed(y, subs')
        /\ x.pc # "idle" /\ y.pc = "idle" =>
              CaughtUp(subs', Static \cup snap.dyn, HighestCursor(subs'))
    BY <1>1, ReadLists
  <1>4. /\ chain' = chain /\ Active(subs) \subseteq Active(subs')
        /\ Static \subseteq Active(subs)
    <2>1. GrowthInv /\ Deployer \in Readers /\ Moves
      BY DeployConstants DEF IndexBefore, SoundBefore
    <2> QED
      BY <1>1, <2>1, ReaderMoves DEF Moves, Active, IndexBefore, DepIndexed
  <1> HIDE DEF x, y
  <1>5. SnapIndexed(chain', subs', snap')
    BY <1>1, <1>4, SameChain, SnapIndexStays
  <1>6. DepIndexed'
    <2> HIDE DEF CaughtUp
    <2>1. dep.from \in FromArgs \/ (~dep.reset /\ snap.found)
      BY <1>1 DEF IndexBefore, DepIndexed
    <2> QED
      BY <1>1, <1>2, <1>3, <1>4, <2>1 DEF DepIndexed, LatestFeedBlock
  <1>7. ReadIndexed'
    BY <1>1, <1>2, <1>3 DEF ReadIndexed, Listed, y
  <1> QED
    BY <1>5, <1>6, <1>7 DEF IndexAfter

\* The highest cursor does not fall when no cursor does.
LEMMA HighestGrows ==
  ASSUME NEW rows \in [Subs -> Rows], NEW next \in [Subs -> Rows],
         \A s \in Subs : rows[s].cursor <= next[s].cursor
  PROVE  HighestCursor(rows) <= HighestCursor(next)
  <1> DEFINE h == HighestCursor(rows)
             k == HighestCursor(next)
  <1>1. /\ h \in Cursors /\ k \in Cursors
        /\ h # NoBlock => \E s \in Subs : rows[s].cursor = h
        /\ \A s \in Subs : next[s].cursor <= k
    BY HighestIs
  <1>2. \A b \in Cursors : b \in Int /\ b >= NoBlock
    BY ChainConstants DEF Cursors, Blocks, NoBlock
  <1>3. \A s \in Subs : next[s].cursor \in Cursors
    <2>1. \A row \in Rows : row.cursor \in Cursors
      BY DEF Rows
    <2> QED
      BY <2>1
  <1> HIDE DEF h, k
  <1>4. CASE h = NoBlock
    BY <1>1, <1>2, <1>4 DEF h, k
  <1>5. CASE h # NoBlock
    <2>1. PICK s \in Subs : rows[s].cursor = h
      BY <1>1, <1>5
    <2>2. h <= next[s].cursor /\ next[s].cursor <= k /\ next[s].cursor \in Int /\ h \in Int /\ k \in Int
      BY <1>1, <1>2, <1>3, <2>1
    <2> QED
      BY <2>2 DEF h, k
  <1> QED
    BY <1>4, <1>5

\* A chain-reader service that does not write leaves the tables alone.
LEMMA ServiceQuiet ==
  ASSUME GrowthInv, NEW r \in Readers, ServiceReads(r), dep.pc # "off", ~raced'
  PROVE  subs' = subs /\ rawLogs' = rawLogs
  <1> DEFINE x == reader[r]
             y == reader'[r]
  <1>1. ~(x.pc = "write" /\ y.pc = "scan")
    BY DEF ServiceReads
  <1>2. x.min = NoBlock /\ x \in ReaderStates /\ reader \in [Readers -> ReaderStates]
    BY DEF GrowthInv, ReaderSound, TypeOK
  <1>3. ~ReaderWrite(r)
    <2> SUFFICES ASSUME ReaderWrite(r) PROVE FALSE
      OBVIOUS
    <2>1. reader' = [reader EXCEPT ![r] = [x EXCEPT !.pc = "scan", !.logs = {},
                                                    !.todo = @ \ {x.sub}]]
      BY DEF ReaderWrite, SetReader
    <2>2. y.pc = "scan"
      BY <1>2, <2>1 DEF ReaderStates
    <2> QED
      BY <1>1, <2>2 DEF ReaderWrite
  <1>4. ReaderStep(r)
    BY DEF ServiceReads
  <1>5. ~ReaderRollback(r)
    BY <1>2 DEF ReaderRollback
  <1> QED
    BY <1>3, <1>4, <1>5 DEF ReaderStep, ReaderStart, ReaderHash, ReaderList, ReaderProbe,
       ReaderClean, ReaderRelist, ReaderSkip, ReaderScan, ReaderDone, tables

\* With no service writing, the highest cursor does not fall while a deploy runs.
LEMMA NotLowered ==
  ASSUME IndexBefore, [DeployNext]_deployVars, ~lowered, ~raced'
  PROVE  ~lowered'
  <1>1. /\ GrowthInv /\ Deployer \in Readers /\ subs \in [Subs -> Rows] /\ subs' \in [Subs -> Rows]
        /\ LatestFeedBlock \in Int /\ LatestFeedBlock' \in Int
    BY DeployConstants, CursorsTyped DEF IndexBefore, SoundBefore
  <1>2. ASSUME WatchCursors, dep.pc = "off" \/ LatestFeedBlock <= LatestFeedBlock'
        PROVE  ~lowered'
    <2> DEFINE fell == LatestFeedBlock' < LatestFeedBlock
    <2>1. lowered' = (lowered \/ (dep.pc # "off" /\ fell))
      BY <1>2 DEF WatchCursors
    <2>2. dep.pc = "off" \/ ~fell
      BY <1>1, <1>2
    <2> HIDE DEF fell
    <2> QED
      BY <2>1, <2>2, Zenon
  <1>3. CASE ReadFeed
    <2>1. WatchCursors /\ ReaderStep(Deployer) /\ dep.pc = "read"
      BY <1>3 DEF ReadFeed
    <2>2. \A s \in Subs : subs[s].cursor <= subs'[s].cursor
      BY <2>1, ReadLists
    <2>3. HighestCursor(subs) <= HighestCursor(subs')
      BY <1>1, <2>2, HighestGrows
    <2> QED
      BY <1>2, <2>1, <2>3 DEF LatestFeedBlock
  <1>4. ASSUME NEW r \in Readers \ {Deployer}, ServiceReads(r) PROVE ~lowered'
    <2>1. WatchCursors
      BY <1>4 DEF ServiceReads
    <2>2. CASE dep.pc = "off"
      BY <1>2, <2>1, <2>2
    <2>3. CASE dep.pc # "off"
      <3>1. subs' = subs
        BY <1>1, <1>4, <2>3, ServiceQuiet
      <3> QED
        BY <1>1, <1>2, <2>1, <3>1, SameLatest
    <2> QED
      BY <2>2, <2>3
  <1>5. CASE DeployStep /\ ~ReadFeed
    BY <1>5 DEF DeployStep, StartDeploy, RegisterStatic, RetryRead, LoadSnapshot,
                ChooseTarget, NoTarget, AskFeed, RunLog, RejectLog, StopRunning, FinishSync,
                DeployFails, aux
  <1>6. CASE ChainGrows \/ UNCHANGED deployVars
    BY <1>6 DEF ChainGrows, aux, deployVars
  <1> QED
    BY <1>3, <1>4, <1>5, <1>6 DEF DeployNext

\* The pass starts where nothing is missing below: at the --from-block of a first
\* pass, behind a complete checkpoint, or where the unfinished one started.
LEMMA LoadSnapshotIndexed ==
  ASSUME IndexBefore, LoadSnapshot
  PROVE  IndexAfter
  <1> DEFINE x == IF dep.reset THEN NoSnap ELSE snap
             lo == SyncStartBlock(dep.from, x.found, x.ckpt)
             done == ProcessedLogs(x)
             A == Range(x.applied)
  <1>1. dep' = [dep EXCEPT !.pc = "target", !.prev = x, !.lo = lo,
                           !.applied = x.applied, !.dyn = x.dyn, !.done = done,
                           !.pending = {}, !.backfill = FALSE, !.executed = 0,
                           !.last = NoBlock, !.errors = 0]
    BY DEF LoadSnapshot, SetDep
  <1>2. DOMAIN dep = DOMAIN Off /\ dep.pc = "load"
    BY DEF IndexBefore, SoundBefore, DepSound, LoadSnapshot
  <1>3. /\ snap' = snap /\ subs' = subs /\ chain' = chain
        /\ SnapIndexed(chain, subs, snap) /\ Static \subseteq Active(subs)
        /\ dep.from \in FromArgs \/ (~dep.reset /\ snap.found)
        /\ CaughtUp(subs, Static \cup snap.dyn, HighestCursor(subs))
    BY <1>2 DEF LoadSnapshot, vars, IndexBefore, DepIndexed, LatestFeedBlock
  <1>4. SnapIndexed(chain, subs, NoSnap)
    <2>1. Range(NoSnap.applied) = {}
      BY DEF NoSnap, Range
    <2> QED
      BY <2>1 DEF NoSnap, SnapIndexed, IndexSound, SourcesSound, CursorsOf
  <1>5. /\ SnapIndexed(chain, subs, x)
        /\ x.dyn \subseteq snap.dyn
        /\ x.found => x.ckpt.to \in Blocks
        /\ ~x.found => dep.from \in FromArgs
    <2>1. snap.found => snap.ckpt.to \in Blocks
      BY DEF IndexBefore, SoundBefore, StoreSound, TargetSound
    <2> QED
      BY <1>3, <1>4, <2>1 DEF NoSnap
  <1> HIDE DEF x
  <1>6. lo \in Nat /\ Reached(chain, A, lo)
    <2>1. CASE ~x.found
      <3>1. lo = dep.from /\ dep.from \in FromArgs /\ NoBlock \notin FromArgs
        BY <1>5, <2>1 DEF SyncStartBlock, IndexBefore, FactoryDeploy
      <3> QED
        BY <3>1, DeployConstants DEF Reached
    <2>2. CASE x.found /\ x.ckpt.complete
      <3>1. lo = x.ckpt.to + 1 /\ x.ckpt.to \in Nat
        BY <1>5, <2>2, ChainConstants DEF SyncStartBlock, Blocks
      <3>2. Reached(chain, A, x.ckpt.to + 1)
        BY <1>5, <2>2 DEF SnapIndexed
      <3> HIDE DEF lo, A
      <3> QED
        BY <3>1, <3>2
    <2>3. CASE x.found /\ ~x.ckpt.complete
      <3>1. x.ckpt.from \in Nat /\ Reached(chain, A, x.ckpt.from)
        BY <1>5, <2>3 DEF SnapIndexed
      <3>2. lo = x.ckpt.from
        BY <2>3, <3>1 DEF SyncStartBlock, NoBlock
      <3> HIDE DEF lo, A
      <3> QED
        BY <3>1, <3>2
    <2> QED
      BY <2>1, <2>2, <2>3
  <1>7. IndexSound(chain, A) /\ CursorsOf(A, done) /\ SourcesSound(A, x.dyn)
    BY <1>5 DEF SnapIndexed, ProcessedLogs, CursorsOf
  <1>8. CaughtUp(subs, Static \cup x.dyn, HighestCursor(subs))
    BY <1>3, <1>5 DEF CaughtUp
  <1> HIDE DEF lo, done
  <1>9. /\ dep'.pc = "target" /\ dep'.prev = x /\ dep'.lo = lo /\ dep'.applied = x.applied
        /\ dep'.dyn = x.dyn /\ dep'.done = done
    BY <1>1, <1>2 DEF Off
  <1>10. PassIndexed(chain', subs', dep')
    BY <1>3, <1>5, <1>6, <1>7, <1>9 DEF PassIndexed
  <1>11. TargetIndexed(subs', dep')
    BY <1>3, <1>7, <1>8, <1>9 DEF TargetIndexed
  <1>12. DepIndexed'
    <2> HIDE DEF PassIndexed, TargetIndexed
    <2> QED
      BY <1>3, <1>9, <1>10, <1>11 DEF DepIndexed
  <1>13. ReadIndexed'
    BY <1>9 DEF ReadIndexed
  <1> QED
    BY <1>3, <1>12, <1>13 DEF IndexAfter

\* A step of the pass itself.
LEMMA PassStepIndexed ==
  ASSUME IndexBefore, snap' = snap, chain' = chain, rawLogs' = rawLogs,
         Active(subs) \subseteq Active(subs'), dep.pc \in {"target", "feed"},
         dep'.pc \in {"feed", "finish"}, PassIndexed(chain, subs', dep'),
         FeedIndexed(chain, rawLogs, subs', dep')
  PROVE  IndexAfter
  <1>1. SnapIndexed(chain', subs', snap')
    BY SameChain, SnapIndexStays
  <1>2. Static \subseteq Active(subs')
    BY DEF IndexBefore, DepIndexed
  <1>3. DepIndexed'
    <2> HIDE DEF PassIndexed, FeedIndexed
    <2> QED
      BY <1>2 DEF DepIndexed
  <1>4. ReadIndexed'
    BY DEF ReadIndexed
  <1> QED
    BY <1>1, <1>3, <1>4 DEF IndexAfter

\* Every static source and every known template source is asked for.
LEMMA ChooseTargetIndexed ==
  ASSUME IndexBefore, ChooseTarget
  PROVE  IndexAfter
  <1> DEFINE sq == StaticQueue(dep.lo)
             dq == DynamicQueue(dep.dyn, dep.lo, FirstKey)
             queue == sq \o dq
             A == Range(dep.applied)
  <1>1. /\ DOMAIN dep = DOMAIN Off /\ dep.pc = "target" /\ dep.pending = {}
        /\ PassIndexed(chain, subs, dep) /\ TargetIndexed(subs, dep)
    BY PassLocals DEF ChooseTarget, IndexBefore, SoundBefore, DepSound, DepIndexed
  <1>2. /\ dep' = [dep EXCEPT !.pc = "feed", !.to = LatestFeedBlock, !.queue = queue]
        /\ subs' = Subscribed(Static) /\ snap' = snap /\ chain' = chain /\ rawLogs' = rawLogs
    BY DEF ChooseTarget, SetDep, chainVars
  <1>3. /\ SourcesSound(A, dep.dyn) /\ dep.dyn \subseteq Templates /\ dep.dyn \in SUBSET Subs
        /\ dep.prev.dyn = dep.dyn /\ dep.lo \in Nat /\ dep.prev.dyn \subseteq Active(subs)
        /\ CaughtUp(subs, Static \cup dep.prev.dyn, HighestCursor(subs))
    BY <1>1 DEF TargetIndexed, SourcesSound, Templates, PassIndexed, SnapIndexed
  <1>4. /\ Refreshed(subs', subs) /\ Active(subs) \subseteq Active(subs')
        /\ Static \subseteq Subs
    BY <1>2, SubscribedRefreshes, IndexTypes DEF IndexBefore
  <1>5. /\ IsList(sq) /\ IsList(dq)
        /\ \A s \in Static : /\ Ask("check", s, dep.lo, FirstKey) \in Range(sq)
                             /\ Ask("load", s, dep.lo, FirstKey) \in Range(sq)
        /\ \A s \in dep.dyn : /\ Ask("check", s, dep.lo, FirstKey) \in Range(dq)
                              /\ Ask("load", s, dep.lo, FirstKey) \in Range(dq)
        /\ \A q \in Range(sq) : q.sub \in Static
        /\ \A q \in Range(dq) : q.sub \in dep.dyn
    <2>1. dep.lo \in Int
      BY <1>3
    <2>2. /\ IsList(sq) /\ \A q \in Range(sq) : q.sub \in Static
          /\ \A s \in Static : /\ Ask("check", s, dep.lo, FirstKey) \in Range(sq)
                               /\ Ask("load", s, dep.lo, FirstKey) \in Range(sq)
      BY <2>1, StaticAsked
    <2>3. /\ IsList(dq) /\ \A q \in Range(dq) : q.sub \in dep.dyn
          /\ \A s \in dep.dyn, op \in {"register", "load", "check"} :
                Ask(op, s, dep.lo, FirstKey) \in Range(dq)
      BY <1>3, DynamicAsked
    <2> HIDE DEF sq, dq
    <2> QED
      BY <2>2, <2>3
  <1> HIDE DEF sq, dq
  <1>6. Range(queue) = Range(sq) \cup Range(dq)
    BY <1>5, RangeJoined
  <1> HIDE DEF queue
  <1>7. /\ dep'.pc = "feed" /\ dep'.to = HighestCursor(subs) /\ dep'.queue = queue
        /\ dep'.prev = dep.prev /\ dep'.lo = dep.lo /\ dep'.applied = dep.applied
        /\ dep'.done = dep.done /\ dep'.dyn = dep.dyn /\ dep'.pending = {}
    BY <1>1, <1>2 DEF Off, LatestFeedBlock
  <1>8. PassIndexed(chain, subs', dep')
    <2>1. PassIndexed(chain, subs', dep)
      BY <1>1, <1>2, <1>4, SameChain, PassIndexKept, IndexTypes DEF IndexBefore
    <2> QED
      BY <1>7, <2>1 DEF PassIndexed
  <1>9. \A s \in Static \cup dep.dyn : Fetched(rawLogs, subs', dep', s, dep.lo, FirstKey)
    BY <1>5, <1>6, <1>7 DEF Fetched, Loaded, Checked
  <1>10. FeedIndexed(chain, rawLogs, subs', dep')
    <2>1. CaughtUp(subs', Static \cup dep.prev.dyn, HighestCursor(subs))
      BY <1>3, <1>4, CaughtUpKept
    <2>2. \A t \in dep.dyn : \A m : Fetching(rawLogs, subs', dep', t, m)
      BY <1>7, <1>9 DEF Fetching
    <2>3. \A t \in dep.dyn : Enrolled(subs', queue, t)
      BY <1>3, <1>4 DEF Enrolled, Active
    <2> HIDE DEF A
    <2>4. \A t \in dep.dyn : \E m \in A : Creator(m, t) /\ Fetching(rawLogs, subs', dep', t, m)
      BY <1>3, <2>2 DEF SourcesSound
    <2>5. \A l \in A : Rooted(l) => \A a \in l.ev.creates :
             \E t \in dep.dyn, m \in A : /\ SubAddr[t] = a /\ Creator(m, t) /\ ~Before(l, m)
                                         /\ Fetching(rawLogs, subs', dep', t, m)
      BY <1>3, <2>2 DEF SourcesSound
    <2>6. \A q \in Range(queue) : q.sub \in Static \cup dep.dyn
      BY <1>5, <1>6
    <2> QED
      BY <1>3, <1>7, <1>9, <2>1, <2>3, <2>4, <2>5, <2>6 DEF FeedIndexed, A
  <1> QED
    BY <1>1, <1>2, <1>4, <1>7, <1>8, <1>10, PassStepIndexed

\* A command that ends, or fails, keeps the stored snapshot.
LEMMA EndIndexed ==
  ASSUME IndexBefore, NoTarget \/ DeployFails
  PROVE  IndexAfter
  <1>1. /\ dep' = [Off EXCEPT !.outcome = "no_cursor"] \/ dep' = [Off EXCEPT !.outcome = "error"]
        /\ snap' = snap /\ chain' = chain /\ subs' = subs
    BY DEF NoTarget, DeployFails, SetDep, vars, chainVars, tables
  <1>2. dep'.pc = "off"
    BY <1>1 DEF Off
  <1>3. SnapIndexed(chain', subs', snap')
    BY <1>1 DEF IndexBefore
  <1> QED
    BY <1>2, <1>3, RestIndexed

\* A statement leaves the queue when what it asked for is there.
LEMMA AskFeedIndexed ==
  ASSUME IndexBefore, AskFeed
  PROVE  IndexAfter
  <1> DEFINE q == Head(dep.queue)
             rest == Tail(dep.queue)
             more == {l \in LoadFeedSourceReport(q.sub, q.from, dep.to) : Before(q.after, l)}
             behind == ~FeedSourceCaughtUp(q.sub, dep.to)
             wants(l) == /\ Matches(q.sub, TopicsOf(q.sub), l)
                         /\ l.blk >= q.from /\ l.blk >= SubFrom[q.sub] /\ l.blk <= dep.to
                         /\ Before(q.after, l)
  <1>1. /\ DOMAIN dep = DOMAIN Off /\ dep.pc = "feed" /\ dep.queue # <<>> /\ SoundBefore
        /\ PassIndexed(chain, subs, dep) /\ FeedIndexed(chain, rawLogs, subs, dep)
        /\ PassSound(dep)
    BY PassLocals DEF AskFeed, IndexBefore, DepIndexed
  <1>2. /\ Range(dep.queue) = {q} \cup Range(rest) /\ IsList(rest)
    <2>1. IsList(dep.queue)
      BY <1>1 DEF PassSound, QueueSound, IsList
    <2> QED
      BY <1>1, <2>1, RangeTaken
  <1>3. /\ snap' = snap /\ chain' = chain /\ rawLogs' = rawLogs
        /\ Static \subseteq Subs /\ dep.prev.dyn \subseteq Subs
        /\ dep.dyn \subseteq Templates /\ dep.dyn \subseteq Subs
        /\ q.sub \in Static \cup dep.dyn /\ q.sub \in Subs
    <2>1. snap' = snap /\ chain' = chain /\ rawLogs' = rawLogs
      BY DEF AskFeed, chainVars
    <2>2. Static \subseteq Subs /\ dep.prev.dyn \subseteq Subs
      BY <1>1, IndexTypes DEF PassIndexed, SnapIndexed, Active
    <2>3. dep.dyn \subseteq Templates /\ q.sub \in Static \cup dep.dyn
      BY <1>1, <1>2 DEF FeedIndexed
    <2> QED
      BY <2>1, <2>2, <2>3 DEF Templates
  <1>4. \A l : l \in more <=> l \in rawLogs /\ wants(l)
    BY DEF LoadFeedSourceReport
  <1>5. \A l \in more : Accounted(chain, dep.dyn, l)
    <2> SUFFICES ASSUME NEW l \in more PROVE Accounted(chain, dep.dyn, l)
      OBVIOUS
    <2>1. l \in rawLogs /\ l.ev.addr = SubAddr[q.sub] /\ SubFrom[q.sub] <= l.blk
      <3>1. l \in rawLogs /\ wants(l)
        BY <1>4
      <3>2. l.blk \in Nat /\ SubFrom[q.sub] \in Nat
        BY <1>1, <1>3, <3>1, IndexTypes, StoredOnChain
      <3> QED
        BY <3>1, <3>2 DEF Matches
    <2>2. l \in LogsOf(chain)
      BY <1>1, <2>1, StoredOnChain
    <2> HIDE DEF q
    <2> QED
      BY <1>3, <2>1, <2>2 DEF Accounted, Rooted
  <1>6. /\ Refreshed(subs', subs) /\ Active(subs) \subseteq Active(subs')
        /\ q.op = "register" => subs'[q.sub].active
        /\ q.op # "register" => subs' = subs
    <2>1. CASE q.op = "register" /\ subs' = Subscribed({q.sub})
      <3> HIDE DEF q
      <3>1. Refreshed(subs', subs) /\ Active(subs) \subseteq Active(subs')
        BY <2>1, SubscribedRefreshes
      <3>2. subs'[q.sub].active
        BY <1>3, <2>1, SubscribedRefreshes
      <3> QED
        BY <2>1, <3>1, <3>2
    <2>2. CASE q.op # "register" /\ subs' = subs
      <3> HIDE DEF q
      <3> QED
        BY <2>2 DEF Refreshed, Active
    <2> QED
      BY <2>1, <2>2 DEF AskFeed
  <1>7. \/ q.op = "register" /\ dep' = [dep EXCEPT !.queue = rest]
        \/ q.op = "load" /\ dep' = [[dep EXCEPT !.queue = rest] EXCEPT !.pending = @ \cup more]
        \/ q.op = "check" /\ dep' = [[dep EXCEPT !.queue = rest] EXCEPT !.backfill = @ \/ behind]
    BY DEF AskFeed, SetDep
  <1>8. behind <=> ~(subs[q.sub].active /\ subs[q.sub].cursor >= dep.to)
    BY DEF FeedSourceCaughtUp
  <1> HIDE DEF rest, more, behind, q, wants
  <1>9. /\ dep'.pc = "feed" /\ dep'.queue = rest /\ dep'.to = dep.to
        /\ dep'.prev = dep.prev /\ dep'.lo = dep.lo /\ dep'.applied = dep.applied
        /\ dep'.done = dep.done /\ dep'.dyn = dep.dyn
        /\ dep'.pending = IF q.op = "load" THEN dep.pending \cup more ELSE dep.pending
    BY <1>1, <1>7 DEF Off
  <1>10. dep.backfill \/ (q.op = "check" /\ behind) => dep'.backfill
    <2>1. q.op # "check" => dep'.backfill = dep.backfill
      BY <1>1, <1>7 DEF Off
    <2>2. q.op = "check" => dep'.backfill = (dep.backfill \/ behind)
      BY <1>1, <1>7 DEF Off
    <2> QED
      BY <2>1, <2>2, Zenon
  <1>11. ASSUME NEW s \in Subs, NEW from, NEW after, Fetched(rawLogs, subs, dep, s, from, after)
         PROVE  Fetched(rawLogs, subs', dep', s, from, after)
    <2>1. Loaded(rawLogs, dep', s, from, after)
      <3>1. CASE Ask("load", s, from, after) \in Range(rest)
        BY <1>9, <3>1 DEF Loaded
      <3>2. CASE Ask("load", s, from, after) = q
        <4>1. q.op = "load" /\ q.sub = s /\ q.from = from /\ q.after = after
          BY <3>2 DEF Ask
        <4>2. more \subseteq dep'.pending
          BY <1>9, <4>1
        <4>3. ASSUME NEW l \in rawLogs, Matches(s, TopicsOf(s), l),
                     l.blk >= from, l.blk >= SubFrom[s], l.blk <= dep'.to, Before(after, l)
              PROVE  l \in dep'.pending
          <5>1. wants(l)
            BY <1>9, <4>1, <4>3, Zenon DEF wants
          <5> QED
            BY <1>4, <4>2, <5>1
        <4> QED
          BY <4>3, Zenon DEF Loaded
      <3>3. CASE Ask("load", s, from, after) \notin Range(dep.queue)
        BY <1>9, <1>11, <3>3 DEF Fetched, Loaded
      <3> QED
        BY <1>2, <3>1, <3>2, <3>3
    <2>2. Checked(subs', dep', s, from, after)
      <3>1. CASE Ask("check", s, from, after) \in Range(rest)
        BY <1>9, <3>1 DEF Checked
      <3>2. CASE Ask("check", s, from, after) = q
        <4>1. q.op = "check" /\ q.sub = s /\ subs' = subs
          BY <1>6, <3>2 DEF Ask
        <4>2. behind => dep'.backfill
          BY <1>10, <4>1, Zenon
        <4> QED
          BY <1>8, <1>9, <4>1, <4>2, Zenon DEF Checked
      <3>3. CASE Ask("check", s, from, after) \notin Range(dep.queue)
        <4>1. (subs[s].active /\ subs[s].cursor >= dep.to) \/ dep.backfill
          BY <1>11, <3>3, Zenon DEF Fetched, Checked
        <4>2. CASE dep.backfill
          BY <1>10, <4>2, Zenon DEF Checked
        <4>3. CASE subs[s].active /\ subs[s].cursor >= dep.to
          BY <1>6, <1>9, <4>3 DEF Checked, Refreshed
        <4> QED
          BY <4>1, <4>2, <4>3
      <3> QED
        BY <1>2, <3>1, <3>2, <3>3
    <2> QED
      BY <2>1, <2>2 DEF Fetched
  <1>12. \A t \in dep.dyn : Enrolled(subs', rest, t)
    <2> SUFFICES ASSUME NEW t \in dep.dyn PROVE Enrolled(subs', rest, t)
      OBVIOUS
    <2>1. Enrolled(subs, dep.queue, t) /\ t \in Subs
      BY <1>1, <1>3 DEF FeedIndexed
    <2> QED
      BY <1>2, <1>6, <2>1 DEF Enrolled, Refreshed
  <1>13. \A l \in dep'.pending : l \in dep.pending \/ Accounted(chain, dep.dyn, l)
    BY <1>5, <1>9
  <1>14. Range(dep'.queue) \subseteq Range(dep.queue)
    BY <1>2, <1>9
  <1>15. FeedIndexed(chain, rawLogs, subs', dep')
    <2>1. \A t \in dep.dyn : Enrolled(subs', dep'.queue, t)
      BY <1>9, <1>12
    <2>2. dep'.pc = "finish" => dep'.queue = <<>>
      BY <1>9
    <2>3. Static \cup dep.prev.dyn \subseteq Subs
      BY <1>3
    <2>4. /\ dep'.applied = dep.applied /\ dep'.dyn = dep.dyn /\ dep'.prev = dep.prev
          /\ dep'.lo = dep.lo /\ dep'.to = dep.to
      BY <1>9
    <2>5. \A s \in Subs : \A from, after :
             Fetched(rawLogs, subs, dep, s, from, after) => Fetched(rawLogs, subs', dep', s, from, after)
      BY <1>11
    <2>6. LogsOf(chain) \subseteq LogsOf(chain) /\ Refreshed(subs', subs)
          /\ FeedIndexed(chain, rawLogs, subs, dep)
      BY <1>1, <1>6
    <2>7. Carries(chain, chain, rawLogs, subs, subs', dep, dep')
      BY <1>13, <1>14, <2>1, <2>2, <2>3, <2>4, <2>5, <2>6 DEF Carries
    <2> QED
      BY <2>7, FeedCarried
  <1>16. PassIndexed(chain, subs', dep')
    <2>1. PassIndexed(chain, subs', dep)
      BY <1>1, <1>3, <1>6, SameChain, PassIndexKept, IndexTypes DEF IndexBefore
    <2> QED
      BY <1>9, <2>1 DEF PassIndexed
  <1> QED
    BY <1>1, <1>3, <1>6, <1>9, <1>15, <1>16, PassStepIndexed

\* The run ends with nothing left to ask for.
LEMMA EndRunIndexed ==
  ASSUME IndexBefore, RejectLog \/ StopRunning
  PROVE  IndexAfter
  <1>1. /\ DOMAIN dep = DOMAIN Off /\ dep.pc = "feed" /\ dep.queue = <<>>
        /\ PassIndexed(chain, subs, dep) /\ FeedIndexed(chain, rawLogs, subs, dep)
        /\ snap' = snap /\ chain' = chain /\ rawLogs' = rawLogs /\ subs' = subs
        /\ Static \cup dep.prev.dyn \subseteq Subs
    <2>1. /\ dep.pc = "feed" /\ dep.queue = <<>> /\ SoundBefore
          /\ snap' = snap /\ chain' = chain /\ rawLogs' = rawLogs /\ subs' = subs
      BY DEF RejectLog, StopRunning, vars, IndexBefore
    <2>2. PassIndexed(chain, subs, dep) /\ FeedIndexed(chain, rawLogs, subs, dep)
      BY <2>1 DEF IndexBefore, DepIndexed
    <2>3. Static \subseteq Subs /\ dep.prev.dyn \subseteq Subs
      BY <2>1, <2>2, IndexTypes DEF PassIndexed, SnapIndexed, Active
    <2> QED
      BY <2>1, <2>2, <2>3, PassLocals
  <1>2. \/ dep' = [dep EXCEPT !.pc = "finish", !.executed = @ + 1, !.errors = @ + 1]
        \/ dep' = [dep EXCEPT !.pc = "finish"]
    BY DEF RejectLog, StopRunning, SetDep
  <1>3. /\ dep'.pc = "finish" /\ dep'.queue = dep.queue /\ dep'.to = dep.to
        /\ dep'.prev = dep.prev /\ dep'.lo = dep.lo /\ dep'.applied = dep.applied
        /\ dep'.done = dep.done /\ dep'.dyn = dep.dyn /\ dep'.pending = dep.pending
        /\ dep'.backfill = dep.backfill
    BY <1>1, <1>2 DEF Off
  <1>4. PassIndexed(chain, subs, dep')
    BY <1>1, <1>3 DEF PassIndexed
  <1>5. FeedIndexed(chain, rawLogs, subs, dep')
    <2>1. ASSUME NEW s \in Subs, NEW from, NEW after, Fetched(rawLogs, subs, dep, s, from, after)
          PROVE  Fetched(rawLogs, subs, dep', s, from, after)
      <3>1. Loaded(rawLogs, dep', s, from, after)
        BY <1>3, <2>1 DEF Fetched, Loaded
      <3>2. Checked(subs, dep', s, from, after)
        BY <1>3, <2>1 DEF Fetched, Checked
      <3> QED
        BY <3>1, <3>2 DEF Fetched
    <2>2. /\ LogsOf(chain) \subseteq LogsOf(chain) /\ Refreshed(subs, subs)
          /\ \A t \in dep.dyn : Enrolled(subs, dep'.queue, t)
          /\ dep'.pc = "finish" => dep'.queue = <<>>
      <3>1. Refreshed(subs, subs)
        BY <1>1, IndexTypes DEF Refreshed
      <3>2. \A t \in dep.dyn : Enrolled(subs, dep'.queue, t)
        BY <1>1, <1>3 DEF FeedIndexed
      <3> QED
        BY <1>1, <1>3, <3>1, <3>2
    <2>3. Carries(chain, chain, rawLogs, subs, subs, dep, dep')
      <3> HIDE DEF Refreshed, Enrolled
      <3> QED
        BY <1>1, <1>3, <2>1, <2>2 DEF Carries
    <2> QED
      BY <2>3, FeedCarried
  <1>6. Active(subs) \subseteq Active(subs')
    BY <1>1
  <1> QED
    BY <1>1, <1>3, <1>4, <1>5, <1>6, PassStepIndexed

\* The earliest pending log that is not processed yet: nothing a static source
\* emitted in front of it is missing.
LEMMA RunLogNext ==
  ASSUME IndexBefore, dep.pc = "feed", dep.queue = <<>>,
         NEW log \in NextUnprocessedLogs(dep.pending, dep.done)
  PROVE  /\ Accounted(chain, dep.dyn, log)
         /\ log \notin Range(dep.applied)
         /\ \A l \in LogsOf(chain) : Rooted(l) /\ Before(l, log) => l \in Range(dep.applied)
  <1> DEFINE A == Range(dep.applied)
  <1>1. /\ PassIndexed(chain, subs, dep) /\ FeedIndexed(chain, rawLogs, subs, dep)
        /\ PassSound(dep) /\ SoundBefore /\ FactoryDeploy
    BY PassLocals DEF IndexBefore, DepIndexed
  <1>2. /\ log \in dep.pending /\ LogId(log) \notin dep.done
        /\ \A l \in dep.pending : LogId(l) \notin dep.done => ~Before(l, log)
    BY DEF NextUnprocessedLogs, Unprocessed
  <1>3. /\ Accounted(chain, dep.dyn, log) /\ log \in LogsOf(chain)
    BY <1>1, <1>2 DEF FeedIndexed, Accounted
  <1>4. log.blk >= dep.lo /\ log.blk <= dep.to /\ log.blk \in Nat /\ dep.lo \in Nat /\ dep.to \in Nat
    <2>1. log.blk >= dep.lo /\ log.blk <= dep.to /\ dep.to \in Blocks
      BY <1>1, <1>2 DEF PassSound, TargetSound
    <2>2. log.blk \in Nat
      BY <1>1, <1>3, IndexTypes
    <2>3. dep.lo \in Nat /\ dep.to \in Nat
      BY <1>1, <2>1 DEF PassIndexed, Blocks
    <2> QED
      BY <2>1, <2>2, <2>3
  <1>5. log \notin A
    <2> SUFFICES ASSUME log \in A PROVE FALSE
      OBVIOUS
    <2>1. PICK i \in DOMAIN dep.applied : dep.applied[i] = log
      BY DEF Range
    <2>2. LogId(log) \in dep.done \/ log.blk < dep.lo
      BY <1>1, <2>1 DEF PassSound, Handled
    <2> QED
      BY <1>2, <1>4, <2>2
  <1>6. ASSUME NEW l \in LogsOf(chain), Rooted(l), Before(l, log) PROVE l \in A
    <2>1. l.blk \in Nat /\ l.blk <= log.blk
      BY <1>1, <1>4, <1>6, IndexTypes DEF Before
    <2>2. CASE l.blk < dep.lo
      <3>1. Chained(chain) /\ Reached(chain, A, dep.lo)
        BY <1>1, IndexTypes DEF PassIndexed
      <3>2. DueBelow(chain, A, dep.lo)
        BY <1>1, <3>1, NothingMissing
      <3> QED
        BY <1>6, <2>2, <3>2 DEF DueBelow, Due
    <2>3. CASE l.blk >= dep.lo
      <3>1. PICK s \in Static : SubAddr[s] = l.ev.addr /\ SubFrom[s] <= l.blk
        BY <1>6 DEF Rooted
      <3>2. s \in Subs /\ SubFrom[s] \in Nat /\ subs[s].cursor \in Int
        BY <1>1, IndexTypes
      <3>3. subs[s].active /\ subs[s].cursor >= dep.to
        BY <1>1, <1>4, <2>1, <3>1, <3>2 DEF FeedIndexed, CaughtUp
      <3>4. l \in rawLogs /\ Matches(s, TopicsOf(s), l)
        BY <1>1, <1>4, <2>1, <3>1, <3>2, <3>3, SourceStored
      <3>5. Fetched(rawLogs, subs, dep, s, dep.lo, FirstKey)
        BY <1>1 DEF FeedIndexed
      <3>6. Range(dep.queue) = {}
        BY DEF Range
      <3>7. Before(FirstKey, l)
        BY <2>1 DEF Before, FirstKey, NoBlock
      <3>8. l \in dep.pending
        <4>1. l.blk <= dep.to
          BY <1>4, <2>1
        <4> QED
          BY <2>3, <3>1, <3>4, <3>5, <3>6, <3>7, <4>1 DEF Fetched, Loaded
      <3>9. LogId(l) \in dep.done
        BY <1>2, <1>6, <3>8
      <3>10. PICK k \in A : LogId(k) = LogId(l)
        BY <1>1, <3>9 DEF PassIndexed, CursorsOf
      <3>11. k \in LogsOf(chain) /\ k.blk = l.blk /\ k.ev.idx = l.ev.idx
        BY <1>1, <3>10 DEF PassIndexed, IndexSound, LogId
      <3>12. k = l
        BY <1>1, <1>6, <3>11, IndexTypes DEF LogSet
      <3> QED
        BY <3>10, <3>12
    <2> QED
      BY <1>4, <2>1, <2>2, <2>3
  <1> QED
    BY <1>3, <1>5, <1>6

\* A handler runs: its log joins the index, its sources are asked for from it on.
LEMMA RunLogIndexed ==
  ASSUME IndexBefore, RunLog
  PROVE  IndexAfter
  <1> DEFINE A == Range(dep.applied)
  <1>1. /\ DOMAIN dep = DOMAIN Off /\ dep.pc = "feed" /\ dep.queue = <<>>
        /\ PassIndexed(chain, subs, dep) /\ FeedIndexed(chain, rawLogs, subs, dep)
        /\ snap' = snap /\ chain' = chain /\ rawLogs' = rawLogs /\ subs' = subs
        /\ dep.applied \in Seq(Logs) /\ SoundBefore /\ FactoryDeploy
    <2>1. /\ dep.pc = "feed" /\ dep.queue = <<>> /\ SoundBefore /\ FactoryDeploy
          /\ snap' = snap /\ chain' = chain /\ rawLogs' = rawLogs /\ subs' = subs
      BY DEF RunLog, vars, IndexBefore
    <2>2. PassIndexed(chain, subs, dep) /\ FeedIndexed(chain, rawLogs, subs, dep)
      BY <2>1 DEF IndexBefore, DepIndexed
    <2>3. dep.applied \in Seq(Logs)
      BY <2>1, PassLocals DEF PassSound, StoreType
    <2> QED
      BY <2>1, <2>2, <2>3, PassLocals
  <1>2. PICK log \in NextUnprocessedLogs(dep.pending, dep.done) :
          dep' = [dep EXCEPT !.applied = Append(@, log), !.done = @ \cup {LogId(log)},
                             !.dyn = @ \cup CreatedSources(log),
                             !.queue = DynamicQueue(CreatedSources(log), log.blk, log),
                             !.executed = @ + 1, !.last = log.blk]
    BY DEF RunLog, SetDep
  <1> DEFINE new == CreatedSources(log)
             queue == DynamicQueue(new, log.blk, log)
             B == A \cup {log}
             dyn == dep.dyn \cup new
  <1>3. /\ Accounted(chain, dep.dyn, log) /\ log \in LogsOf(chain)
        /\ log \notin A
        /\ \A l \in LogsOf(chain) : Rooted(l) /\ Before(l, log) => l \in A
    BY <1>1, <1>2, RunLogNext DEF Accounted
  <1>4. new \in SUBSET Subs /\ new \subseteq Templates
    BY DEF CreatedSources, Templates
  <1>5. /\ \A s \in new, op \in {"register", "load", "check"} : Ask(op, s, log.blk, log) \in Range(queue)
        /\ \A a \in Range(queue) : a.sub \in new
    BY <1>4, DynamicAsked
  <1> HIDE DEF queue
  <1>6. /\ dep'.pc = "feed" /\ dep'.queue = queue /\ dep'.to = dep.to
        /\ dep'.prev = dep.prev /\ dep'.lo = dep.lo /\ dep'.applied = Append(dep.applied, log)
        /\ dep'.done = dep.done \cup {LogId(log)} /\ dep'.dyn = dyn
        /\ dep'.pending = dep.pending /\ dep'.backfill = dep.backfill
    <2> DEFINE applied == Append(dep.applied, log)
               done == dep.done \cup {LogId(log)}
    <2>1. dep' = [dep EXCEPT !.applied = applied, !.done = done, !.dyn = dyn, !.queue = queue,
                             !.executed = @ + 1, !.last = log.blk]
      BY <1>2 DEF queue
    <2> HIDE DEF applied, done, dyn
    <2>2. /\ dep'.pc = "feed" /\ dep'.queue = queue /\ dep'.to = dep.to
          /\ dep'.prev = dep.prev /\ dep'.lo = dep.lo /\ dep'.applied = applied
          /\ dep'.done = done /\ dep'.dyn = dyn
          /\ dep'.pending = dep.pending /\ dep'.backfill = dep.backfill
      BY <1>1, <2>1 DEF Off
    <2> QED
      BY <2>2 DEF applied, done
  <1>7. Range(dep'.applied) = B
    <2>1. /\ DOMAIN Append(dep.applied, log) = 1 .. Len(dep.applied) + 1
          /\ Len(dep.applied) \in Nat /\ DOMAIN dep.applied = 1 .. Len(dep.applied)
          /\ \A i \in DOMAIN dep.applied : Append(dep.applied, log)[i] = dep.applied[i]
          /\ Append(dep.applied, log)[Len(dep.applied) + 1] = log
      BY <1>1
    <2> HIDE DEF A
    <2>2. \A l : l \in Range(Append(dep.applied, log)) <=> l \in A \/ l = log
      BY <2>1 DEF Range, A
    <2> QED
      BY <1>6, <2>2
  <1>8. IndexSound(chain, A) /\ CursorsOf(A, dep.done)
    BY <1>1 DEF PassIndexed
  <1>9. \A t \in dep.dyn : \E m \in A : Creator(m, t)
    BY <1>1 DEF FeedIndexed
  <1> HIDE DEF A, new, dyn
  <1>10. IndexSound(chain, B)
    <2>1. Rooted(log) \/ \E m \in A : Rooted(m) /\ m.blk <= log.blk /\ log.ev.addr \in m.ev.creates
      <3>1. ASSUME NEW t \in dep.dyn, SubAddr[t] = log.ev.addr, SubFrom[t] <= log.blk
            PROVE  \E m \in A : Rooted(m) /\ m.blk <= log.blk /\ log.ev.addr \in m.ev.creates
        BY <1>9, <3>1 DEF Creator
      <3> QED
        BY <1>3, <3>1 DEF Accounted
    <2> HIDE DEF Rooted, Before
    <2>2. \A m \in B, l \in LogsOf(chain) : Rooted(l) /\ Rooted(m) /\ Before(l, m) => l \in B
      BY <1>3, <1>8 DEF IndexSound
    <2>3. \A l \in B : /\ l \in LogsOf(chain)
                       /\ Rooted(l) \/ \E m \in B : /\ Rooted(m) /\ m.blk <= l.blk
                                                    /\ l.ev.addr \in m.ev.creates
      BY <1>3, <1>8, <2>1 DEF IndexSound
    <2> QED
      BY <2>2, <2>3 DEF IndexSound
  <1>11. PassIndexed(chain, subs, dep')
    <2>1. CursorsOf(B, dep'.done)
      BY <1>6, <1>8 DEF CursorsOf
    <2>2. Reached(chain, B, dep.lo)
      <3>1. Reached(chain, A, dep.lo) /\ A \subseteq B
        BY <1>1 DEF PassIndexed, A
      <3> QED
        BY <3>1, ReachedMore
    <2>3. dep.lo \in Nat /\ SnapIndexed(chain, subs, dep.prev)
      BY <1>1 DEF PassIndexed
    <2> QED
      BY <1>6, <1>7, <1>10, <2>1, <2>2, <2>3 DEF PassIndexed
  <1>12. \A a \in log.ev.creates : Rooted(log)
    <2> SUFFICES ASSUME NEW a \in log.ev.creates PROVE Rooted(log)
      OBVIOUS
    <2>1. log.ev \in chain[log.blk + 1].body /\ chain[log.blk + 1].body \in Contents
      BY <1>1, <1>3, IndexTypes, OnChainFacts
    <2>2. \A t \in Templates : SubAddr[t] # log.ev.addr
      BY <1>1, <2>1 DEF FactoryDeploy
    <2>3. dep.dyn \subseteq Templates
      BY <1>1 DEF FeedIndexed
    <2> QED
      BY <1>3, <2>2, <2>3 DEF Accounted
  <1>13. \A t \in new : /\ t \in Templates /\ Creator(log, t)
                        /\ Fetching(rawLogs, subs, dep', t, log)
    <2> SUFFICES ASSUME NEW t \in new
                 PROVE  t \in Templates /\ Creator(log, t) /\ Fetching(rawLogs, subs, dep', t, log)
      OBVIOUS
    <2>1. t \in Templates /\ SubAddr[t] \in log.ev.creates /\ SubFrom[t] = log.blk
      BY DEF new, CreatedSources
    <2>2. Creator(log, t)
      BY <1>12, <2>1 DEF Creator
    <2>3. Ask("load", t, log.blk, log) \in Range(dep'.queue) /\ Ask("check", t, log.blk, log) \in Range(dep'.queue)
      BY <1>5, <1>6
    <2> QED
      BY <2>1, <2>2, <2>3 DEF Fetching, Fetched, Loaded, Checked
  <1>14. Range(dep.queue) = {}
    BY <1>1 DEF Range
  <1>15. ASSUME NEW s, NEW from, NEW after, Fetched(rawLogs, subs, dep, s, from, after)
         PROVE  Fetched(rawLogs, subs, dep', s, from, after)
    <2>1. Loaded(rawLogs, dep', s, from, after)
      BY <1>6, <1>14, <1>15 DEF Fetched, Loaded
    <2>2. Checked(subs, dep', s, from, after)
      BY <1>6, <1>14, <1>15, Zenon DEF Fetched, Checked
    <2> QED
      BY <2>1, <2>2 DEF Fetched
  <1>16. ASSUME NEW t, NEW m, Fetching(rawLogs, subs, dep, t, m)
         PROVE  Fetching(rawLogs, subs, dep', t, m)
    BY <1>6, <1>15, <1>16 DEF Fetching
  <1>17. \A t \in dyn : \E m \in B : Creator(m, t) /\ Fetching(rawLogs, subs, dep', t, m)
    <2>1. \A t \in dep.dyn : \E m \in A : Creator(m, t) /\ Fetching(rawLogs, subs, dep', t, m)
      BY <1>1, <1>16 DEF FeedIndexed, A
    <2> HIDE DEF Creator, Fetching
    <2> QED
      BY <1>13, <2>1 DEF dyn
  <1>18. ASSUME NEW l \in B, Rooted(l), NEW a \in l.ev.creates
         PROVE  \E t \in dyn, m \in B : /\ SubAddr[t] = a /\ Creator(m, t) /\ ~Before(l, m)
                                        /\ Fetching(rawLogs, subs, dep', t, m)
    <2>1. CASE l \in A
      <3>1. PICK t \in dep.dyn, m \in A : /\ SubAddr[t] = a /\ Creator(m, t) /\ ~Before(l, m)
                                          /\ Fetching(rawLogs, subs, dep, t, m)
        BY <1>1, <1>18, <2>1 DEF FeedIndexed, A
      <3>2. Fetching(rawLogs, subs, dep', t, m) /\ t \in dyn /\ m \in B
        BY <1>16, <3>1 DEF dyn
      <3> QED
        BY <3>1, <3>2
    <2>2. CASE l = log /\ \E t \in dep.dyn : SubAddr[t] = a
      <3>1. PICK t \in dep.dyn : SubAddr[t] = a
        BY <2>2
      <3>2. PICK m \in A : Creator(m, t) /\ Fetching(rawLogs, subs, dep, t, m)
        BY <1>1 DEF FeedIndexed, A
      <3>3. ~Before(log, m)
        BY <1>3, <1>8, <1>18, <2>2, <3>2 DEF IndexSound, Creator
      <3>4. Fetching(rawLogs, subs, dep', t, m) /\ t \in dyn /\ m \in B
        BY <1>16, <3>2 DEF dyn
      <3> QED
        BY <2>2, <3>1, <3>2, <3>3, <3>4
    <2>3. CASE l = log /\ \A t \in dep.dyn : SubAddr[t] # a
      <3>1. /\ log.ev \in chain[log.blk + 1].body /\ chain[log.blk + 1].body \in Contents
            /\ log.blk \in Blocks /\ log.blk \in Nat
        BY <1>1, <1>3, IndexTypes, OnChainFacts
      <3>2. PICK s \in Static : SubAddr[s] = log.ev.addr /\ SubFrom[s] <= log.blk
        BY <1>18, <2>3 DEF Rooted
      <3>3. PICK t \in Templates : SubAddr[t] = a /\ SubFrom[t] = log.blk
        BY <1>1, <1>18, <2>3, <3>1, <3>2 DEF FactoryDeploy
      <3>4. t \in new
        BY <1>18, <2>3, <3>3 DEF new, CreatedSources
      <3>5. ~Before(log, log)
        BY <3>1, OnChainFacts, IndexTypes, <1>1, <1>3 DEF Before
      <3>6. t \in dyn /\ Creator(log, t) /\ Fetching(rawLogs, subs, dep', t, log)
        BY <1>13, <3>4 DEF dyn
      <3> QED
        BY <2>3, <3>3, <3>5, <3>6
    <2> QED
      BY <2>1, <2>2, <2>3
  <1>19. FeedIndexed(chain, rawLogs, subs, dep')
    <2>1. /\ CaughtUp(subs, Static \cup dep.prev.dyn, dep.to)
          /\ dep.prev.dyn \subseteq dyn /\ dyn \subseteq Templates
      BY <1>1, <1>4 DEF FeedIndexed, dyn
    <2>2. \A s \in Static : Fetched(rawLogs, subs, dep', s, dep.lo, FirstKey)
      BY <1>1, <1>15 DEF FeedIndexed
    <2>3. \A l \in dep.pending : Accounted(chain, dyn, l)
      BY <1>1 DEF FeedIndexed, Accounted, dyn
    <2>4. \A q \in Range(queue) : q.sub \in Static \cup dyn
      BY <1>5 DEF dyn
    <2>5. \A t \in dyn : Enrolled(subs, queue, t)
      <3>1. ASSUME NEW t \in dep.dyn PROVE Enrolled(subs, queue, t)
        <4>1. Enrolled(subs, dep.queue, t)
          BY <1>1 DEF FeedIndexed
        <4> QED
          BY <1>14, <4>1 DEF Enrolled
      <3>2. ASSUME NEW t \in new PROVE Enrolled(subs, queue, t)
        <4>1. Ask("register", t, log.blk, log) \in Range(queue)
          BY <1>5
        <4> QED
          BY <4>1 DEF Enrolled, Ask
      <3> QED
        BY <3>1, <3>2 DEF dyn
    <2> HIDE DEF Fetched, Fetching, Enrolled, Accounted, CaughtUp, Creator, Rooted, Before
    <2> QED
      BY <1>6, <1>7, <1>17, <1>18, <2>1, <2>2, <2>3, <2>4, <2>5 DEF FeedIndexed
  <1>20. Active(subs) \subseteq Active(subs')
    BY <1>1
  <1> QED
    BY <1>1, <1>6, <1>11, <1>19, <1>20, PassStepIndexed

\* A log of a source that was loaded up to the target is pending, and behind its
\* cursor or still to run.
LEMMA LoadedPending ==
  ASSUME IndexBefore, dep.pc = "finish", NEW s \in Subs, NEW from, NEW after,
         Loaded(rawLogs, dep, s, from, after), subs[s].active, subs[s].cursor >= dep.to,
         NEW l \in LogsOf(chain), l.ev.addr = SubAddr[s], SubFrom[s] <= l.blk,
         from <= l.blk, from \in Int, l.blk <= dep.to, Before(after, l)
  PROVE  /\ l \in dep.pending
         /\ LogId(l) \in dep.done => l \in Range(dep.applied)
  <1>1. /\ PassIndexed(chain, subs, dep) /\ FeedIndexed(chain, rawLogs, subs, dep)
        /\ PassSound(dep) /\ SoundBefore /\ FactoryDeploy
    BY PassLocals DEF IndexBefore, DepIndexed
  <1>2. /\ l.blk \in Nat /\ SubFrom[s] \in Nat /\ subs[s].cursor \in Int /\ dep.to \in Int
    <2>1. dep.to \in Blocks
      BY <1>1 DEF PassSound, TargetSound
    <2> QED
      BY <1>1, <2>1, IndexTypes DEF Blocks
  <1>3. l \in rawLogs /\ Matches(s, TopicsOf(s), l)
    BY <1>1, <1>2, SourceStored
  <1>4. Range(dep.queue) = {}
    BY <1>1 DEF FeedIndexed, Range
  <1>5. l \in dep.pending
    BY <1>2, <1>3, <1>4 DEF Loaded
  <1>6. ASSUME LogId(l) \in dep.done PROVE l \in Range(dep.applied)
    <2>1. PICK k \in Range(dep.applied) : LogId(k) = LogId(l)
      BY <1>1, <1>6 DEF PassIndexed, CursorsOf
    <2>2. k \in LogsOf(chain) /\ k.blk = l.blk /\ k.ev.idx = l.ev.idx
      BY <1>1, <2>1 DEF PassIndexed, IndexSound, LogId
    <2>3. k = l
      BY <1>1, <2>2, IndexTypes DEF LogSet
    <2> QED
      BY <2>1, <2>3
  <1> QED
    BY <1>5, <1>6

\* A pass that ends complete has executed everything up to its target.
LEMMA CompletePass ==
  ASSUME IndexBefore, dep.pc = "finish", ReplayComplete
  PROVE  Reached(chain, Range(dep.applied), dep.to + 1)
  <1> DEFINE A == Range(dep.applied)
  <1>1. /\ PassIndexed(chain, subs, dep) /\ FeedIndexed(chain, rawLogs, subs, dep)
        /\ PassSound(dep) /\ SoundBefore /\ FactoryDeploy
        /\ Range(dep.queue) = {}
    <2>1. FeedIndexed(chain, rawLogs, subs, dep)
      BY DEF IndexBefore, DepIndexed
    <2>2. Range(dep.queue) = {}
      BY <2>1 DEF FeedIndexed, Range
    <2> QED
      BY <2>1, <2>2, PassLocals DEF IndexBefore, DepIndexed
  <1>2. dep.to \in Nat /\ dep.to < Len(chain) /\ Len(chain) \in Nat /\ dep.lo \in Nat
    <2>1. dep.to \in Blocks /\ dep.to < Len(chain)
      BY <1>1 DEF PassSound, TargetSound
    <2> QED
      BY <1>1, <2>1, IndexTypes DEF Blocks, PassIndexed
  <1>3. ~dep.backfill /\ \A l \in dep.pending : LogId(l) \in dep.done
    BY DEF ReplayComplete, Unprocessed
  <1>4. DueBelow(chain, A, dep.lo)
    <2>1. Chained(chain) /\ Reached(chain, A, dep.lo)
      BY <1>1, IndexTypes DEF PassIndexed
    <2> QED
      BY <1>1, <2>1, NothingMissing
  <1>5. \A l \in LogsOf(chain) : l.blk \in Nat
    BY <1>1, IndexTypes
  <1>6. ASSUME NEW l \in LogsOf(chain), Rooted(l), l.blk <= dep.to PROVE l \in A
    <2>1. CASE l.blk < dep.lo
      BY <1>4, <1>6, <2>1 DEF DueBelow, Due
    <2>2. CASE l.blk >= dep.lo
      <3>1. PICK s \in Static : SubAddr[s] = l.ev.addr /\ SubFrom[s] <= l.blk
        BY <1>6 DEF Rooted
      <3>2. s \in Subs /\ SubFrom[s] \in Nat /\ subs[s].cursor \in Int
        BY <1>1, IndexTypes
      <3>3. subs[s].active /\ subs[s].cursor >= dep.to
        BY <1>1, <1>2, <1>5, <1>6, <3>1, <3>2 DEF FeedIndexed, CaughtUp
      <3>4. Loaded(rawLogs, dep, s, dep.lo, FirstKey)
        BY <1>1 DEF FeedIndexed, Fetched
      <3>5. Before(FirstKey, l)
        BY <1>5 DEF Before, FirstKey, NoBlock
      <3>6. dep.lo <= l.blk /\ dep.lo \in Int
        BY <1>2, <1>5, <2>2
      <3>7. l \in dep.pending /\ (LogId(l) \in dep.done => l \in A)
        BY <1>6, <3>1, <3>2, <3>3, <3>4, <3>5, <3>6, LoadedPending
      <3> QED
        BY <1>3, <3>7
    <2> QED
      BY <1>2, <1>5, <2>1, <2>2
  <1>7. ASSUME NEW l \in LogsOf(chain), l.blk <= dep.to, NEW m \in LogsOf(chain), Rooted(m),
               Before(m, l), l.ev.addr \in m.ev.creates
        PROVE  l \in A
    <2>1. CASE l.blk < dep.lo
      BY <1>4, <1>7, <2>1 DEF DueBelow, Due
    <2>2. CASE l.blk >= dep.lo
      <3>1. m \in A
        <4>1. m.blk <= dep.to
          BY <1>2, <1>5, <1>7 DEF Before
        <4> QED
          BY <1>6, <1>7, <4>1
      <3>2. PICK t \in dep.dyn, k \in A : /\ SubAddr[t] = l.ev.addr /\ Creator(k, t) /\ ~Before(m, k)
                                          /\ Fetching(rawLogs, subs, dep, t, k)
        BY <1>1, <1>7, <3>1 DEF FeedIndexed
      <3>3. t \in Subs /\ k \in LogsOf(chain) /\ SubFrom[t] = k.blk
        BY <1>1, <3>2 DEF FeedIndexed, PassIndexed, IndexSound, Creator, Templates
      <3>4. Before(k, l)
        <4>1. LogSet(LogsOf(chain))
          BY <1>1, IndexTypes
        <4>2. k = m \/ Before(k, m)
          BY <3>2, <3>3, <4>1, LogOrder
        <4> QED
          BY <1>7, <3>3, <4>1, <4>2, LogOrder
      <3>5. /\ SubFrom[t] <= l.blk /\ k.blk <= l.blk /\ k.blk \in Int /\ dep.lo <= l.blk
            /\ dep.lo \in Int
        BY <1>2, <1>5, <2>2, <3>3, <3>4 DEF Before
      <3>6. Before(FirstKey, l)
        BY <1>5 DEF Before, FirstKey, NoBlock
      <3>7. PICK from, after : /\ Fetched(rawLogs, subs, dep, t, from, after)
                               /\ from <= l.blk /\ from \in Int /\ Before(after, l)
        BY <3>2, <3>4, <3>5, <3>6 DEF Fetching
      <3>8. subs[t].active /\ subs[t].cursor >= dep.to /\ Loaded(rawLogs, dep, t, from, after)
        BY <1>1, <1>3, <3>7 DEF Fetched, Checked
      <3>9. l \in dep.pending /\ (LogId(l) \in dep.done => l \in A)
        BY <1>7, <3>2, <3>3, <3>5, <3>7, <3>8, LoadedPending
      <3> QED
        BY <1>3, <3>9
    <2> QED
      BY <1>2, <1>5, <2>1, <2>2
  <1>8. DueBelow(chain, A, dep.to + 1)
    <2> SUFFICES ASSUME NEW l \in LogsOf(chain), Due(chain, l), l.blk < dep.to + 1 PROVE l \in A
      BY DEF DueBelow
    <2>1. l.blk <= dep.to
      BY <1>2, <1>5
    <2> QED
      BY <1>6, <1>7, <2>1 DEF Due
  <1> QED
    BY <1>2, <1>8 DEF Reached

\* What a pass writes is an index: of everything up to its target when it says so.
LEMMA FinishSyncIndexed ==
  ASSUME IndexBefore, FinishSync
  PROVE  IndexAfter
  <1> DEFINE A == Range(dep.applied)
  <1>1. /\ dep.pc = "finish" /\ SoundBefore
        /\ PassIndexed(chain, subs, dep) /\ FeedIndexed(chain, rawLogs, subs, dep)
        /\ chain' = chain /\ subs' = subs
    BY DEF FinishSync, vars, IndexBefore, DepIndexed
  <1>2. PICK rpc \in RpcHashes(dep.to) :
          /\ snap' = SyncedSnapshot(TargetHash(rpc))
          /\ dep' = IF /\ DeployShouldContinue(SyncedSnapshot(TargetHash(rpc)))
                       /\ dep.pass < MaxPasses
                    THEN [Off EXCEPT !.pc = "register", !.cli = dep.cli, !.pass = dep.pass + 1]
                    ELSE [Off EXCEPT !.outcome = Outcome(SyncedSnapshot(TargetHash(rpc)))]
    BY DEF FinishSync, SetDep
  <1> DEFINE hash == TargetHash(rpc)
             again == DeployShouldContinue(SyncedSnapshot(hash)) /\ dep.pass < MaxPasses
             next == [Off EXCEPT !.pc = "register", !.cli = dep.cli, !.pass = dep.pass + 1]
             ended == [Off EXCEPT !.outcome = Outcome(SyncedSnapshot(hash))]
             kept == SyncedSnapshot(hash)
  <1>3. snap' = kept /\ dep' = IF again THEN next ELSE ended
    BY <1>2
  <1>4. next.pc = "register" /\ next.reset = FALSE /\ ended.pc = "off"
    BY DEF Off
  <1> HIDE DEF hash, again, next, ended
  <1>5. SnapIndexed(chain, subs, kept) /\ kept.found
    <2>1. CASE /\ dep.prev.found
               /\ ShouldKeepPrevious(dep.prev.ckpt, dep.lo, dep.to, ReplayComplete,
                                     dep.executed, dep.errors, NoBlock)
      <3>1. kept = dep.prev
        BY <2>1 DEF SyncedSnapshot
      <3> QED
        BY <1>1, <2>1, <3>1 DEF PassIndexed
    <2>2. CASE ~(/\ dep.prev.found
                 /\ ShouldKeepPrevious(dep.prev.ckpt, dep.lo, dep.to, ReplayComplete,
                                       dep.executed, dep.errors, NoBlock))
      <3> DEFINE complete == ReplayComplete
                 done == IF complete THEN {} ELSE dep.done
                 ckpt == [from |-> dep.lo, to |-> dep.to, hash |-> hash,
                          complete |-> complete, errors |-> dep.errors]
      <3>1. kept = [found |-> TRUE, ckpt |-> ckpt,
                    applied |-> dep.applied, dyn |-> dep.dyn, done |-> done]
        BY <2>2, Zenon DEF SyncedSnapshot
      <3>2. ckpt.from = dep.lo /\ ckpt.to = dep.to /\ (ckpt.complete <=> complete)
        OBVIOUS
      <3>3. \A id \in done : id \in dep.done
        OBVIOUS
      <3>4. complete => Reached(chain, A, dep.to + 1)
        BY <1>1, CompletePass
      <3> HIDE DEF complete, done, kept, ckpt
      <3>5. /\ kept.found /\ kept.ckpt = ckpt
            /\ kept.applied = dep.applied /\ kept.dyn = dep.dyn /\ kept.done = done
        BY <3>1
      <3>6. IndexSound(chain, A) /\ Reached(chain, A, dep.lo) /\ dep.lo \in Nat
        BY <1>1 DEF PassIndexed
      <3>7. CursorsOf(A, done)
        BY <1>1, <3>3 DEF PassIndexed, CursorsOf
      <3>8. SourcesSound(A, dep.dyn)
        BY <1>1 DEF FeedIndexed, SourcesSound
      <3>9. dep.dyn \subseteq Active(subs)
        BY <1>1 DEF FeedIndexed, Enrolled, Range, Active, Templates
      <3>10. Reached(chain, A, IF ckpt.complete THEN ckpt.to + 1 ELSE ckpt.from)
        <4>1. CASE complete
          BY <3>2, <3>4, <4>1
        <4>2. CASE ~complete
          BY <3>2, <3>6, <4>2
        <4> QED
          BY <4>1, <4>2
      <3> HIDE DEF A
      <3> QED
        BY <3>2, <3>5, <3>6, <3>7, <3>8, <3>9, <3>10 DEF SnapIndexed, A
    <2> QED
      BY <2>1, <2>2
  <1> HIDE DEF kept
  <1>6. SnapIndexed(chain', subs', snap')
    BY <1>1, <1>3, <1>5
  <1>7. /\ dep'.pc \in {"off", "register"}
        /\ dep'.pc = "register" => ~dep'.reset /\ snap'.found
    BY <1>3, <1>4, <1>5
  <1> QED
    BY <1>6, <1>7, RestIndexed

\* The chain-reader services, and the chain.
LEMMA OthersIndexed ==
  ASSUME IndexBefore, ~raced',
         (\E r \in Readers \ {Deployer} : ServiceReads(r)) \/ ChainGrows \/ UNCHANGED deployVars
  PROVE  IndexAfter
  <1>1. /\ GrowthInv /\ GrowthOnly /\ Moves /\ SoundBefore /\ Deployer \in Readers
        /\ Refreshed(subs, subs) /\ Active(subs) \subseteq Active(subs')
    <2>1. SoundBefore /\ Deployer \in Readers
      BY DeployConstants DEF IndexBefore
    <2>2. Refreshed(subs, subs)
      BY <2>1, IndexTypes DEF Refreshed
    <2> QED
      BY <2>1, <2>2 DEF SoundBefore, Moves, Active
  <1>2. ASSUME NEW r \in Readers \ {Deployer}, ServiceReads(r) PROVE IndexAfter
    <2>1. UNCHANGED <<dep, snap>> /\ ReaderStep(r)
      BY <1>2 DEF ServiceReads
    <2>2. chain' = chain /\ reader'[Deployer] = reader[Deployer]
      BY <1>1, <1>2, <2>1, ReaderMoves
    <2>3. CASE dep.pc = "off"
      <3>1. SnapIndexed(chain', subs', snap')
        BY <1>1, <2>1, <2>2, SameChain, SnapIndexStays
      <3> QED
        BY <2>1, <2>3, <3>1, RestIndexed
    <2>4. CASE dep.pc # "off"
      <3>1. subs' = subs /\ rawLogs' = rawLogs
        BY <1>1, <1>2, <2>4, ServiceQuiet
      <3>2. Refreshed(subs', subs)
        BY <1>1, <3>1
      <3> QED
        BY <2>1, <2>2, <3>1, <3>2, SameChain, QuietIndexed
    <2> QED
      BY <2>3, <2>4
  <1>3. CASE ChainGrows \/ UNCHANGED deployVars
    <2>1. UNCHANGED <<dep, snap, subs, rawLogs, reader>>
      BY <1>3 DEF ChainGrows, Mine, tables, deployVars, vars
    <2>2. Extends(chain', chain)
      BY <1>3 DEF ChainGrows, Mine, MineBlock, deployVars, vars, Extends
    <2>3. Refreshed(subs', subs)
      BY <1>1, <2>1
    <2> QED
      BY <2>1, <2>2, <2>3, QuietIndexed
  <1> QED
    BY <1>2, <1>3

(***************************************************************************)
(* The invariant.                                                           *)
(***************************************************************************)
\* The inductive strengthening of CompleteMeansIndexed.
IndexInv ==
    /\ OnceInv
    /\ ~raced => /\ ~lowered
                 /\ SnapIndexed(chain, subs, snap)
                 /\ ReadIndexed
                 /\ DepIndexed

\* A race stays one.
LEMMA RacedStays ==
  ASSUME [DeployNext]_deployVars, raced
  PROVE  raced'
  <1>1. CASE DeployStep
    BY <1>1 DEF DeployStep, StartDeploy, RegisterStatic, ReadFeed, RetryRead, LoadSnapshot,
                ChooseTarget, NoTarget, AskFeed, RunLog, RejectLog, StopRunning, FinishSync,
                DeployFails, aux
  <1>2. CASE ChainGrows \/ (\E r \in Readers \ {Deployer} : ServiceReads(r))
             \/ UNCHANGED deployVars
    BY <1>2 DEF ChainGrows, ServiceReads, aux, deployVars
  <1> QED
    BY <1>1, <1>2 DEF DeployNext

\* The invariant is inductive,
LEMMA IndexStep ==
  ASSUME GrowthOnly, FactoryDeploy, IndexInv, [DeployNext]_deployVars
  PROVE  IndexInv'
  <1>1. OnceInv /\ OnceInv'
    BY OnceStep DEF IndexInv
  <1>2. GrowthInv /\ GrowthInv' /\ TypeOK /\ TypeOK' /\ CursorsStarted
    BY <1>1 DEF OnceInv, GrowthInv
  <1>3. ASSUME ~raced' PROVE ~lowered' /\ IndexAfter
    <2>1. ~raced
      BY <1>3, RacedStays
    <2>2. /\ ~lowered /\ SnapIndexed(chain, subs, snap) /\ ReadIndexed /\ DepIndexed
      BY <2>1 DEF IndexInv
    <2>3. SoundBefore
      <3>1. Moves /\ CursorsStarted'
        BY <1>1, <1>2, FeedMoves DEF OnceInv
      <3> QED
        BY <1>1, <1>2, <2>2, <3>1 DEF OnceInv, SoundBefore
    <2>4. IndexBefore
      BY <2>2, <2>3 DEF IndexBefore
    <2>5. ~lowered'
      BY <1>3, <2>2, <2>4, NotLowered
    <2>6. IndexAfter
      BY <1>3, <2>4, OthersIndexed, StartDeployIndexed, RegisterStaticIndexed, ReadFeedIndexed,
         RetryReadIndexed, LoadSnapshotIndexed, ChooseTargetIndexed, AskFeedIndexed,
         RunLogIndexed, EndRunIndexed, FinishSyncIndexed, EndIndexed
         DEF DeployNext, DeployStep
    <2> QED
      BY <2>5, <2>6
  <1> QED
    BY <1>1, <1>3 DEF IndexInv, IndexAfter

\* and holds at first.
LEMMA IndexInit ==
  ASSUME GrowthOnly, DeployInit
  PROVE  IndexInv
  <1>1. OnceInv
    BY OnceInit
  <1>2. /\ dep = Off /\ snap = NoSnap /\ lowered = FALSE
    BY DEF DeployInit
  <1>3. dep.pc = "off"
    BY <1>2 DEF Off
  <1>4. SnapIndexed(chain, subs, snap)
    <2>1. Range(NoSnap.applied) = {}
      BY DEF NoSnap, Range
    <2> QED
      BY <1>2, <2>1 DEF NoSnap, SnapIndexed, IndexSound, SourcesSound, CursorsOf
  <1>5. ReadIndexed /\ DepIndexed
    BY <1>3 DEF ReadIndexed, DepIndexed
  <1> QED
    BY <1>1, <1>2, <1>4, <1>5 DEF IndexInv

(***************************************************************************)
(* What it means.                                                           *)
(***************************************************************************)
\* The logs of a chain up to a block.
LEMMA LogsUpTo ==
  ASSUME NEW c, Chained(c), NEW to \in Nat, to < Len(c)
  PROVE  /\ LogSet(AllLogs(c, to))
         /\ \A l : l \in AllLogs(c, to) <=> l \in LogsOf(c) /\ l.blk <= to
  <1>1. /\ LogSet(LogsOf(c)) /\ Len(c) \in Nat /\ c \in Seq(ChainBlocks) /\ DOMAIN c = 1 .. Len(c)
    BY OnChainFacts DEF Chained
  <1>2. ASSUME NEW l \in AllLogs(c, to) PROVE l \in LogsOf(c) /\ l.blk <= to
    <2>1. PICK b \in BlocksIn(c, 0, to) : l \in BlockLogs(c, b)
      BY <1>2 DEF AllLogs
    <2>2. PICK e \in c[b + 1].body : l = LogAt(c, b, e)
      BY <2>1 DEF BlockLogs
    <2>3. l.blk = b /\ l.ev = e /\ b \in 0 .. to /\ b + 1 \in DOMAIN c
      BY <2>1, <2>2 DEF LogAt, BlocksIn
    <2>4. l.blk \in Nat /\ l.blk + 1 \in DOMAIN c /\ l.ev \in c[l.blk + 1].body /\ l = LogAt(c, l.blk, l.ev)
      BY <2>2, <2>3
    <2> QED
      BY <2>3, <2>4, OnChainFacts
  <1>3. ASSUME NEW l \in LogsOf(c), l.blk <= to PROVE l \in AllLogs(c, to)
    <2>1. l.blk \in Nat /\ l.blk < Len(c) /\ l.ev \in c[l.blk + 1].body /\ l = LogAt(c, l.blk, l.ev)
      BY OnChainFacts
    <2>2. l.blk \in BlocksIn(c, 0, to)
      BY <1>1, <1>3, <2>1 DEF BlocksIn
    <2>3. l \in BlockLogs(c, l.blk)
      BY <2>1 DEF BlockLogs
    <2> QED
      BY <2>2, <2>3 DEF AllLogs
  <1>4. LogSet(AllLogs(c, to))
    <2>1. AllLogs(c, to) \subseteq LogsOf(c)
      BY <1>2
    <2>2. IsFiniteSet(AllLogs(c, to))
      BY <1>1, <2>1, FS_Subset DEF LogSet
    <2> QED
      BY <1>1, <2>1, <2>2 DEF LogSet
  <1> QED
    BY <1>2, <1>3, <1>4

\* The logs that are due are those of one uninterrupted pass.
LEMMA DueIsExpected ==
  ASSUME FactoryDeploy, NEW c, Chained(c), NEW to \in Nat, to < Len(c),
         NEW I, IsIndex(I, AllLogs(c, to), StaticPlan, 0)
  PROVE  \A l \in AllLogs(c, to) : l \in I <=> Due(c, l)
  <1> DEFINE S == AllLogs(c, to)
  <1>1. /\ LogSet(S) /\ LogSet(LogsOf(c)) /\ I \subseteq S
        /\ \A l : l \in S <=> l \in LogsOf(c) /\ l.blk <= to
        /\ \A l \in S : l \in I <=> Follows(I, l, StaticPlan, 0)
    BY LogsUpTo, OnChainFacts DEF IsIndex
  <1>2. \A l \in S : l.blk \in Nat
    BY <1>1 DEF LogSet
  <1> HIDE DEF S
  <1>3. \A s \in Static : SubFrom[s] \in Nat
    BY DeployConstants, FeedConstants DEF Static, Range
  <1>4. ASSUME NEW l \in S PROVE StaticLog(l, StaticPlan, 0) <=> Rooted(l)
    <2>1. ASSUME StaticLog(l, StaticPlan, 0) PROVE Rooted(l)
      <3>1. PICK p \in StaticPlan : p.addr = l.ev.addr /\ l.blk >= MaxOf(0, p.at)
        BY <2>1 DEF StaticLog
      <3>2. PICK s \in Static : p = [addr |-> SubAddr[s], at |-> SubFrom[s]]
        BY <3>1 DEF StaticPlan
      <3> QED
        BY <1>2, <1>3, <3>1, <3>2 DEF Rooted, MaxOf
    <2>2. ASSUME Rooted(l) PROVE StaticLog(l, StaticPlan, 0)
      <3>1. PICK s \in Static : SubAddr[s] = l.ev.addr /\ SubFrom[s] <= l.blk
        BY <2>2 DEF Rooted
      <3> DEFINE p == [addr |-> SubAddr[s], at |-> SubFrom[s]]
      <3>2. p \in StaticPlan /\ p.addr = l.ev.addr /\ l.blk >= MaxOf(0, p.at)
        BY <1>2, <1>3, <3>1 DEF StaticPlan, MaxOf
      <3> QED
        BY <3>2 DEF StaticLog
    <2> QED
      BY <2>1, <2>2
  <1>5. \A m \in I : m.ev.creates # {} => Rooted(m)
    <2> DEFINE X == {m \in I : m.ev.creates # {} /\ ~Rooted(m)}
    <2> SUFFICES ASSUME X # {} PROVE FALSE
      OBVIOUS
    <2>1. PICK m \in X : \A k \in X : ~Before(k, m)
      <3>1. X \in SUBSET S
        BY <1>1
      <3> HIDE DEF X
      <3> QED
        BY <1>1, <3>1, EarliestLog
    <2>2. m \in I /\ m \in S /\ m.ev.creates # {} /\ ~Rooted(m) /\ m \in LogsOf(c)
      BY <1>1, <2>1
    <2>3. PICK k \in I : Before(k, m) /\ m.ev.addr \in k.ev.creates
      BY <1>1, <1>4, <2>2 DEF Follows
    <2>4. Rooted(k) /\ k \in LogsOf(c)
      BY <1>1, <2>1, <2>3
    <2>5. PICK s \in Static : SubAddr[s] = k.ev.addr /\ SubFrom[s] <= k.blk
      BY <2>4 DEF Rooted
    <2>6. /\ k.ev \in c[k.blk + 1].body /\ c[k.blk + 1].body \in Contents /\ k.blk \in Blocks
          /\ m.ev \in c[m.blk + 1].body /\ c[m.blk + 1].body \in Contents
      BY <2>2, <2>4, OnChainFacts
    <2>7. \E t \in Templates : SubAddr[t] = m.ev.addr
      BY <2>3, <2>5, <2>6 DEF FactoryDeploy
    <2>8. \A t \in Templates : SubAddr[t] # m.ev.addr
      BY <2>2, <2>6 DEF FactoryDeploy
    <2> QED
      BY <2>7, <2>8
  <1>6. ASSUME NEW l \in I PROVE Due(c, l)
    <2>1. l \in S /\ Follows(I, l, StaticPlan, 0)
      BY <1>1
    <2>2. ASSUME NEW m \in I, Before(m, l), l.ev.addr \in m.ev.creates PROVE Due(c, l)
      <3>1. Rooted(m) /\ m \in LogsOf(c)
        BY <1>1, <1>5, <2>2
      <3> QED
        BY <2>2, <3>1 DEF Due
    <2> QED
      BY <1>4, <2>1, <2>2 DEF Follows, Due
  <1>7. ASSUME NEW l \in S, Rooted(l) PROVE l \in I
    BY <1>1, <1>4, <1>7 DEF Follows
  <1>8. ASSUME NEW l \in S, NEW m \in LogsOf(c), Rooted(m), Before(m, l), l.ev.addr \in m.ev.creates
        PROVE  l \in I
    <2>1. m \in S
      <3>1. m.blk \in Nat /\ l.blk \in Nat /\ l.blk <= to
        BY <1>1, <1>8 DEF LogSet
      <3> QED
        BY <1>1, <1>8, <3>1 DEF Before
    <2>2. m \in I
      BY <1>7, <1>8, <2>1
    <2> QED
      BY <1>1, <1>8, <2>2 DEF Follows
  <1> QED
    BY <1>6, <1>7, <1>8 DEF Due, S

\* The invariant says what a complete checkpoint means.
LEMMA IndexMeans ==
  ASSUME FactoryDeploy, IndexInv
  PROVE  CompleteMeansIndexed
  <1> SUFFICES ASSUME snap.found, snap.ckpt.complete, ~raced
               PROVE  IndexExact
    BY DEF CompleteMeansIndexed
  <1> DEFINE A == Range(snap.applied)
             to == snap.ckpt.to
             S == AllLogs(chain, to)
             I == Range(Expected)
  <1>1. /\ TypeOK /\ StoreSound(snap) /\ SnapIndexed(chain, subs, snap)
    BY DEF IndexInv, OnceInv, GrowthInv
  <1>2. Chained(chain)
    BY <1>1, ChainConstants DEF TypeOK, Chained
  <1>3. to \in Nat /\ to < Len(chain) /\ \A l \in A : l.blk <= to
    <2>1. to \in Blocks /\ to < Len(chain)
      BY <1>1 DEF StoreSound, TargetSound
    <2>2. \A l \in A : l.blk <= to
      BY <1>1 DEF StoreSound, NotAbove, Range
    <2> QED
      BY <2>1, <2>2 DEF Blocks
  <1>4. IndexSound(chain, A) /\ DueBelow(chain, A, to + 1)
    <2>1. Reached(chain, A, to + 1)
      BY <1>1 DEF SnapIndexed
    <2> QED
      BY <1>1, <1>2, <2>1, NothingMissing DEF SnapIndexed
  <1>5. /\ LogSet(S) /\ \A l : l \in S <=> l \in LogsOf(chain) /\ l.blk <= to
        /\ S = UNION {BlockLogs(chain, b) : b \in BlocksIn(chain, 0, to)}
    BY <1>2, <1>3, LogsUpTo DEF AllLogs
  <1>6. IsIndex(I, S, StaticPlan, 0)
    <2>1. Expected = Ideal(chain, StaticPlan, 0, to)
      BY DEF Expected
    <2> HIDE DEF S
    <2> QED
      BY <1>5, <2>1, IdealFacts DEF S
  <1>7. I \subseteq S /\ \A l \in S : l \in I <=> Due(chain, l)
    BY <1>2, <1>3, <1>6, DueIsExpected DEF IsIndex
  <1>8. EarlyLogs = {l \in S : \E m \in I : l.ev.addr \in m.ev.creates /\ l.blk = m.blk /\ Before(l, m)}
    BY <1>5 DEF EarlyLogs
  <1> HIDE DEF S, I, A, to
  <1>9. I \subseteq A
    <2> SUFFICES ASSUME NEW l \in I PROVE l \in A
      OBVIOUS
    <2>1. l \in LogsOf(chain) /\ l.blk <= to /\ Due(chain, l) /\ l.blk \in Nat
      BY <1>5, <1>7 DEF LogSet
    <2>2. l.blk < to + 1
      BY <1>3, <2>1
    <2> QED
      BY <1>4, <2>1, <2>2 DEF DueBelow
  <1>10. ASSUME NEW l \in A PROVE l \in I \cup EarlyLogs
    <2>1. l \in S
      BY <1>3, <1>4, <1>5 DEF IndexSound
    <2>2. CASE Rooted(l)
      BY <1>7, <2>1, <2>2 DEF Due
    <2>3. CASE ~Rooted(l)
      <3>1. PICK m \in A : Rooted(m) /\ m.blk <= l.blk /\ l.ev.addr \in m.ev.creates
        BY <1>4, <2>3 DEF IndexSound
      <3>2. m \in S /\ m \in I
        BY <1>3, <1>4, <1>5, <1>7, <3>1 DEF IndexSound, Due
      <3>3. m # l
        BY <2>3, <3>1
      <3>4. Before(m, l) \/ Before(l, m)
        BY <1>5, <2>1, <3>2, <3>3, LogOrder
      <3>5. CASE Before(m, l)
        <4>1. Due(chain, l)
          BY <1>5, <3>1, <3>2, <3>5 DEF Due
        <4> QED
          BY <1>7, <2>1, <4>1
      <3>6. CASE Before(l, m)
        <4>1. l.blk = m.blk
          BY <1>5, <2>1, <3>1, <3>2, <3>6 DEF Before, LogSet
        <4> QED
          BY <1>8, <2>1, <3>1, <3>2, <3>6, <4>1
      <3> QED
        BY <3>4, <3>5, <3>6
    <2> QED
      BY <2>2, <2>3
  <1> QED
    BY <1>9, <1>10 DEF IndexExact, I, A

\* A deployment whose checkpoint says complete has executed every log of its static
\* sources and of every source their logs created, up to the checkpoint block, and no
\* other, whatever passes, failed scans, crashes and repeated deploys came before, as
\* long as no chain-reader service wrote to the feed while a deploy ran.
THEOREM CompleteIsIndexed ==
  ASSUME GrowthOnly, FactoryDeploy
  PROVE  DeploySpec => []CompleteMeansIndexed
  <1>1. DeployInit => IndexInv
    BY IndexInit
  <1>2. IndexInv /\ [DeployNext]_deployVars => IndexInv'
    BY IndexStep
  <1>3. IndexInv => CompleteMeansIndexed
    BY IndexMeans
  <1> QED
    BY <1>1, <1>2, <1>3, PTL DEF DeploySpec

(***************************************************************************)
(* Enough passes.  A pass that leaves a source to backfill has found a      *)
(* template contract that no earlier pass knew, so there are not more of    *)
(* them than template contracts; the last one has nothing left to backfill   *)
(* and, with no --limit in its way, nothing left to run.                    *)
(***************************************************************************)
Addresses(sources) == {SubAddr[s] : s \in sources}

\* The passes so far each found a contract that was not known before.
PassCounted(pass, known) == pass \in Nat /\ pass <= Cardinality(Addresses(known)) + 1

\* A sync pass: what it adds, what it still has to backfill, and how it ends.
RunCounted(d) ==
    /\ PassCounted(d.pass, d.prev.dyn)
    /\ d.prev.ckpt.errors \in Nat /\ d.errors \in Nat /\ d.executed \in Nat
    /\ d.pc # "finish" => d.errors = 0 /\ d.executed <= Len(d.applied)
    /\ d.pc = "finish" /\ d.errors = 0 => Unprocessed(d.pending, d.done) = {}
    /\ \A t \in d.dyn : t \in d.prev.dyn \/ SubAddr[t] \notin Addresses(d.prev.dyn)
    /\ d.backfill => \E t \in d.dyn : SubAddr[t] \notin Addresses(d.prev.dyn)

Counted(d, x) ==
    /\ x.ckpt.errors \in Nat
    /\ d.outcome = "failed" => d.pc = "off" /\ (EnoughPasses => x.ckpt.errors > 0)
    /\ d.pc \in {"register", "read", "load"} =>
          PassCounted(d.pass, IF d.reset THEN {} ELSE x.dyn)
    /\ d.pc \in {"target", "feed", "finish"} => RunCounted(d)

CountBefore == IndexBefore /\ RoomyDeploy /\ Counted(dep, snap)

\* More sources have more addresses, and one with an address of its own has one more.
LEMMA AddressesGrow ==
  ASSUME NEW S \in SUBSET Subs, NEW T \in SUBSET Subs, S \subseteq T
  PROVE  /\ Cardinality(Addresses(S)) \in Nat /\ Cardinality(Addresses(T)) \in Nat
         /\ Cardinality(Addresses(S)) <= Cardinality(Addresses(T))
         /\ (\E t \in T : SubAddr[t] \notin Addresses(S)) =>
               Cardinality(Addresses(S)) + 1 <= Cardinality(Addresses(T))
  <1>1. ASSUME NEW U \in SUBSET Subs
        PROVE  IsFiniteSet(Addresses(U)) /\ Cardinality(Addresses(U)) \in Nat
    <2> DEFINE f == [s \in U |-> SubAddr[s]]
    <2>1. IsFiniteSet(U)
      BY FS_Subset, DeployConstants
    <2>2. f \in [U -> Addresses(U)] /\ \A a \in Addresses(U) : \E s \in U : f[s] = a
      BY DEF Addresses
    <2>3. f \in Surjection(U, Addresses(U))
      <3> HIDE DEF f
      <3> QED
        BY <2>2 DEF Surjection
    <2> HIDE DEF f
    <2>4. IsFiniteSet(Addresses(U))
      BY <2>1, <2>3, FS_Surjection
    <2> QED
      BY <2>4, FS_CardinalityType
  <1>2. Addresses(S) \subseteq Addresses(T)
    BY DEF Addresses
  <1>3. Cardinality(Addresses(S)) <= Cardinality(Addresses(T))
    BY <1>1, <1>2, FS_Subset
  <1>4. ASSUME NEW t \in T, SubAddr[t] \notin Addresses(S)
        PROVE  Cardinality(Addresses(S)) + 1 <= Cardinality(Addresses(T))
    <2> DEFINE more == Addresses(S) \cup {SubAddr[t]}
    <2>1. IsFiniteSet(more) /\ Cardinality(more) = Cardinality(Addresses(S)) + 1
      BY <1>1, <1>4, FS_AddElement
    <2>2. more \subseteq Addresses(T)
      BY <1>2 DEF Addresses
    <2> HIDE DEF more
    <2>3. Cardinality(more) <= Cardinality(Addresses(T))
      BY <1>1, <2>2, FS_Subset
    <2> QED
      BY <2>1, <2>3
  <1> QED
    BY <1>1, <1>3, <1>4

\* A pass that has not executed a log has room for it.
LEMMA RoomLeft ==
  ASSUME CountBefore, dep.pc = "feed", dep.queue = <<>>,
         NEW log \in NextUnprocessedLogs(dep.pending, dep.done)
  PROVE  Runnable(log)
  <1> DEFINE n == Len(dep.applied)
             places == Blocks \X EventIndices
             all == [i \in 1 .. n + 1 |-> IF i = n + 1 THEN log ELSE dep.applied[i]]
             f == [i \in 1 .. n + 1 |-> <<all[i].blk, all[i].ev.idx>>]
  <1>1. /\ PassSound(dep) /\ PassIndexed(chain, subs, dep) /\ RunCounted(dep) /\ SoundBefore
        /\ Chained(chain) /\ Limit \in Nat
    BY PassLocals, IndexTypes, DeployConstants
       DEF CountBefore, IndexBefore, DepIndexed, Counted
  <1>2. /\ dep.applied \in Seq(Logs) /\ IsInjective(dep.applied)
        /\ n \in Nat /\ DOMAIN dep.applied = 1 .. n
    <2>1. dep.applied \in Seq(Logs) /\ IsInjective(dep.applied)
      BY <1>1 DEF PassSound, StoreType
    <2> QED
      BY <2>1
  <1>3. log \in LogsOf(chain) /\ log \notin Range(dep.applied)
    BY RunLogNext DEF CountBefore, Accounted
  <1>4. \A i \in 1 .. n : dep.applied[i] \in LogsOf(chain) /\ dep.applied[i] # log
    BY <1>1, <1>2, <1>3 DEF PassIndexed, IndexSound, Range
  <1>5. \A i, j \in 1 .. n : dep.applied[i] = dep.applied[j] => i = j
    BY <1>2 DEF IsInjective
  <1>6. /\ \A i \in 1 .. n + 1 : all[i] \in LogsOf(chain)
        /\ \A i, j \in 1 .. n + 1 : all[i] = all[j] => i = j
    BY <1>2, <1>3, <1>4, <1>5
  <1> HIDE DEF all
  <1>7. \A l \in LogsOf(chain) : l.blk \in Blocks /\ l.ev.idx \in EventIndices
    BY <1>1, OnChainFacts DEF EventIndices
  <1>8. LogSet(LogsOf(chain))
    BY <1>1, OnChainFacts
  <1>9. f \in [1 .. n + 1 -> places] /\ \A i, j \in 1 .. n + 1 : f[i] = f[j] => i = j
    BY <1>6, <1>7, <1>8 DEF LogSet
  <1>10. f \in Injection(1 .. n + 1, places)
    <2> HIDE DEF f
    <2> QED
      BY <1>9 DEF Injection, IsInjective
  <1>11. IsFiniteSet(places) /\ Cardinality(places) <= Limit /\ Cardinality(places) \in Nat
    <2>1. IsFiniteSet(Blocks)
      BY FS_Interval, ChainConstants DEF Blocks
    <2>2. IsFiniteSet(places)
      BY <2>1, FS_Product DEF CountBefore, RoomyDeploy
    <2> QED
      BY <2>2, FS_CardinalityType DEF CountBefore, RoomyDeploy
  <1> HIDE DEF f, places
  <1>12. n + 1 <= Cardinality(places)
    <2>1. Cardinality(1 .. n + 1) = n + 1
      BY <1>2, FS_Interval
    <2>2. Cardinality(1 .. n + 1) <= Cardinality(places)
      BY <1>10, <1>11, FS_Injection
    <2> QED
      BY <2>1, <2>2
  <1>13. dep.executed \in Nat /\ dep.executed <= n
    BY <1>1 DEF RunCounted
  <1> HIDE DEF n
  <1> QED
    BY <1>1, <1>2, <1>11, <1>12, <1>13 DEF Runnable, LimitReached

\* A pass that runs out of logs has processed them all.
LEMMA NothingPending ==
  ASSUME CountBefore, dep.pc = "feed", dep.queue = <<>>,
         NextUnprocessedLogs(dep.pending, dep.done) = {}
  PROVE  Unprocessed(dep.pending, dep.done) = {}
  <1> DEFINE U == Unprocessed(dep.pending, dep.done)
  <1>1. LogSet(LogsOf(chain)) /\ FeedIndexed(chain, rawLogs, subs, dep)
    BY IndexTypes DEF CountBefore, IndexBefore, DepIndexed
  <1>2. U \in SUBSET LogsOf(chain)
    BY <1>1 DEF Unprocessed, FeedIndexed, Accounted
  <1>3. ~\E l \in U : \A m \in U : ~Before(m, l)
    BY DEF NextUnprocessedLogs
  <1> HIDE DEF U
  <1>4. U = {}
    BY <1>1, <1>2, <1>3, EarliestLog
  <1> QED
    BY <1>4 DEF U

\* The known sources of a pass are followed ones.
LEMMA KnownSources ==
  ASSUME CountBefore
  PROVE  /\ DOMAIN dep = DOMAIN Off \/ dep.pc = "off"
         /\ snap.dyn \in SUBSET Subs
         /\ dep.pc \in {"target", "feed", "finish"} =>
               /\ dep.prev.dyn \in SUBSET Subs /\ dep.dyn \in SUBSET Subs
               /\ dep.prev.dyn \subseteq dep.dyn /\ dep.dyn \subseteq Templates
         /\ dep.pc # "off" => dep.outcome # "failed"
         /\ dep.pc \in {"target", "feed", "finish"} => RunCounted(dep)
  <1>1. snap.dyn \in SUBSET Subs
    BY DEF CountBefore, IndexBefore, SnapIndexed, Active
  <1>2. ASSUME dep.pc \in {"target", "feed", "finish"}
        PROVE  /\ dep.prev.dyn \in SUBSET Subs /\ dep.dyn \in SUBSET Subs
               /\ dep.prev.dyn \subseteq dep.dyn /\ dep.dyn \subseteq Templates
    <2>1. dep.prev.dyn \in SUBSET Subs
      BY <1>2 DEF CountBefore, IndexBefore, DepIndexed, PassIndexed, SnapIndexed, Active
    <2>2. dep.prev.dyn \subseteq dep.dyn /\ dep.dyn \subseteq Templates
      BY <1>2 DEF CountBefore, IndexBefore, DepIndexed, TargetIndexed, SourcesSound, FeedIndexed
    <2>3. dep.dyn \in SUBSET Subs
      BY <2>2 DEF Templates
    <2> QED
      BY <2>1, <2>2, <2>3
  <1> QED
    BY <1>1, <1>2 DEF CountBefore, Counted, IndexBefore, SoundBefore, DepSound

\* The first pass of a command, and the registration and scan of any.
LEMMA ReadCounted ==
  ASSUME CountBefore, StartDeploy \/ RegisterStatic \/ ReadFeed \/ NoTarget \/ DeployFails
  PROVE  Counted(dep', snap')
  <1>1. snap' = snap /\ snap.ckpt.errors \in Nat
    BY DEF StartDeploy, RegisterStatic, ReadFeed, NoTarget, DeployFails, CountBefore, Counted
  <1>2. CASE StartDeploy
    <2>1. PICK f \in FromArgs, r \in ResetArgs :
            dep' = [Off EXCEPT !.pc = "register", !.cli = f, !.from = f, !.reset = r, !.pass = 1]
      BY <1>2 DEF StartDeploy, SetDep
    <2>2. dep'.pc = "register" /\ dep'.pass = 1 /\ dep'.outcome = "none"
      BY <2>1 DEF Off
    <2> DEFINE known == IF dep'.reset THEN {} ELSE snap.dyn
    <2>3. known \in SUBSET Subs
      BY KnownSources
    <2> HIDE DEF known
    <2>4. Cardinality(Addresses(known)) \in Nat
      BY <2>3, AddressesGrow
    <2>5. PassCounted(1, known)
      BY <2>4 DEF PassCounted
    <2> QED
      BY <1>1, <2>2, <2>5 DEF Counted, known
  <1>3. CASE RegisterStatic \/ ReadFeed
    <2>1. /\ dep.pc \in {"register", "read"} /\ DOMAIN dep = DOMAIN Off /\ dep.outcome # "failed"
      BY <1>3, KnownSources DEF RegisterStatic, ReadFeed
    <2>2. \/ dep' = [dep EXCEPT !.pc = "read"] \/ dep' = [dep EXCEPT !.pc = "load"] \/ dep' = dep
      BY <1>3 DEF RegisterStatic, ReadFeed, SetDep
    <2>3. /\ dep'.pc \in {"read", "load"} \/ dep'.pc = dep.pc
          /\ dep'.pass = dep.pass /\ dep'.reset = dep.reset /\ dep'.outcome = dep.outcome
      BY <2>1, <2>2 DEF Off
    <2>4. PassCounted(dep.pass, IF dep.reset THEN {} ELSE snap.dyn)
      BY <2>1 DEF CountBefore, Counted
    <2> QED
      BY <1>1, <2>1, <2>3, <2>4 DEF Counted
  <1>4. CASE NoTarget \/ DeployFails
    <2>1. \/ dep' = [Off EXCEPT !.outcome = "no_cursor"] \/ dep' = [Off EXCEPT !.outcome = "error"]
      BY <1>4 DEF NoTarget, DeployFails, SetDep
    <2>2. dep'.pc = "off" /\ dep'.outcome # "failed"
      BY <2>1 DEF Off
    <2> QED
      BY <1>1, <2>2 DEF Counted
  <1> QED
    BY <1>2, <1>3, <1>4

\* A pass begins with the sources it knows and nothing executed.
LEMMA LoadCounted ==
  ASSUME CountBefore, LoadSnapshot
  PROVE  Counted(dep', snap')
  <1> DEFINE x == IF dep.reset THEN NoSnap ELSE snap
  <1>1. /\ DOMAIN dep = DOMAIN Off /\ dep.pc = "load" /\ dep.outcome # "failed"
        /\ snap' = snap /\ snap.ckpt.errors \in Nat /\ SoundBefore
    BY KnownSources DEF LoadSnapshot, CountBefore, Counted, IndexBefore
  <1>2. dep' = [dep EXCEPT !.pc = "target", !.prev = x,
                           !.lo = SyncStartBlock(dep.from, x.found, x.ckpt),
                           !.applied = x.applied, !.dyn = x.dyn, !.done = ProcessedLogs(x),
                           !.pending = {}, !.backfill = FALSE, !.executed = 0,
                           !.last = NoBlock, !.errors = 0]
    BY DEF LoadSnapshot, SetDep
  <1>3. x.ckpt.errors \in Nat /\ PassCounted(dep.pass, x.dyn) /\ Len(x.applied) \in Nat
    <2>1. PassCounted(dep.pass, IF dep.reset THEN {} ELSE snap.dyn)
      BY <1>1 DEF CountBefore, Counted
    <2>2. NoSnap.ckpt.errors = 0 /\ NoSnap.dyn = {} /\ NoSnap.applied = <<>>
      BY DEF NoSnap, NoCkpt
    <2>3. snap.applied \in Seq(Logs)
      BY <1>1 DEF SoundBefore, StoreSound, StoreType
    <2>4. CASE dep.reset
      <3>1. x = NoSnap
        BY <2>4
      <3>2. x.ckpt.errors \in Nat /\ Len(x.applied) \in Nat
        BY <2>2, <3>1
      <3>3. PassCounted(dep.pass, {})
        BY <2>1, <2>4
      <3>4. PassCounted(dep.pass, x.dyn)
        BY <2>2, <3>1, <3>3
      <3> QED
        BY <3>2, <3>4
    <2>5. CASE ~dep.reset
      <3>1. x = snap
        BY <2>5
      <3> HIDE DEF x
      <3> QED
        BY <1>1, <2>1, <2>3, <2>5, <3>1
    <2> QED
      BY <2>4, <2>5
  <1> HIDE DEF x
  <1>4. /\ dep'.pc = "target" /\ dep'.prev = x /\ dep'.applied = x.applied /\ dep'.dyn = x.dyn
        /\ dep'.backfill = FALSE /\ dep'.executed = 0 /\ dep'.errors = 0
        /\ dep'.pass = dep.pass /\ dep'.outcome = dep.outcome
    BY <1>1, <1>2 DEF Off
  <1>5. RunCounted(dep')
    BY <1>3, <1>4 DEF RunCounted
  <1> QED
    BY <1>1, <1>4, <1>5 DEF Counted

\* A statement finds a source behind only if no earlier pass knew its address: the
\* command's own scan has brought the others to the target.
LEMMA FeedCounted ==
  ASSUME CountBefore, ChooseTarget \/ AskFeed
  PROVE  Counted(dep', snap')
  <1>1. /\ DOMAIN dep = DOMAIN Off /\ dep.pc \in {"target", "feed"} /\ dep.outcome # "failed"
        /\ snap' = snap /\ snap.ckpt.errors \in Nat /\ RunCounted(dep)
    BY KnownSources DEF ChooseTarget, AskFeed, CountBefore, Counted, IndexBefore, SoundBefore, DepSound
  <1> DEFINE q == Head(dep.queue)
             rest == Tail(dep.queue)
             more == {l \in LoadFeedSourceReport(q.sub, q.from, dep.to) : Before(q.after, l)}
             behind == ~FeedSourceCaughtUp(q.sub, dep.to)
             queue == StaticQueue(dep.lo) \o DynamicQueue(dep.dyn, dep.lo, FirstKey)
  <1>2. \/ dep' = [dep EXCEPT !.pc = "feed", !.to = LatestFeedBlock, !.queue = queue]
        \/ AskFeed /\ dep' = [dep EXCEPT !.queue = rest]
        \/ AskFeed /\ dep' = [[dep EXCEPT !.queue = rest] EXCEPT !.pending = @ \cup more]
        \/ AskFeed /\ dep' = [[dep EXCEPT !.queue = rest] EXCEPT !.backfill = @ \/ behind]
    BY DEF ChooseTarget, AskFeed, SetDep
  <1>3. ASSUME AskFeed, behind PROVE \E t \in dep.dyn : SubAddr[t] \notin Addresses(dep.prev.dyn)
    <2>1. /\ dep.pc = "feed" /\ dep.queue # <<>> /\ SoundBefore
          /\ PassIndexed(chain, subs, dep) /\ FeedIndexed(chain, rawLogs, subs, dep)
          /\ PassSound(dep)
      BY <1>3, PassLocals DEF AskFeed, CountBefore, IndexBefore, DepIndexed
    <2>2. q.sub \in Static \cup dep.dyn
      <3>1. IsList(dep.queue)
        BY <2>1 DEF PassSound, QueueSound, IsList
      <3>2. q \in Range(dep.queue)
        BY <2>1, <3>1, RangeTaken
      <3> QED
        BY <2>1, <3>2 DEF FeedIndexed
    <2>3. dep.to \in Int /\ \E s \in Subs : SubFrom[s] <= dep.to
      BY <2>1 DEF PassSound, TargetSound, Started, Active, Blocks
    <2>4. ASSUME q.sub \in Static PROVE SubFrom[q.sub] <= dep.to
      <3>1. PICK s \in Subs : SubFrom[s] <= dep.to
        BY <2>3
      <3>2. SubFrom[q.sub] <= SubFrom[s] /\ SubFrom[q.sub] \in Nat /\ SubFrom[s] \in Nat
        BY <2>1, <2>4, IndexTypes DEF CountBefore, RoomyDeploy
      <3> HIDE DEF q
      <3> QED
        BY <2>3, <3>1, <3>2
    <2>5. ASSUME q.sub \in dep.prev.dyn PROVE SubFrom[q.sub] <= dep.to
      <3>1. q.sub \in dep.dyn
        BY <2>1, <2>5 DEF FeedIndexed
      <3>2. PICK m \in Range(dep.applied) : SubFrom[q.sub] = m.blk
        BY <2>1, <3>1 DEF FeedIndexed, Creator
      <3>3. m.blk <= dep.to
        BY <2>1, <3>2 DEF PassSound, NotAbove, Range
      <3> QED
        BY <3>2, <3>3
    <2>6. q.sub \notin Static \cup dep.prev.dyn
      <3> SUFFICES ASSUME q.sub \in Static \cup dep.prev.dyn PROVE FALSE
        OBVIOUS
      <3>1. SubFrom[q.sub] <= dep.to
        BY <2>4, <2>5
      <3>2. subs[q.sub].active /\ subs[q.sub].cursor >= dep.to
        BY <2>1, <3>1 DEF FeedIndexed, CaughtUp
      <3> QED
        BY <1>3, <3>2 DEF FeedSourceCaughtUp
    <2>7. q.sub \in dep.dyn /\ q.sub \notin dep.prev.dyn
      BY <2>2, <2>6
    <2> HIDE DEF q
    <2> QED
      BY <1>1, <2>7 DEF RunCounted
  <1> HIDE DEF q, rest, more, behind, queue
  <1>4. /\ dep'.pc = "feed" /\ dep'.prev = dep.prev /\ dep'.applied = dep.applied
        /\ dep'.dyn = dep.dyn /\ dep'.executed = dep.executed /\ dep'.errors = dep.errors
        /\ dep'.pass = dep.pass /\ dep'.outcome = dep.outcome
    <2>1. AskFeed => dep.pc = "feed"
      BY DEF AskFeed
    <2>2. dep'.pc = "feed"
      BY <1>1, <1>2, <2>1 DEF Off
    <2> QED
      BY <1>1, <1>2, <2>2 DEF Off
  <1>5. dep'.backfill => \E t \in dep.dyn : SubAddr[t] \notin Addresses(dep.prev.dyn)
    <2> DEFINE new == \E t \in dep.dyn : SubAddr[t] \notin Addresses(dep.prev.dyn)
    <2>1. dep.backfill => new
      BY <1>1 DEF RunCounted
    <2>2. AskFeed /\ behind => new
      BY <1>3
    <2>3. dep'.backfill = dep.backfill \/ (AskFeed /\ dep'.backfill = (dep.backfill \/ behind))
      BY <1>1, <1>2 DEF Off
    <2> HIDE DEF new
    <2>4. dep'.backfill => new
      BY <2>1, <2>2, <2>3, Zenon
    <2> QED
      BY <2>4 DEF new
  <1>6. RunCounted(dep')
    BY <1>1, <1>4, <1>5 DEF RunCounted
  <1> QED
    BY <1>1, <1>4, <1>6 DEF Counted

\* A log's new sources have addresses of their own.
LEMMA RunCountedLog ==
  ASSUME CountBefore, RunLog
  PROVE  Counted(dep', snap')
  <1>1. /\ DOMAIN dep = DOMAIN Off /\ dep.pc = "feed" /\ dep.outcome # "failed"
        /\ snap' = snap /\ snap.ckpt.errors \in Nat /\ RunCounted(dep)
        /\ dep.applied \in Seq(Logs) /\ dep.prev.dyn \subseteq dep.dyn
    <2>1. dep.pc = "feed" /\ SoundBefore
      BY DEF RunLog, CountBefore, IndexBefore
    <2>2. dep.applied \in Seq(Logs)
      BY <2>1, PassLocals DEF PassSound, StoreType
    <2>3. snap' = snap /\ snap.ckpt.errors \in Nat
      BY DEF RunLog, CountBefore, Counted
    <2> QED
      BY <2>1, <2>2, <2>3, KnownSources
  <1>2. PICK log \in NextUnprocessedLogs(dep.pending, dep.done) :
          dep' = [dep EXCEPT !.applied = Append(@, log), !.done = @ \cup {LogId(log)},
                             !.dyn = @ \cup CreatedSources(log),
                             !.queue = DynamicQueue(CreatedSources(log), log.blk, log),
                             !.executed = @ + 1, !.last = log.blk]
    BY DEF RunLog, SetDep
  <1> DEFINE new == CreatedSources(log)
             queue == DynamicQueue(new, log.blk, log)
             done == dep.done \cup {LogId(log)}
             applied == Append(dep.applied, log)
             dyn == dep.dyn \cup new
  <1>3. \A t \in new : \A u \in dep.dyn : SubAddr[u] # SubAddr[t]
    BY DEF CreatedSources
  <1>4. Len(applied) = Len(dep.applied) + 1 /\ Len(dep.applied) \in Nat
    BY <1>1
  <1>5. dep' = [dep EXCEPT !.applied = applied, !.done = done, !.dyn = dyn, !.queue = queue,
                           !.executed = @ + 1, !.last = log.blk]
    BY <1>2
  <1> HIDE DEF new, queue, done, applied, dyn
  <1>6. /\ dep'.pc = "feed" /\ dep'.prev = dep.prev /\ dep'.applied = applied /\ dep'.dyn = dyn
        /\ dep'.executed = dep.executed + 1 /\ dep'.errors = dep.errors
        /\ dep'.pass = dep.pass /\ dep'.outcome = dep.outcome /\ dep'.backfill = dep.backfill
    BY <1>1, <1>5 DEF Off
  <1>7. /\ \A t \in dyn : t \in dep.prev.dyn \/ SubAddr[t] \notin Addresses(dep.prev.dyn)
        /\ dep.dyn \subseteq dyn
    BY <1>1, <1>3 DEF RunCounted, Addresses, dyn
  <1>8. RunCounted(dep')
    BY <1>1, <1>4, <1>6, <1>7 DEF RunCounted
  <1> QED
    BY <1>1, <1>6, <1>8 DEF Counted

\* A run without errors ends when every log is processed.
LEMMA EndCounted ==
  ASSUME CountBefore, RejectLog \/ StopRunning
  PROVE  Counted(dep', snap')
  <1>1. /\ DOMAIN dep = DOMAIN Off /\ dep.pc = "feed" /\ dep.queue = <<>> /\ dep.outcome # "failed"
        /\ snap' = snap /\ snap.ckpt.errors \in Nat /\ RunCounted(dep)
    <2>1. /\ dep.pc = "feed" /\ dep.queue = <<>> /\ SoundBefore
          /\ snap' = snap /\ snap.ckpt.errors \in Nat
      BY DEF RejectLog, StopRunning, CountBefore, Counted, IndexBefore
    <2> QED
      BY <2>1, KnownSources
  <1>2. \/ dep' = [dep EXCEPT !.pc = "finish", !.executed = @ + 1, !.errors = @ + 1]
        \/ StopRunning /\ dep' = [dep EXCEPT !.pc = "finish"]
    BY DEF RejectLog, StopRunning, SetDep
  <1>3. StopRunning => Unprocessed(dep.pending, dep.done) = {}
    <2> SUFFICES ASSUME StopRunning PROVE Unprocessed(dep.pending, dep.done) = {}
      OBVIOUS
    <2>1. \A log \in NextUnprocessedLogs(dep.pending, dep.done) : ~Runnable(log)
      BY DEF StopRunning
    <2>2. NextUnprocessedLogs(dep.pending, dep.done) = {}
      BY <1>1, <2>1, RoomLeft
    <2> QED
      BY <1>1, <2>2, NothingPending
  <1>4. /\ dep'.pc = "finish" /\ dep'.prev = dep.prev /\ dep'.applied = dep.applied
        /\ dep'.dyn = dep.dyn /\ dep'.pass = dep.pass /\ dep'.outcome = dep.outcome
        /\ dep'.backfill = dep.backfill /\ dep'.pending = dep.pending /\ dep'.done = dep.done
    BY <1>1, <1>2 DEF Off
  <1>5. /\ dep'.errors \in Nat /\ dep'.executed \in Nat
        /\ dep'.errors = 0 => Unprocessed(dep.pending, dep.done) = {}
    <2>1. dep.errors = 0 /\ dep.executed \in Nat
      BY <1>1 DEF RunCounted
    <2>2. CASE dep' = [dep EXCEPT !.pc = "finish", !.executed = @ + 1, !.errors = @ + 1]
      BY <1>1, <2>1, <2>2 DEF Off
    <2>3. CASE StopRunning /\ dep' = [dep EXCEPT !.pc = "finish"]
      <3>1. dep'.errors = dep.errors /\ dep'.executed = dep.executed
        BY <1>1, <2>3 DEF Off
      <3> QED
        BY <1>3, <2>1, <2>3, <3>1
    <2> QED
      BY <1>2, <2>2, <2>3
  <1>6. RunCounted(dep')
    BY <1>1, <1>4, <1>5 DEF RunCounted
  <1> QED
    BY <1>1, <1>4, <1>6 DEF Counted

\* An incomplete pass without errors has found a contract; the command goes on, and
\* with enough passes it does not stop there.
LEMMA FinishCounted ==
  ASSUME CountBefore, FinishSync
  PROVE  Counted(dep', snap')
  <1>1. /\ dep.pc = "finish" /\ RunCounted(dep) /\ SoundBefore
        /\ dep.prev.dyn \in SUBSET Subs /\ dep.dyn \in SUBSET Subs
        /\ dep.prev.dyn \subseteq dep.dyn /\ dep.dyn \subseteq Templates
        /\ Templates \in SUBSET Subs /\ MaxPasses \in Nat
    <2>1. dep.pc = "finish"
      BY DEF FinishSync
    <2> QED
      BY <2>1, KnownSources, DeployConstants DEF CountBefore, IndexBefore, Templates
  <1>2. PICK rpc \in RpcHashes(dep.to) :
          /\ snap' = SyncedSnapshot(TargetHash(rpc))
          /\ dep' = IF /\ DeployShouldContinue(SyncedSnapshot(TargetHash(rpc)))
                       /\ dep.pass < MaxPasses
                    THEN [Off EXCEPT !.pc = "register", !.cli = dep.cli, !.pass = dep.pass + 1]
                    ELSE [Off EXCEPT !.outcome = Outcome(SyncedSnapshot(TargetHash(rpc)))]
    BY DEF FinishSync, SetDep
  <1> DEFINE kept == SyncedSnapshot(TargetHash(rpc))
             again == DeployShouldContinue(kept) /\ dep.pass < MaxPasses
             next == [Off EXCEPT !.pc = "register", !.cli = dep.cli, !.pass = dep.pass + 1]
             ended == [Off EXCEPT !.outcome = Outcome(kept)]
  <1>3. snap' = kept /\ dep' = IF again THEN next ELSE ended
    BY <1>2
  <1>4. /\ next.pc = "register" /\ next.pass = dep.pass + 1 /\ next.reset = FALSE
        /\ next.outcome = "none" /\ ended.pc = "off" /\ ended.outcome = Outcome(kept)
    BY DEF Off
  <1> HIDE DEF next, ended
  <1>5. /\ kept.ckpt.errors \in Nat
        /\ DeployShouldContinue(kept) => PassCounted(dep.pass + 1, kept.dyn) /\ kept.dyn = dep.dyn
    <2>1. CASE /\ dep.prev.found
               /\ ShouldKeepPrevious(dep.prev.ckpt, dep.lo, dep.to, ReplayComplete,
                                     dep.executed, dep.errors, NoBlock)
      <3>1. kept = dep.prev /\ dep.prev.ckpt.complete
        BY <2>1 DEF SyncedSnapshot, ShouldKeepPrevious
      <3> QED
        BY <1>1, <3>1 DEF RunCounted, DeployShouldContinue
    <2>2. CASE ~(/\ dep.prev.found
                 /\ ShouldKeepPrevious(dep.prev.ckpt, dep.lo, dep.to, ReplayComplete,
                                       dep.executed, dep.errors, NoBlock))
      <3> DEFINE complete == ReplayComplete
                 done == IF complete THEN {} ELSE dep.done
                 hash == TargetHash(rpc)
                 ckpt == [from |-> dep.lo, to |-> dep.to, hash |-> hash,
                          complete |-> complete, errors |-> dep.errors]
      <3>1. kept = [found |-> TRUE, ckpt |-> ckpt,
                    applied |-> dep.applied, dyn |-> dep.dyn, done |-> done]
        BY <2>2, Zenon DEF SyncedSnapshot
      <3>2. ckpt.errors = dep.errors /\ (ckpt.complete <=> complete)
        OBVIOUS
      <3>3. ~complete /\ Unprocessed(dep.pending, dep.done) = {} => dep.backfill
        BY DEF ReplayComplete
      <3> HIDE DEF complete, done, hash, kept, ckpt
      <3>4. kept.ckpt = ckpt /\ kept.dyn = dep.dyn
        BY <3>1
      <3>5. kept.ckpt.errors = dep.errors /\ dep.errors \in Nat
        BY <1>1, <3>2, <3>4 DEF RunCounted
      <3>6. ASSUME DeployShouldContinue(kept) PROVE PassCounted(dep.pass + 1, dep.dyn)
        <4>1. dep.errors = 0 /\ ~complete
          BY <3>2, <3>4, <3>5, <3>6 DEF DeployShouldContinue
        <4>2. dep.backfill
          BY <1>1, <3>3, <4>1 DEF RunCounted
        <4>3. \E t \in dep.dyn : SubAddr[t] \notin Addresses(dep.prev.dyn)
          BY <1>1, <4>2 DEF RunCounted
        <4>4. /\ Cardinality(Addresses(dep.prev.dyn)) \in Nat /\ Cardinality(Addresses(dep.dyn)) \in Nat
              /\ Cardinality(Addresses(dep.prev.dyn)) + 1 <= Cardinality(Addresses(dep.dyn))
          BY <1>1, <4>3, AddressesGrow
        <4>5. dep.pass \in Nat /\ dep.pass <= Cardinality(Addresses(dep.prev.dyn)) + 1
          BY <1>1 DEF RunCounted, PassCounted
        <4> QED
          BY <4>4, <4>5 DEF PassCounted
      <3> QED
        BY <3>4, <3>5, <3>6
    <2> QED
      BY <2>1, <2>2
  <1>6. EnoughPasses /\ DeployShouldContinue(kept) => dep.pass < MaxPasses
    <2> SUFFICES ASSUME EnoughPasses, DeployShouldContinue(kept) PROVE dep.pass < MaxPasses
      OBVIOUS
    <2>1. dep.pass + 1 <= Cardinality(Addresses(dep.dyn)) + 1 /\ dep.pass \in Nat
      BY <1>1, <1>5 DEF PassCounted, RunCounted
    <2>2. /\ Cardinality(Addresses(dep.dyn)) \in Nat /\ Cardinality(Addresses(Templates)) \in Nat
          /\ Cardinality(Addresses(dep.dyn)) <= Cardinality(Addresses(Templates))
      BY <1>1, AddressesGrow
    <2>3. MaxPasses > Cardinality(Addresses(Templates))
      BY DEF EnoughPasses, Addresses
    <2> QED
      BY <1>1, <2>1, <2>2, <2>3
  <1> HIDE DEF kept
  <1>7. Outcome(kept) = "failed" => kept.ckpt.errors # 0 \/ DeployShouldContinue(kept)
    BY DEF Outcome, DeployShouldContinue
  <1>8. CASE again
    <2>1. dep' = next /\ PassCounted(next.pass, kept.dyn)
      BY <1>3, <1>4, <1>5, <1>8
    <2> QED
      BY <1>3, <1>4, <1>5, <2>1 DEF Counted
  <1>9. CASE ~again
    <2>1. dep' = ended
      BY <1>3, <1>9
    <2>2. EnoughPasses /\ Outcome(kept) = "failed" => kept.ckpt.errors > 0
      BY <1>5, <1>6, <1>7, <1>9
    <2> QED
      BY <1>3, <1>4, <1>5, <2>1, <2>2 DEF Counted
  <1> QED
    BY <1>8, <1>9

\* The inductive strengthening of DeployCompletes.
CountInv == IndexInv /\ (~raced => Counted(dep, snap))

\* CountInv is inductive.
LEMMA CountStep ==
  ASSUME GrowthOnly, FactoryDeploy, RoomyDeploy, CountInv, [DeployNext]_deployVars
  PROVE  CountInv'
  <1>1. IndexInv /\ IndexInv'
    BY IndexStep DEF CountInv
  <1>2. ASSUME ~raced' PROVE Counted(dep', snap')
    <2>1. ~raced
      BY <1>2, RacedStays
    <2>2. /\ ~lowered /\ SnapIndexed(chain, subs, snap) /\ ReadIndexed /\ DepIndexed
          /\ OnceInv /\ OnceInv' /\ Counted(dep, snap)
      BY <1>1, <2>1 DEF CountInv, IndexInv
    <2>3. GrowthInv /\ GrowthInv' /\ TypeOK /\ TypeOK' /\ CursorsStarted
      BY <2>2 DEF OnceInv, GrowthInv
    <2>4. Moves
      BY <2>3, FeedMoves
    <2>5. CountBefore
      BY <2>2, <2>3, <2>4 DEF OnceInv, SoundBefore, IndexBefore, CountBefore
    <2>6. CASE UNCHANGED <<dep, snap>>
      BY <2>2, <2>6
    <2>7. \/ UNCHANGED <<dep, snap>> \/ StartDeploy \/ RegisterStatic \/ ReadFeed
          \/ LoadSnapshot \/ ChooseTarget \/ NoTarget \/ AskFeed
          \/ RunLog \/ RejectLog \/ StopRunning \/ FinishSync \/ DeployFails
      BY DEF DeployNext, DeployStep, RetryRead, ServiceReads, ChainGrows, deployVars
    <2> QED
      BY <2>5, <2>6, <2>7, ReadCounted, LoadCounted, FeedCounted, RunCountedLog, EndCounted,
         FinishCounted
  <1> QED
    BY <1>1, <1>2 DEF CountInv

\* A deploy that no chain-reader service disturbs, with a pass for every template
\* contract and one more, ends complete unless a handler's entities do not validate,
\* whatever failed and was cut before.
THEOREM EnoughPassesComplete ==
  ASSUME GrowthOnly, FactoryDeploy, RoomyDeploy
  PROVE  DeploySpec => []DeployCompletes
  <1>1. DeployInit => CountInv
    <2> SUFFICES ASSUME DeployInit PROVE CountInv
      OBVIOUS
    <2>1. IndexInv
      BY IndexInit
    <2>2. dep = Off /\ snap = NoSnap
      BY DEF DeployInit
    <2>3. Counted(Off, NoSnap)
      BY DEF Counted, Off, NoSnap, NoCkpt
    <2> QED
      BY <2>1, <2>2, <2>3 DEF CountInv
  <1>2. CountInv /\ [DeployNext]_deployVars => CountInv'
    BY CountStep
  <1>3. CountInv => DeployCompletes
    BY DEF CountInv, Counted, DeployCompletes
  <1> QED
    BY <1>1, <1>2, <1>3, PTL DEF DeploySpec
=============================================================================
