-------------------------- MODULE ChainFeedProofs --------------------------
(***************************************************************************)
(* Proofs about ChainFeed for every set of readers, subscriptions, topics   *)
(* and block bodies and every bound.                                        *)
(***************************************************************************)
EXTENDS ChainFeed, TLAPS

USE DEF NoBlock, NoHash

(***************************************************************************)
(* Type correctness.                                                        *)
(***************************************************************************)
\* A function on 1 .. n is a sequence of length n.
LEMMA FunctionIsSeq ==
  ASSUME NEW S, NEW n \in Nat, NEW f \in [1 .. n -> S]
  PROVE  f \in Seq(S) /\ Len(f) = n
  <1>1. f = [i \in 1 .. n |-> f[i]] /\ \A i \in 1 .. n : f[i] \in S
    OBVIOUS
  <1>2. [i \in 1 .. n |-> f[i]] \in Seq(S) /\ Len([i \in 1 .. n |-> f[i]]) = n
    BY <1>1
  <1> QED
    BY <1>1, <1>2

LEMMA IdleType == Idle \in ReaderStates /\ Idle.pc = "idle"
  <1>1. NoRow \in Rows
    BY DEF NoRow, Rows, Cursors, Hashes
  <1>2. [s \in Subs |-> NoRow] \in [Subs -> Rows]
    BY <1>1
  <1> QED
    BY <1>2 DEF Idle, ReaderStates, Cursors, Hashes

\* What an RPC answers for a block is a hash.
LEMMA RpcHashType ==
  ASSUME chain \in Seq(ChainBlocks), NEW b \in Int, NEW h \in RpcHashes(b)
  PROVE  h \in Hashes
  <1>1. CASE b + 1 \in DOMAIN chain
    <2>0. chain[b + 1] \in ChainBlocks
      BY <1>1
    <2>1. chain[b + 1].fork \in Nat
      BY <2>0 DEF ChainBlocks
    <2> QED
      BY <1>1, <2>1 DEF RpcHashes, Hashes
  <1>2. CASE b + 1 \notin DOMAIN chain
    BY <1>2 DEF RpcHashes, Hashes
  <1> QED
    BY <1>1, <1>2

\* What a scan returns is a set of logs.
LEMMA ScanType ==
  ASSUME chain \in Seq(ChainBlocks), NEW s \in Subs, NEW topics,
         NEW lo \in Nat, NEW hi \in Int
  PROVE  ScanRawLogs(s, topics, lo, hi) \in SUBSET Logs
  <1> SUFFICES ASSUME NEW b \in BlocksIn(chain, lo, hi), NEW e \in chain[b + 1].body
               PROVE  LogAt(chain, b, e) \in Logs
    BY DEF ScanRawLogs, GetLogs, BlockLogs
  <1>1. b \in Nat /\ b + 1 \in DOMAIN chain
    BY DEF BlocksIn
  <1>2. chain[b + 1] \in ChainBlocks
    BY <1>1
  <1> QED
    BY <1>1, <1>2 DEF LogAt, Logs, ChainBlocks

LEMMA InitType == Init => TypeOK
  <1> SUFFICES ASSUME Init PROVE TypeOK
    OBVIOUS
  <1> USE ChainConstants
  <1>1. chain \in Seq(ChainBlocks) /\ Len(chain) \in 1 .. MaxHead + 1
    BY DEF Init, ChainInit, ChainBlocks
  <1>2. forks \in Nat /\ reorgs \in Nat /\ faults \in Nat
    BY DEF Init, ChainInit
  <1>3. subs \in [Subs -> Rows]
    BY DEF Init, NoRow, Rows, Cursors, Hashes
  <1>4. rawBlocks \in [Blocks -> Hashes]
    BY DEF Init, Hashes
  <1>5. /\ reader \in [Readers -> ReaderStates]
        /\ \A r \in Readers : reader[r].pc # "write"
    BY IdleType DEF Init
  <1> QED
    BY <1>1, <1>2, <1>3, <1>4, <1>5 DEF TypeOK, Init

\* The chain keeps its type whether it grows or reorganises.
LEMMA ChainType ==
  ASSUME TypeOK, MineBlock \/ ReplaceBlocks
  PROVE  /\ chain' \in Seq(ChainBlocks) /\ Len(chain') \in 1 .. MaxHead + 1
         /\ forks' \in Nat /\ reorgs' \in Nat
  <1> USE ChainConstants
  <1>1. CASE MineBlock
    <2>1. PICK body \in Contents : chain' = Append(chain, [fork |-> forks, body |-> body])
      BY <1>1 DEF MineBlock
    <2>2. [fork |-> forks, body |-> body] \in ChainBlocks
      BY DEF TypeOK, ChainBlocks
    <2> QED
      BY <1>1, <2>1, <2>2 DEF MineBlock, TypeOK, HeadBlock
  <1>2. CASE ReplaceBlocks
    <2>1. PICK d \in 1 .. MaxReorgDepth :
            /\ d <= Len(chain)
            /\ \E bodies \in [1 .. d -> Contents] :
                  chain' = [b \in 1 .. Len(chain) |->
                              IF b <= Len(chain) - d THEN chain[b]
                              ELSE [fork |-> forks + (b - (Len(chain) - d)) - 1,
                                    body |-> bodies[b - (Len(chain) - d)]]]
            /\ forks' = forks + d
      BY <1>2 DEF ReplaceBlocks
    <2>2. PICK bodies \in [1 .. d -> Contents] :
            chain' = [b \in 1 .. Len(chain) |->
                        IF b <= Len(chain) - d THEN chain[b]
                        ELSE [fork |-> forks + (b - (Len(chain) - d)) - 1,
                              body |-> bodies[b - (Len(chain) - d)]]]
      BY <2>1
    <2>3. ASSUME NEW b \in 1 .. Len(chain) PROVE chain'[b] \in ChainBlocks
      <3>1. CASE b <= Len(chain) - d
        <4>1. chain'[b] = chain[b]
          BY <2>2, <3>1
        <4> QED
          BY <4>1 DEF TypeOK
      <3>2. CASE ~(b <= Len(chain) - d)
        <4>1. b - (Len(chain) - d) \in 1 .. d
          BY <2>1, <3>2 DEF TypeOK
        <4>2. chain'[b] = [fork |-> forks + (b - (Len(chain) - d)) - 1,
                           body |-> bodies[b - (Len(chain) - d)]]
          BY <2>2, <3>2
        <4>3. forks + (b - (Len(chain) - d)) - 1 \in Nat
          BY <4>1 DEF TypeOK
        <4> QED
          BY <4>1, <4>2, <4>3 DEF ChainBlocks
      <3> QED
        BY <3>1, <3>2
    <2>4. chain' \in Seq(ChainBlocks) /\ Len(chain') = Len(chain)
      <3>1. chain' \in [1 .. Len(chain) -> ChainBlocks]
        BY <2>2, <2>3
      <3>2. Len(chain) \in Nat
        BY DEF TypeOK
      <3> QED
        BY <3>1, <3>2, FunctionIsSeq
    <2> QED
      BY <1>2, <2>1, <2>4 DEF ReplaceBlocks, TypeOK
  <1> QED
    BY <1>1, <1>2

\* The types of what a step of a reader leaves alone.
TablesOK ==
    /\ subs \in [Subs -> Rows]
    /\ rawLogs \in SUBSET Logs
    /\ rawBlocks \in [Blocks -> Hashes]

LEMMA RollbackType ==
  ASSUME TypeOK, NEW b \in Blocks, RollbackFeedChain(b)
  PROVE  TablesOK'
  <1> USE ChainConstants DEF TypeOK
  <1>1. rawLogs' \in SUBSET Logs
    BY DEF RollbackFeedChain
  <1>2. rawBlocks' \in [Blocks -> Hashes]
    BY DEF RollbackFeedChain, Hashes
  <1>3. (IF b = 0 THEN NoBlock ELSE b - 1) \in Cursors
    BY DEF Blocks, Cursors
  <1>4. (IF b = 0 THEN NoHash ELSE rawBlocks[b - 1]) \in Hashes
    BY DEF Blocks, Hashes
  <1>5. ASSUME NEW s \in Subs PROVE subs'[s] \in Rows
    BY <1>3, <1>4 DEF RollbackFeedChain, Rows
  <1>6. subs' \in [Subs -> Rows]
    BY <1>5 DEF RollbackFeedChain
  <1> QED
    BY <1>1, <1>2, <1>6 DEF TablesOK

\* Only the locals of the stepping reader change.
LEMMA SetReaderType ==
  ASSUME TypeOK, NEW r \in Readers, NEW locals \in ReaderStates, SetReader(r, locals),
         locals.pc = "write" => locals.sub \in Subs
  PROVE  /\ reader' \in [Readers -> ReaderStates]
         /\ \A q \in Readers : reader'[q].pc = "write" => reader'[q].sub \in Subs
  <1>1. reader' = [reader EXCEPT ![r] = locals] /\ reader \in [Readers -> ReaderStates]
    BY DEF SetReader, TypeOK
  <1>2. \A q \in Readers : reader'[q] = IF q = r THEN locals ELSE reader[q]
    BY <1>1
  <1> QED
    BY <1>1, <1>2 DEF TypeOK

\* A reader's step keeps its locals and the tables typed.
LEMMA ReaderType ==
  ASSUME TypeOK, NEW r \in Readers, ReaderStep(r) \/ ReaderFail(r)
  PROVE  /\ TablesOK'
         /\ reader' \in [Readers -> ReaderStates]
         /\ \A q \in Readers : reader'[q].pc = "write" => reader'[q].sub \in Subs
         /\ faults' \in Nat
  <1> USE FeedConstants, ChainConstants
  <1>0. reader[r] \in ReaderStates /\ faults \in Nat
    BY DEF TypeOK
  <1>t. UNCHANGED tables => TablesOK'
    BY DEF TypeOK, TablesOK, tables
  <1>s. Active(subs) \in SUBSET Subs /\ Active(reader[r].rows) \in SUBSET Subs
    BY DEF Active
  <1>1. CASE ReaderStart(r)
    <2>1. PICK f \in ReaderFroms, t \in ReaderTos :
            SetReader(r, [reader[r] EXCEPT !.pc = "hash", !.from = f,
                            !.to = IF t # NoBlock THEN t ELSE HeadBlock])
      BY <1>1 DEF ReaderStart
    <2>2. (IF t # NoBlock THEN t ELSE HeadBlock) \in Cursors
      BY DEF TypeOK, HeadBlock, Blocks, Cursors
    <2> DEFINE x == [reader[r] EXCEPT !.pc = "hash", !.from = f,
                       !.to = IF t # NoBlock THEN t ELSE HeadBlock]
    <2>3. x \in ReaderStates /\ x.pc = "hash"
      BY <1>0, <2>2 DEF ReaderStates
    <2> QED
      BY <1>0, <1>1, <1>t, <2>1, <2>3, SetReaderType DEF ReaderStart
  <1>2. CASE ReaderHash(r)
    <2>1. PICK h \in RpcHashes(reader[r].to) :
            SetReader(r, [reader[r] EXCEPT !.pc = "list", !.hash = h])
      BY <1>2 DEF ReaderHash
    <2>2. reader[r].to \in Int
      BY <1>0 DEF ReaderStates, Cursors, Blocks
    <2>3. h \in Hashes
      BY <2>2, RpcHashType DEF TypeOK
    <2> DEFINE x == [reader[r] EXCEPT !.pc = "list", !.hash = h]
    <2>4. x \in ReaderStates /\ x.pc = "list"
      BY <1>0, <2>3 DEF ReaderStates
    <2> QED
      BY <1>0, <1>2, <1>t, <2>1, <2>4, SetReaderType DEF ReaderHash
  <1>3. CASE ReaderList(r)
    <2> DEFINE cursors == {subs[s].cursor : s \in Hashed(subs)}
               x == [reader[r] EXCEPT !.pc = "probe", !.rows = subs, !.blocks = cursors]
    <2>1. cursors \in SUBSET Blocks
      BY DEF TypeOK, Hashed, Active, Rows, Cursors
    <2> HIDE DEF cursors
    <2>2. x \in ReaderStates /\ x.pc = "probe"
      BY <1>0, <2>1 DEF ReaderStates, TypeOK
    <2>3. SetReader(r, x)
      BY <1>3 DEF ReaderList, cursors
    <2> QED
      BY <1>0, <1>3, <1>t, <2>2, <2>3, SetReaderType DEF ReaderList
  <1>4. CASE ReaderProbe(r)
    <2>0. PICK b \in reader[r].blocks :
            \E min \in {b, reader[r].min} :
              SetReader(r, [reader[r] EXCEPT !.blocks = @ \ {b}, !.min = min])
      BY <1>4 DEF ReaderProbe, LowestMismatch
    <2>1. PICK min \in {b, reader[r].min} :
            SetReader(r, [reader[r] EXCEPT !.blocks = @ \ {b}, !.min = min])
      BY <2>0
    <2>2. min \in Cursors /\ reader[r].blocks \ {b} \in SUBSET Blocks
      BY <1>0 DEF ReaderStates, Cursors
    <2> DEFINE x == [reader[r] EXCEPT !.blocks = @ \ {b}, !.min = min]
    <2>3. x \in ReaderStates /\ x.pc = "probe"
      BY <1>0, <1>4, <2>2 DEF ReaderStates, ReaderProbe
    <2> QED
      BY <1>0, <1>4, <1>t, <2>1, <2>3, SetReaderType DEF ReaderProbe
  <1>5. CASE ReaderClean(r)
    <2> DEFINE x == [reader[r] EXCEPT !.pc = "scan", !.todo = Active(reader[r].rows)]
    <2>1. x \in ReaderStates /\ x.pc = "scan"
      BY <1>0, <1>s DEF ReaderStates
    <2> QED
      BY <1>0, <1>5, <1>t, <2>1, SetReaderType DEF ReaderClean
  <1>6. CASE ReaderRollback(r)
    <2> DEFINE x == [reader[r] EXCEPT !.pc = "relist"]
    <2>1. reader[r].min \in Blocks
      BY <1>0, <1>6 DEF ReaderRollback, ReaderStates, Cursors
    <2>2. TablesOK'
      BY <1>6, <2>1, RollbackType DEF ReaderRollback
    <2>3. x \in ReaderStates /\ x.pc = "relist"
      BY <1>0 DEF ReaderStates
    <2> QED
      BY <1>0, <1>6, <2>2, <2>3, SetReaderType DEF ReaderRollback
  <1>7. CASE ReaderRelist(r)
    <2> DEFINE x == [reader[r] EXCEPT !.pc = "scan", !.rows = subs, !.todo = Active(subs)]
    <2>1. x \in ReaderStates /\ x.pc = "scan"
      BY <1>0, <1>s DEF ReaderStates, TypeOK
    <2> QED
      BY <1>0, <1>7, <1>t, <2>1, SetReaderType DEF ReaderRelist
  <1>8. CASE ReaderSkip(r)
    <2>1. PICK s \in reader[r].todo : SetReader(r, [reader[r] EXCEPT !.todo = @ \ {s}])
      BY <1>8 DEF ReaderSkip
    <2> DEFINE x == [reader[r] EXCEPT !.todo = @ \ {s}]
    <2>2. x \in ReaderStates /\ x.pc = "scan"
      BY <1>0, <1>8 DEF ReaderStates, ReaderSkip
    <2> QED
      BY <1>0, <1>8, <1>t, <2>1, <2>2, SetReaderType DEF ReaderSkip
  <1>9. CASE ReaderScan(r)
    <2> DEFINE row(s) == reader[r].rows[s]
               lo(s) == ScanFrom(s, row(s), reader[r].from)
               found(s) == ScanRawLogs(s, row(s).topics, lo(s), reader[r].to)
    <2>1. PICK s \in reader[r].todo :
            SetReader(r, [reader[r] EXCEPT !.pc = "write", !.sub = s, !.logs = found(s)])
      BY <1>9 DEF ReaderScan
    <2>2. s \in Subs /\ row(s) \in Rows /\ reader[r].to \in Int
      BY <1>0 DEF ReaderStates, Cursors, Blocks
    <2>3. lo(s) \in Nat
      BY <1>0, <2>2 DEF ScanFrom, MaxOf, ReaderStates, Rows, Cursors, Blocks
    <2>4. found(s) \in SUBSET Logs
      BY <2>2, <2>3, ScanType DEF TypeOK
    <2> HIDE DEF found
    <2> DEFINE x == [reader[r] EXCEPT !.pc = "write", !.sub = s, !.logs = found(s)]
    <2>5. x \in ReaderStates /\ x.sub \in Subs
      BY <1>0, <2>2, <2>4 DEF ReaderStates
    <2> QED
      BY <1>0, <1>9, <1>t, <2>1, <2>5, SetReaderType DEF ReaderScan
  <1>10. CASE ReaderWrite(r)
    <2>1. reader[r].sub \in Subs
      BY <1>10 DEF ReaderWrite, TypeOK
    <2>2. rawLogs' \in SUBSET Logs
      BY <1>0, <1>10 DEF ReaderWrite, InsertLogs, TypeOK, ReaderStates
    <2>3. rawBlocks' \in [Blocks -> Hashes]
      BY <1>0, <1>10 DEF ReaderWrite, TypeOK, ReaderStates
    <2> DEFINE row == [subs[reader[r].sub] EXCEPT !.cursor = reader[r].to,
                                                  !.hash = reader[r].hash]
    <2>4. row \in Rows
      <3>1. subs[reader[r].sub] \in Rows
        BY <2>1 DEF TypeOK
      <3>2. reader[r].to \in Cursors /\ reader[r].hash \in Hashes
        BY <1>0 DEF ReaderStates
      <3> QED
        BY <3>1, <3>2 DEF Rows
    <2>5. subs' = [subs EXCEPT ![reader[r].sub] = row]
      BY <1>10 DEF ReaderWrite
    <2>6. subs' \in [Subs -> Rows]
      BY <2>4, <2>5 DEF TypeOK
    <2> DEFINE x == [reader[r] EXCEPT !.pc = "scan", !.logs = {},
                                      !.todo = @ \ {reader[r].sub}]
    <2>7. x \in ReaderStates /\ x.pc = "scan"
      BY <1>0 DEF ReaderStates
    <2>8. SetReader(r, x) /\ UNCHANGED faults
      BY <1>10 DEF ReaderWrite
    <2> QED
      BY <1>0, <2>2, <2>3, <2>6, <2>7, <2>8, SetReaderType DEF TablesOK
  <1>11. CASE ReaderDone(r)
    BY <1>0, <1>11, <1>t, IdleType, SetReaderType DEF ReaderDone
  <1>12. CASE ReaderFail(r)
    BY <1>0, <1>12, <1>t, IdleType, SetReaderType DEF ReaderFail
  <1> QED
    BY <1>1, <1>2, <1>3, <1>4, <1>5, <1>6, <1>7, <1>8, <1>9, <1>10, <1>11, <1>12
       DEF ReaderStep

LEMMA NextType == TypeOK /\ [Next]_vars => TypeOK'
  <1> SUFFICES ASSUME TypeOK, [Next]_vars PROVE TypeOK'
    OBVIOUS
  <1>1. CASE Mine \/ Reorg
    BY <1>1, ChainType DEF Mine, Reorg, TypeOK, tables
  <1>2. CASE Register
    <2>1. PICK p \in Registrations :
            subs' = [subs EXCEPT ![p.sub] =
                       [@ EXCEPT !.active = TRUE, !.topics = p.topics]]
      BY <1>2 DEF Register
    <2>2. p.sub \in Subs /\ p.topics \in SUBSET Topics
      BY FeedConstants DEF Topics
    <2>3. subs' \in [Subs -> Rows]
      BY <2>1, <2>2 DEF TypeOK, Rows
    <2> QED
      BY <1>2, <2>3 DEF Register, TypeOK, chainVars
  <1>3. ASSUME NEW r \in Readers, ReaderStep(r) \/ ReaderFail(r) PROVE TypeOK'
    <2>1. UNCHANGED chainVars
      BY <1>3 DEF ReaderStep, ReaderFail, ReaderStart, ReaderHash, ReaderList,
         ReaderProbe, ReaderClean, ReaderRollback, ReaderRelist, ReaderSkip,
         ReaderScan, ReaderWrite, ReaderDone
    <2> QED
      BY <1>3, <2>1, ReaderType DEF TypeOK, TablesOK, chainVars
  <1>4. CASE UNCHANGED vars
    BY <1>4 DEF vars, TypeOK
  <1> QED
    BY <1>1, <1>2, <1>3, <1>4 DEF Next

\* Type correctness: for any number of readers and subscriptions, with
\* reorgs, faults and missing hashes, the feed tables and the locals of every
\* chain-reader stay well typed.
THEOREM TypeCorrect == Spec => []TypeOK
  BY InitType, NextType, PTL DEF Spec

(***************************************************************************)
(* A chain that only grows: readers may race, miss hashes, fail and restart *)
(* as they like, and no subscription ever loses or gains a log.             *)
(***************************************************************************)
\* The feed of a sound row is exact.
LEMMA GrowthImpliesExact == GrowthInv => FeedCertifiesLogs
  <1> SUFFICES ASSUME GrowthInv, NEW s \in Subs,
                      IsCanonical(subs[s].cursor, subs[s].hash)
               PROVE  {l \in rawLogs : Matches(s, subs[s].topics, l)
                                       /\ l.blk \in SubFrom[s] .. subs[s].cursor}
                        = ScanRawLogs(s, subs[s].topics, SubFrom[s], subs[s].cursor)
    BY DEF FeedCertifiesLogs
  <1> DEFINE lo == SubFrom[s]
             hi == subs[s].cursor
             topics == subs[s].topics
             Feed == {l \in rawLogs : Matches(s, topics, l) /\ l.blk \in lo .. hi}
  <1>1. lo \in Nat /\ hi \in Int /\ hi < Len(chain) /\ chain \in Seq(ChainBlocks)
    <2>1. subs[s] \in Rows /\ RowSound(s, subs[s]) /\ chain \in Seq(ChainBlocks)
      BY DEF GrowthInv, TypeOK
    <2>2. subs[s].cursor \in Cursors
      BY <2>1 DEF Rows
    <2>3. subs[s].cursor \in Int
      BY <2>2, ChainConstants DEF Cursors, Blocks
    <2> QED
      BY <2>1, <2>3, FeedConstants DEF RowSound
  <1>2. ASSUME NEW l \in Feed PROVE l \in ScanRawLogs(s, topics, lo, hi)
    <2>1. Emitted(l) /\ Matches(s, topics, l) /\ l.blk \in lo .. hi
      BY DEF GrowthInv
    <2>2. l.blk \in BlocksIn(chain, lo, hi) /\ l \in BlockLogs(chain, l.blk)
      BY <2>1 DEF Emitted, BlocksIn, BlockLogs
    <2> QED
      BY <2>1, <2>2 DEF ScanRawLogs, GetLogs, Matches
  <1>3. ASSUME NEW l \in ScanRawLogs(s, topics, lo, hi) PROVE l \in Feed
    <2>1. PICK b \in BlocksIn(chain, lo, hi) :
            /\ l \in BlockLogs(chain, b)
            /\ l.ev.addr = SubAddr[s]
            /\ l.ev.topic \in topics
      BY DEF ScanRawLogs, GetLogs
    <2>2. PICK e \in chain[b + 1].body : l = LogAt(chain, b, e)
      BY <2>1 DEF BlockLogs
    <2>3. l.blk = b /\ l.ev = e
      BY <2>2 DEF LogAt
    <2>4. b \in lo .. hi
      BY DEF BlocksIn
    <2>5. l \in rawLogs
      BY <2>1, <2>2, <2>3, <2>4 DEF GrowthInv, RowSound, Covers
    <2> QED
      BY <2>1, <2>3, <2>4, <2>5 DEF Matches
  <1> QED
    BY <1>2, <1>3

LEMMA IdleSound ==
  ASSUME TypeOK, NEW s \in Subs
  PROVE  RowSound(s, NoRow)
  <1>1. SubFrom[s] .. -1 = {}
    BY FeedConstants
  <1> QED
    BY <1>1 DEF RowSound, NoRow, HashSound, Covers, TypeOK

LEMMA IdleLocals ==
  ASSUME TypeOK
  PROVE  ReaderSound(Idle)
  <1>1. \A s \in Subs : Idle.rows[s] = NoRow /\ RowSound(s, NoRow)
    BY IdleSound DEF Idle
  <1> QED
    BY <1>1 DEF ReaderSound, Idle, NoRow, HashSound, TypeOK, Active

LEMMA InitGrowth == Init => GrowthInv
  <1> SUFFICES ASSUME Init PROVE GrowthInv
    OBVIOUS
  <1>1. TypeOK
    BY InitType
  <1>2. \A s \in Subs : RowSound(s, NoRow)
    BY <1>1, IdleSound
  <1>3. ASSUME NEW r \in Readers PROVE ReaderSound(reader[r])
    BY <1>1, IdleLocals DEF Init
  <1> QED
    BY <1>1, <1>2, <1>3 DEF GrowthInv, Init

\* What a step on a growing chain may do: append blocks, insert logs, and
\* activate subscriptions.
Grows ==
    /\ Len(chain) <= Len(chain')
    /\ \A b \in 0 .. Len(chain) - 1 : chain'[b + 1] = chain[b + 1]
    /\ rawLogs \subseteq rawLogs'
    /\ \A s \in Subs : subs[s].active => subs'[s].active

LEMMA BlockKept ==
  ASSUME TypeOK, TypeOK', Grows, NEW b \in 0 .. Len(chain) - 1
  PROVE  chain'[b + 1] = chain[b + 1] /\ b + 1 \in DOMAIN chain'
  <1>1. chain \in Seq(ChainBlocks) /\ chain' \in Seq(ChainBlocks)
    BY DEF TypeOK
  <1>2. b + 1 \in DOMAIN chain'
    BY <1>1 DEF Grows
  <1> QED
    BY <1>2 DEF Grows

LEMMA EmittedKept ==
  ASSUME TypeOK, TypeOK', Grows, NEW l \in Logs, Emitted(l)
  PROVE  Emitted(l)'
  <1>1. l.blk \in Nat /\ l.blk \in 0 .. Len(chain) - 1
    BY DEF Logs, Emitted, TypeOK
  <1>2. chain'[l.blk + 1] = chain[l.blk + 1] /\ l.blk + 1 \in DOMAIN chain'
    BY <1>1, BlockKept
  <1> QED
    BY <1>2 DEF Emitted, LogAt

LEMMA CoversKept ==
  ASSUME TypeOK, Grows, NEW s \in Subs, NEW topics, NEW hi \in Int, hi < Len(chain),
         NEW logs, NEW more, logs \subseteq more, Covers(logs, s, topics, hi)
  PROVE  Covers(more, s, topics, hi)'
  <1> SUFFICES ASSUME NEW b \in SubFrom[s] .. hi, NEW e \in chain'[b + 1].body,
                      e.addr = SubAddr[s], e.topic \in topics
               PROVE  LogAt(chain', b, e) \in more
    BY DEF Covers
  <1>1. b \in 0 .. Len(chain) - 1
    BY FeedConstants DEF TypeOK
  <1>2. chain'[b + 1] = chain[b + 1]
    BY <1>1 DEF Grows
  <1>3. LogAt(chain, b, e) \in logs
    BY <1>2 DEF Covers
  <1> QED
    BY <1>2, <1>3 DEF LogAt

LEMMA HashKept ==
  ASSUME TypeOK, TypeOK', Grows, NEW b \in Cursors, NEW hash, HashSound(b, hash)
  PROVE  HashSound(b, hash)'
  <1> SUFFICES ASSUME hash # NoHash PROVE IsCanonical(b, hash)'
    BY DEF HashSound
  <1>1. b + 1 \in DOMAIN chain /\ chain[b + 1].fork = hash
    BY DEF HashSound, IsCanonical
  <1>2. b \in 0 .. Len(chain) - 1
    BY <1>1, ChainConstants DEF TypeOK, Cursors, Blocks
  <1>3. chain'[b + 1] = chain[b + 1] /\ b + 1 \in DOMAIN chain'
    BY <1>2, BlockKept
  <1> QED
    BY <1>1, <1>3 DEF IsCanonical

LEMMA RowKept ==
  ASSUME TypeOK, TypeOK', Grows, NEW s \in Subs, NEW row \in Rows, RowSound(s, row)
  PROVE  RowSound(s, row)'
  <1>1. row.cursor \in Cursors /\ row.cursor \in Int
    BY ChainConstants DEF Rows, Cursors, Blocks
  <1>2. HashSound(row.cursor, row.hash)'
    BY <1>1, HashKept DEF RowSound
  <1>3. Covers(rawLogs, s, row.topics, row.cursor)'
    BY <1>1, CoversKept DEF RowSound, Grows
  <1>4. row.cursor < Len(chain')
    BY <1>1 DEF RowSound, Grows, TypeOK
  <1> QED
    BY <1>2, <1>3, <1>4 DEF RowSound

LEMMA LocalsKept ==
  ASSUME TypeOK, TypeOK', Grows, NEW x \in ReaderStates, ReaderSound(x)
  PROVE  ReaderSound(x)'
  <1>0. /\ x.to \in Cursors /\ x.to \in Int
        /\ x.rows \in [Subs -> Rows]
        /\ x.logs \in SUBSET Logs
    BY ChainConstants DEF ReaderStates, Cursors, Blocks
  <1>1. x.to < Len(chain')
    BY <1>0 DEF ReaderSound, Grows, TypeOK
  <1>2. HashSound(x.to, x.hash)'
    BY <1>0, HashKept DEF ReaderSound
  <1>3. ASSUME NEW s \in Subs
        PROVE  RowSound(s, x.rows[s])' /\ (x.rows[s].active => subs'[s].active)
    <2>1. x.rows[s] \in Rows /\ RowSound(s, x.rows[s])
      BY <1>0 DEF ReaderSound
    <2>2. RowSound(s, x.rows[s])'
      BY <2>1, RowKept
    <2> QED
      BY <2>2 DEF ReaderSound, Grows
  <1>4. ASSUME x.pc = "write"
        PROVE  /\ \A l \in x.logs : Emitted(l)'
               /\ Covers(rawLogs \cup x.logs, x.sub, x.rows[x.sub].topics, x.to)'
    <2>1. x.sub \in Subs
      BY <1>4 DEF ReaderSound, Active
    <2>2. \A l \in x.logs : Emitted(l)'
      BY <1>0, <1>4, EmittedKept DEF ReaderSound
    <2>3. Covers(rawLogs \cup x.logs, x.sub, x.rows[x.sub].topics, x.to)
      BY <1>4 DEF ReaderSound
    <2>4. x.to < Len(chain) /\ rawLogs \cup x.logs \subseteq rawLogs' \cup x.logs
      BY DEF ReaderSound, Grows
    <2>5. Covers(rawLogs \cup x.logs, x.sub, x.rows[x.sub].topics, x.to)'
      BY <1>0, <2>1, <2>3, <2>4, CoversKept
    <2> QED
      BY <2>2, <2>5
  <1> QED
    BY <1>1, <1>2, <1>3, <1>4 DEF ReaderSound

\* A step preserves the invariant when what it inserts was emitted, the rows
\* it writes are sound and every reader's locals were sound before it.
LEMMA GrowthKept ==
  ASSUME GrowthInv, TypeOK', Grows,
         \A l \in rawLogs' : l \in rawLogs \/ Emitted(l),
         \A s \in Subs : subs'[s] = subs[s] \/ RowSound(s, subs[s])',
         \A r \in Readers : ReaderSound(reader'[r])
  PROVE  GrowthInv'
  <1>1. ASSUME NEW l \in rawLogs' PROVE Emitted(l)'
    <2>1. Emitted(l) /\ l \in Logs
      BY DEF GrowthInv, TypeOK
    <2> QED
      BY <2>1, EmittedKept DEF GrowthInv
  <1>2. ASSUME NEW s \in Subs PROVE RowSound(s, subs[s])'
    <2>1. CASE subs'[s] = subs[s]
      <3>1. RowSound(s, subs'[s]) /\ subs'[s] \in Rows /\ TypeOK
        BY <2>1 DEF GrowthInv, TypeOK
      <3> QED
        BY <3>1, RowKept
    <2> QED
      BY <2>1
  <1>3. ASSUME NEW r \in Readers PROVE ReaderSound(reader[r])'
    <2>1. reader'[r] \in ReaderStates /\ TypeOK
      BY DEF GrowthInv, TypeOK
    <2> QED
      BY <2>1, LocalsKept
  <1> QED
    BY <1>1, <1>2, <1>3 DEF GrowthInv

\* A step that only changes the locals of one reader.
LEMMA LocalStep ==
  ASSUME GrowthInv, TypeOK', UNCHANGED <<chainVars, tables>>,
         NEW r \in Readers, NEW x, SetReader(r, x), ReaderSound(x)
  PROVE  GrowthInv'
  <1>1. Grows /\ subs' = subs /\ rawLogs' = rawLogs
    BY DEF Grows, chainVars, tables, GrowthInv, TypeOK
  <1>2. \A q \in Readers : reader'[q] = IF q = r THEN x ELSE reader[q]
    BY DEF SetReader, GrowthInv, TypeOK
  <1>3. \A q \in Readers : ReaderSound(reader'[q])
    BY <1>2 DEF GrowthInv
  <1> QED
    BY <1>1, <1>3, GrowthKept

LEMMA MineGrowth ==
  ASSUME GrowthInv, TypeOK', Mine
  PROVE  GrowthInv'
  <1>1. PICK block : chain' = Append(chain, block)
    BY DEF Mine, MineBlock
  <1>2. chain \in Seq(ChainBlocks)
    BY DEF GrowthInv, TypeOK
  <1>3. block \in ChainBlocks
    BY <1>1, <1>2 DEF TypeOK
  <1>4. Grows /\ subs' = subs /\ rawLogs' = rawLogs /\ reader' = reader
    BY <1>1, <1>2 DEF Grows, Mine, tables
  <1> QED
    BY <1>4, GrowthKept DEF GrowthInv

LEMMA RegisterGrowth ==
  ASSUME GrowthOnly, GrowthInv, TypeOK', Register
  PROVE  GrowthInv'
  <1>1. PICK p \in Registrations :
          subs' = [subs EXCEPT ![p.sub] =
                     [@ EXCEPT !.active = TRUE, !.topics = p.topics]]
    BY DEF Register
  <1>2. p.sub \in Subs /\ p = [sub |-> p.sub, topics |-> p.topics]
    BY FeedConstants
  <1> DEFINE row == [subs[p.sub] EXCEPT !.active = TRUE, !.topics = p.topics]
  <1>3. /\ subs[p.sub] \in Rows /\ RowSound(p.sub, subs[p.sub]) /\ TypeOK
        /\ subs \in [Subs -> Rows]
    BY <1>2 DEF GrowthInv, TypeOK
  <1>4. /\ row.active = TRUE /\ row.topics = p.topics
        /\ row.cursor = subs[p.sub].cursor /\ row.hash = subs[p.sub].hash
        /\ row.cursor \in Cursors /\ row \in Rows
    <2>1. p.topics \in SUBSET Topics
      BY DEF Topics
    <2> QED
      BY <1>3, <2>1 DEF Rows
  <1>5. subs' = [subs EXCEPT ![p.sub] = row]
    BY <1>1
  <1> HIDE DEF row
  <1>6. \A s \in Subs : subs'[s] = IF s = p.sub THEN row ELSE subs[s]
    BY <1>3, <1>5
  <1>7. Grows /\ rawLogs' = rawLogs /\ reader' = reader /\ chain' = chain
    BY <1>3, <1>4, <1>6 DEF Grows, Register, chainVars, TypeOK
  <1>8. RowSound(p.sub, row)
    <2>1. CASE subs[p.sub].active
      <3>1. subs[p.sub].topics = p.topics
        BY <1>2, <1>3, <2>1 DEF RowSound, GrowthOnly
      <3> QED
        BY <1>2, <1>3, <1>4, <2>1, <3>1 DEF RowSound
    <2>2. CASE ~subs[p.sub].active
      <3>1. row.cursor = -1
        BY <1>3, <1>4, <2>2 DEF RowSound
      <3>2. SubFrom[p.sub] .. -1 = {}
        BY <1>2, FeedConstants
      <3> QED
        BY <1>2, <1>3, <1>4, <3>1, <3>2 DEF RowSound, Covers
    <2> QED
      BY <2>1, <2>2
  <1>9. ASSUME NEW s \in Subs PROVE subs'[s] = subs[s] \/ RowSound(s, subs[s])'
    <2>1. CASE s = p.sub
      <3>1. RowSound(s, subs'[s]) /\ subs'[s] \in Rows
        BY <1>4, <1>6, <1>8, <2>1
      <3> QED
        BY <1>3, <1>7, <3>1, RowKept
    <2> QED
      BY <1>6, <2>1
  <1> QED
    BY <1>7, <1>9, GrowthKept DEF GrowthInv

\* The head is a block of the chain and its answers are sound.
LEMMA RpcSound ==
  ASSUME TypeOK, NEW b \in Cursors, b < Len(chain), NEW h \in RpcHashes(b)
  PROVE  HashSound(b, h)
  <1> SUFFICES ASSUME h # NoHash PROVE IsCanonical(b, h)
    BY DEF HashSound
  <1>1. b + 1 \in DOMAIN chain /\ h = chain[b + 1].fork
    BY DEF RpcHashes
  <1> QED
    BY <1>1 DEF IsCanonical

\* A cursor hash the reader probes is the chain's own, so it cannot mismatch.
LEMMA NoMismatch ==
  ASSUME TypeOK, NEW b, NEW rpc \in RpcHashes(b),
         NEW rows, \A s \in Subs : RowSound(s, rows[s]),
         NEW stored \in CursorHashes(rows, b)
  PROVE  LowestMismatch(NoBlock, b, rpc, stored) = NoBlock
  <1>1. PICK s \in Hashed(rows) : rows[s].cursor = b /\ stored = rows[s].hash
    BY DEF CursorHashes
  <1>2. IsCanonical(b, stored)
    BY <1>1 DEF Hashed, Active, RowSound, HashSound
  <1> QED
    BY <1>2 DEF IsCanonical, RpcHashes, LowestMismatch

\* What a scan returns was emitted, and with what the feed holds up to the
\* cursor it covers the subscription up to the target block.
LEMMA ScanSound ==
  ASSUME GrowthOnly, TypeOK, NEW s \in Subs, NEW row \in Rows, RowSound(s, row),
         NEW from \in ReaderFroms \cup {NoBlock}, NEW to \in Cursors, to < Len(chain)
  PROVE  LET found == ScanRawLogs(s, row.topics, ScanFrom(s, row, from), to)
         IN  /\ \A l \in found : Emitted(l)
             /\ Covers(rawLogs \cup found, s, row.topics, to)
  <1> DEFINE lo == ScanFrom(s, row, from)
             found == ScanRawLogs(s, row.topics, lo, to)
  <1>1. /\ SubFrom[s] \in Nat /\ row.cursor \in Int /\ to \in Int /\ from \in Int
        /\ Len(chain) \in Nat /\ chain \in Seq(ChainBlocks)
    BY FeedConstants, ChainConstants DEF Rows, Cursors, Blocks, TypeOK
  <1>2. lo \in Nat
    BY <1>1 DEF ScanFrom, MaxOf
  <1>3. ASSUME NEW l \in found PROVE Emitted(l)
    <2>1. PICK b \in BlocksIn(chain, lo, to) : l \in BlockLogs(chain, b)
      BY DEF ScanRawLogs, GetLogs
    <2>2. PICK e \in chain[b + 1].body : l = LogAt(chain, b, e)
      BY <2>1 DEF BlockLogs
    <2>3. l.blk = b /\ l.ev = e /\ b + 1 \in DOMAIN chain
      BY <2>2 DEF LogAt, BlocksIn
    <2> QED
      BY <2>2, <2>3 DEF Emitted
  <1>4. ASSUME NEW b \in SubFrom[s] .. to, NEW e \in chain[b + 1].body,
               e.addr = SubAddr[s], e.topic \in row.topics
        PROVE  LogAt(chain, b, e) \in rawLogs \cup found
    <2>1. CASE b <= row.cursor
      BY <1>1, <1>4, <2>1 DEF RowSound, Covers
    <2>2. CASE b > row.cursor
      <3>1. lo <= b
        <4>1. CASE row.cursor # NoBlock
          BY <1>1, <2>2, <4>1 DEF ScanFrom, MaxOf
        <4>2. CASE row.cursor = NoBlock
          BY <1>1, <4>2 DEF ScanFrom, MaxOf, GrowthOnly
        <4> QED
          BY <4>1, <4>2
      <3>2. b \in BlocksIn(chain, lo, to)
        BY <1>1, <1>2, <3>1 DEF BlocksIn
      <3>3. LogAt(chain, b, e) \in BlockLogs(chain, b)
        BY DEF BlockLogs
      <3>4. LogAt(chain, b, e).ev = e
        BY DEF LogAt
      <3> QED
        BY <1>4, <3>2, <3>3, <3>4 DEF ScanRawLogs, GetLogs
    <2> QED
      BY <1>1, <2>1, <2>2
  <1> QED
    BY <1>3, <1>4 DEF Covers

\* ON CONFLICT DO NOTHING loses nothing: an emitted log that has the key of a
\* stored one is that log.
LEMMA InsertEmitted ==
  ASSUME GrowthInv, NEW logs, logs \subseteq Logs, \A l \in logs : Emitted(l)
  PROVE  InsertLogs(logs) = rawLogs \cup logs
  <1> SUFFICES ASSUME NEW l \in logs, NEW m \in rawLogs,
                      m.blk = l.blk, m.ev.idx = l.ev.idx
               PROVE  l = m
    BY DEF InsertLogs
  <1>1. Emitted(l) /\ Emitted(m) /\ chain \in Seq(ChainBlocks)
    BY DEF GrowthInv, TypeOK
  <1>2. chain[l.blk + 1] \in ChainBlocks
    BY <1>1 DEF Emitted
  <1>3. chain[l.blk + 1].body \in Contents
    BY <1>2 DEF ChainBlocks
  <1>4. l.ev \in chain[l.blk + 1].body /\ m.ev \in chain[l.blk + 1].body
    BY <1>1 DEF Emitted
  <1>5. l.ev = m.ev
    BY <1>3, <1>4, FeedConstants
  <1> QED
    BY <1>1, <1>5 DEF Emitted

LEMMA WriteGrowth ==
  ASSUME GrowthOnly, GrowthInv, TypeOK', NEW r \in Readers, ReaderWrite(r)
  PROVE  GrowthInv'
  <1>0. PICK y : y = reader[r]
    OBVIOUS
  <1>1. /\ TypeOK /\ y \in ReaderStates /\ ReaderSound(y) /\ y.pc = "write"
        /\ y.sub \in Subs /\ subs \in [Subs -> Rows] /\ reader \in [Readers -> ReaderStates]
        /\ subs[y.sub] \in Rows
    BY <1>0 DEF GrowthInv, TypeOK, ReaderWrite
  <1>2. /\ y.to \in Cursors /\ y.hash \in Hashes /\ y.logs \in SUBSET Logs
        /\ y.rows \in [Subs -> Rows] /\ y.todo \in SUBSET Subs
    BY <1>1 DEF ReaderStates
  <1>3. rawLogs' = rawLogs \cup y.logs
    <2>1. \A l \in y.logs : Emitted(l)
      BY <1>1 DEF ReaderSound
    <2> QED
      BY <1>0, <1>2, <2>1, InsertEmitted DEF ReaderWrite
  <1>4. PICK row : row = [subs[y.sub] EXCEPT !.cursor = y.to, !.hash = y.hash]
    OBVIOUS
  <1>5. /\ row.active = subs[y.sub].active /\ row.topics = subs[y.sub].topics
        /\ row.cursor = y.to /\ row.hash = y.hash /\ row \in Rows
    BY <1>1, <1>2, <1>4 DEF Rows
  <1>6. \A s \in Subs : subs'[s] = IF s = y.sub THEN row ELSE subs[s]
    BY <1>0, <1>1, <1>4 DEF ReaderWrite
  <1>7. PICK x : x = [y EXCEPT !.pc = "scan", !.logs = {}, !.todo = @ \ {y.sub}]
    OBVIOUS
  <1>8. chain' = chain /\ \A q \in Readers : reader'[q] = IF q = r THEN x ELSE reader[q]
    BY <1>0, <1>1, <1>7 DEF ReaderWrite, SetReader, chainVars
  <1>9. Grows
    <2>1. Len(chain) <= Len(chain')
      BY <1>1, <1>8 DEF TypeOK
    <2> QED
      BY <1>3, <1>5, <1>6, <1>8, <2>1 DEF Grows
  <1>10. row.active /\ row.topics = y.rows[y.sub].topics
         /\ [sub |-> y.sub, topics |-> row.topics] \in Registrations
    <2>1. y.rows[y.sub].active /\ RowSound(y.sub, y.rows[y.sub]) /\ subs[y.sub].active
      BY <1>1 DEF ReaderSound, Active
    <2>2. RowSound(y.sub, subs[y.sub])
      BY <1>1 DEF GrowthInv
    <2> QED
      BY <1>5, <2>1, <2>2 DEF RowSound, GrowthOnly
  <1>11. RowSound(y.sub, row)'
    <2>1. y.to < Len(chain) /\ HashSound(y.to, y.hash)
          /\ Covers(rawLogs \cup y.logs, y.sub, row.topics, y.to)
      BY <1>1, <1>10 DEF ReaderSound
    <2>2. HashSound(row.cursor, row.hash)'
      BY <1>5, <1>8, <2>1 DEF HashSound, IsCanonical
    <2>3. Covers(rawLogs, y.sub, row.topics, row.cursor)'
      BY <1>3, <1>5, <1>8, <2>1 DEF Covers
    <2> QED
      BY <1>5, <1>8, <1>10, <2>1, <2>2, <2>3 DEF RowSound
  <1>12. ReaderSound(x)
    <2>1. /\ x.pc = "scan" /\ x.min = y.min /\ x.from = y.from /\ x.to = y.to
          /\ x.hash = y.hash /\ x.rows = y.rows /\ x.todo = y.todo \ {y.sub}
      BY <1>1, <1>7 DEF ReaderStates
    <2> QED
      BY <1>1, <2>1 DEF ReaderSound
  <1>13. \A s \in Subs : subs'[s] = subs[s] \/ RowSound(s, subs[s])'
    BY <1>6, <1>11
  <1>14. \A q \in Readers : ReaderSound(reader'[q])
    BY <1>8, <1>12 DEF GrowthInv
  <1>15. \A l \in rawLogs' : l \in rawLogs \/ Emitted(l)
    BY <1>1, <1>3 DEF ReaderSound
  <1> QED
    BY <1>9, <1>13, <1>14, <1>15, GrowthKept

LEMMA ReaderGrowth ==
  ASSUME GrowthOnly, GrowthInv, TypeOK', NEW r \in Readers, ReaderStep(r) \/ ReaderFail(r)
  PROVE  GrowthInv'
  <1>0. /\ TypeOK /\ reader[r] \in ReaderStates /\ ReaderSound(reader[r])
        /\ chain \in Seq(ChainBlocks) /\ Len(chain) \in 1 .. MaxHead + 1
    BY DEF GrowthInv, TypeOK
  <1>i. ReaderSound(Idle)
    BY <1>0, IdleLocals
  <1>1. CASE ReaderStart(r)
    <2>1. PICK f \in ReaderFroms, t \in ReaderTos :
            SetReader(r, [reader[r] EXCEPT !.pc = "hash", !.from = f,
                            !.to = IF t # NoBlock THEN t ELSE HeadBlock])
      BY <1>1 DEF ReaderStart
    <2>2. t = NoBlock /\ reader[r] = Idle
      BY <1>0, <1>1 DEF GrowthOnly, ReaderSound, ReaderStart
    <2> DEFINE x == [Idle EXCEPT !.pc = "hash", !.from = f, !.to = HeadBlock]
    <2>3. SetReader(r, x)
      BY <2>1, <2>2
    <2>4. HeadBlock < Len(chain)
      BY <1>0 DEF HeadBlock
    <2>5. /\ x.pc = "hash" /\ x.from = f /\ x.to = HeadBlock /\ x.hash = NoHash
          /\ x.min = Idle.min /\ x.rows = Idle.rows /\ x.todo = Idle.todo
      BY DEF Idle
    <2>6. ReaderSound(x)
      BY <1>i, <2>4, <2>5 DEF ReaderSound, HashSound
    <2> QED
      BY <1>1, <2>3, <2>6, LocalStep DEF ReaderStart
  <1>2. CASE ReaderHash(r)
    <2>1. PICK h \in RpcHashes(reader[r].to) :
            SetReader(r, [reader[r] EXCEPT !.pc = "list", !.hash = h])
      BY <1>2 DEF ReaderHash
    <2>2. reader[r].to \in Cursors /\ reader[r].to < Len(chain)
      BY <1>0 DEF ReaderStates, ReaderSound
    <2>3. HashSound(reader[r].to, h)
      BY <1>0, <2>2, RpcSound
    <2> DEFINE x == [reader[r] EXCEPT !.pc = "list", !.hash = h]
    <2>4. ReaderSound(x)
      BY <1>0, <2>3 DEF ReaderSound, ReaderStates
    <2> QED
      BY <1>2, <2>1, <2>4, LocalStep DEF ReaderHash
  <1>3. CASE ReaderList(r)
    <2> DEFINE cursors == {subs[s].cursor : s \in Hashed(subs)}
               x == [reader[r] EXCEPT !.pc = "probe", !.rows = subs, !.blocks = cursors]
    <2>1. SetReader(r, x)
      BY <1>3 DEF ReaderList
    <2> HIDE DEF cursors
    <2>2. /\ x.pc = "probe" /\ x.rows = subs /\ x.min = reader[r].min
          /\ x.from = reader[r].from /\ x.to = reader[r].to /\ x.hash = reader[r].hash
          /\ x.todo = reader[r].todo
      BY <1>0 DEF ReaderStates
    <2>3. reader[r].todo \subseteq Active(subs)
      BY <1>0 DEF ReaderSound, Active
    <2>4. \A s \in Subs : RowSound(s, subs[s])
      BY DEF GrowthInv
    <2>5. ReaderSound(x)
      BY <1>0, <2>2, <2>3, <2>4 DEF ReaderSound
    <2> QED
      BY <1>3, <2>1, <2>5, LocalStep DEF ReaderList
  <1>4. CASE ReaderProbe(r)
    <2>0. PICK b \in reader[r].blocks :
            \E rpc \in RpcHashes(b), stored \in CursorHashes(reader[r].rows, b) :
              SetReader(r, [reader[r] EXCEPT !.blocks = @ \ {b},
                              !.min = LowestMismatch(@, b, rpc, stored)])
      BY <1>4 DEF ReaderProbe
    <2>1. PICK rpc \in RpcHashes(b), stored \in CursorHashes(reader[r].rows, b) :
            SetReader(r, [reader[r] EXCEPT !.blocks = @ \ {b},
                            !.min = LowestMismatch(@, b, rpc, stored)])
      BY <2>0
    <2>2. reader[r].min = NoBlock /\ \A s \in Subs : RowSound(s, reader[r].rows[s])
      BY <1>0 DEF ReaderSound
    <2>3. LowestMismatch(reader[r].min, b, rpc, stored) = NoBlock
      BY <1>0, <2>2, NoMismatch
    <2> DEFINE x == [reader[r] EXCEPT !.blocks = @ \ {b}, !.min = NoBlock]
    <2>4. SetReader(r, x)
      BY <2>1, <2>3
    <2>5. ReaderSound(x)
      BY <1>0, <1>4 DEF ReaderSound, ReaderStates, ReaderProbe
    <2> QED
      BY <1>4, <2>4, <2>5, LocalStep DEF ReaderProbe
  <1>5. CASE ReaderClean(r)
    <2> DEFINE x == [reader[r] EXCEPT !.pc = "scan", !.todo = Active(reader[r].rows)]
    <2>1. ReaderSound(x)
      BY <1>0 DEF ReaderSound, ReaderStates
    <2> QED
      BY <1>5, <2>1, LocalStep DEF ReaderClean
  <1>6. CASE ReaderRollback(r) \/ ReaderRelist(r)
    BY <1>0, <1>6 DEF ReaderRollback, ReaderRelist, ReaderSound
  <1>7. CASE ReaderSkip(r)
    <2>1. PICK s \in reader[r].todo : SetReader(r, [reader[r] EXCEPT !.todo = @ \ {s}])
      BY <1>7 DEF ReaderSkip
    <2> DEFINE x == [reader[r] EXCEPT !.todo = @ \ {s}]
    <2>2. ReaderSound(x)
      BY <1>0, <1>7 DEF ReaderSound, ReaderStates, ReaderSkip
    <2> QED
      BY <1>7, <2>1, <2>2, LocalStep DEF ReaderSkip
  <1>8. CASE ReaderScan(r)
    <2> DEFINE row(s) == reader[r].rows[s]
               lo(s) == ScanFrom(s, row(s), reader[r].from)
               found(s) == ScanRawLogs(s, row(s).topics, lo(s), reader[r].to)
    <2>1. PICK s \in reader[r].todo :
            SetReader(r, [reader[r] EXCEPT !.pc = "write", !.sub = s, !.logs = found(s)])
      BY <1>8 DEF ReaderScan
    <2>2. /\ s \in Subs /\ s \in Active(reader[r].rows)
          /\ row(s) \in Rows /\ RowSound(s, row(s))
          /\ reader[r].from \in ReaderFroms \cup {NoBlock}
          /\ reader[r].to \in Cursors /\ reader[r].to < Len(chain)
      BY <1>0 DEF ReaderStates, ReaderSound, Active
    <2>3. /\ \A l \in found(s) : Emitted(l)
          /\ Covers(rawLogs \cup found(s), s, row(s).topics, reader[r].to)
      BY <1>0, <2>2, ScanSound
    <2> HIDE DEF found
    <2> DEFINE x == [reader[r] EXCEPT !.pc = "write", !.sub = s, !.logs = found(s)]
    <2>4. /\ x.pc = "write" /\ x.rows = reader[r].rows /\ x.min = reader[r].min
          /\ x.from = reader[r].from /\ x.to = reader[r].to /\ x.hash = reader[r].hash
          /\ x.todo = reader[r].todo /\ x.sub = s /\ x.logs = found(s)
      BY <1>0 DEF ReaderStates
    <2> HIDE DEF x
    <2>5. ReaderSound(x)
      BY <1>0, <2>2, <2>3, <2>4 DEF ReaderSound
    <2>6. SetReader(r, x)
      BY <2>1 DEF x
    <2> QED
      BY <1>8, <2>5, <2>6, LocalStep DEF ReaderScan
  <1>9. CASE ReaderWrite(r)
    BY <1>9, WriteGrowth
  <1>10. CASE ReaderDone(r)
    BY <1>10, <1>i, LocalStep DEF ReaderDone
  <1>11. CASE ReaderFail(r)
    BY <1>11, <1>i, LocalStep DEF ReaderFail
  <1> QED
    BY <1>1, <1>2, <1>3, <1>4, <1>5, <1>6, <1>7, <1>8, <1>9, <1>10, <1>11 DEF ReaderStep

LEMMA NextGrowth ==
  ASSUME GrowthOnly
  PROVE  GrowthInv /\ [Next]_vars => GrowthInv'
  <1> SUFFICES ASSUME GrowthInv, [Next]_vars PROVE GrowthInv'
    OBVIOUS
  <1>0. TypeOK /\ TypeOK'
    BY NextType DEF GrowthInv
  <1>1. CASE Mine
    BY <1>0, <1>1, MineGrowth
  <1>2. CASE Reorg
    BY <1>0, <1>2 DEF Reorg, ReplaceBlocks, GrowthOnly, TypeOK
  <1>3. CASE Register
    BY <1>0, <1>3, RegisterGrowth
  <1>4. ASSUME NEW r \in Readers, ReaderStep(r) \/ ReaderFail(r) PROVE GrowthInv'
    BY <1>0, <1>4, ReaderGrowth
  <1>5. CASE UNCHANGED vars
    <2>1. Grows /\ rawLogs' = rawLogs /\ subs' = subs /\ reader' = reader
      BY <1>0, <1>5 DEF vars, Grows, TypeOK
    <2> QED
      BY <1>0, <2>1, GrowthKept DEF GrowthInv
  <1> QED
    BY <1>1, <1>2, <1>3, <1>4, <1>5 DEF Next

\* The inductive invariant of a chain that only grows holds for any number
\* of chain-readers racing over the feed tables.
THEOREM GrowthCorrect ==
  ASSUME GrowthOnly
  PROVE  Spec => []GrowthInv
  BY InitGrowth, NextGrowth, PTL DEF Spec

\* Without reorgs, and however many chain-readers run, fail, restart or get
\* no hash from the RPC: a subscription whose cursor hash is canonical holds
\* exactly the logs of its address and topics from its start block to the
\* cursor.
THEOREM FeedExact ==
  ASSUME GrowthOnly
  PROVE  Spec => []FeedCertifiesLogs
  BY GrowthCorrect, GrowthImpliesExact, PTL
=============================================================================
