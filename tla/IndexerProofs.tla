---------------------------- MODULE IndexerProofs ----------------------------
(***************************************************************************)
(* Theorems of Indexer, for every chain, deployment, command line and bound *)
(* the constants allow.                                                     *)
(***************************************************************************)
EXTENDS Indexer, SyncCoreProofs

(***************************************************************************)
(* The types of the state.  f is the number of blocks ever mined.           *)
(***************************************************************************)
Events == UNION Contents
Blocks(f) == [fork : 0 .. f - 1, body : Contents]
Logs(f) == [blk : Nat, fork : 0 .. f - 1, ev : Events]
ValidLogs(f) == {l \in Logs(f) : l.ev.ok}
Cursors == {LogId(l) : l \in [blk : Nat, fork : Nat, ev : Events]}
Sources == [addr : UNION {e.creates : e \in Events}, at : Nat]
OptBlock == Nat \cup {NoBlock}

Checkpoints(f) ==
    [from : OptBlock, to : OptBlock, hash : (0 .. f - 1) \cup {NoHash}, complete : BOOLEAN]

Entries(f) ==
    [ckpt : Checkpoints(f), applied : Seq(ValidLogs(f)), dyn : SUBSET Sources]

StoredSnapshots(f) ==
    [ckpt : Checkpoints(f), applied : Seq(ValidLogs(f)), dyn : SUBSET Sources,
     done : SUBSET Cursors, history : Seq(Entries(f)), origin : OptBlock]

Runs(f) ==
    [from : OptBlock, to : OptBlock, todo : SUBSET (StaticSources \cup Sources),
     pending : SUBSET Logs(f), done : SUBSET Cursors, applied : Seq(ValidLogs(f)),
     dyn : SUBSET Sources, executed : Nat, last : OptBlock, errors : Nat,
     meta : (0 .. f - 1) \cup {NoHash, NotCached}, history : Seq(Entries(f)), probe : Nat]

CommandLines ==
    [from : OptBlock, to : OptBlock, reset : BOOLEAN, watch : BOOLEAN,
     policy : {"fail", "rollback", "reset"}]

Places == {"down", "load", "check", "probe", "range", "scan", "execute", "finish"}

ChainOK ==
    /\ forks \in Nat \ {0} /\ reorgs \in 0 .. MaxReorgs
    /\ chain \in Seq(Blocks(forks))
    /\ Len(chain) \in 1 .. MaxHead + 1

ProcessOK ==
    /\ db \in StoredSnapshots(forks) /\ IsHistory(db.history)
    /\ prev \in StoredSnapshots(forks) /\ IsHistory(prev.history)
    /\ run \in Runs(forks) /\ IsHistory(run.history)
    /\ pc = "probe" => run.probe <= Len(prev.history)
    /\ pc \in {"scan", "execute", "finish"} => run.to \in Nat
    /\ pc \in Places
    /\ args \in CommandLines
    /\ faults \in 0 .. MaxFaults

TypeInv == ChainOK /\ ProcessOK

(***************************************************************************)
(* The types grow with the chain.                                           *)
(***************************************************************************)
\* What was a type of the state stays one when blocks are mined.
LEMMA TypesGrow ==
  ASSUME NEW f \in Nat, NEW g \in Nat, f <= g
  PROVE  /\ Blocks(f) \subseteq Blocks(g)
         /\ StoredSnapshots(f) \subseteq StoredSnapshots(g)
         /\ Runs(f) \subseteq Runs(g)
  <1>1. 0 .. f - 1 \subseteq 0 .. g - 1
    OBVIOUS
  <1>2. Logs(f) \subseteq Logs(g) /\ Blocks(f) \subseteq Blocks(g)
    BY <1>1 DEF Logs, Blocks
  <1>3. ValidLogs(f) \subseteq ValidLogs(g)
    BY <1>2 DEF ValidLogs
  <1>4. Seq(ValidLogs(f)) \subseteq Seq(ValidLogs(g))
    BY <1>3
  <1>5. Checkpoints(f) \subseteq Checkpoints(g)
    BY <1>1 DEF Checkpoints
  <1>6. Entries(f) \subseteq Entries(g)
    BY <1>4, <1>5 DEF Entries
  <1>7. Seq(Entries(f)) \subseteq Seq(Entries(g))
    BY <1>6
  <1>8. StoredSnapshots(f) \subseteq StoredSnapshots(g)
    BY <1>4, <1>5, <1>7 DEF StoredSnapshots
  <1>9. SUBSET Logs(f) \subseteq SUBSET Logs(g)
        /\ (0 .. f - 1) \cup {NoHash, NotCached} \subseteq (0 .. g - 1) \cup {NoHash, NotCached}
    BY <1>1, <1>2
  <1>10. Runs(f) \subseteq Runs(g)
    BY <1>4, <1>7, <1>9 DEF Runs
  <1> QED
    BY <1>2, <1>8, <1>10

\* A sequence is a list of its own elements, and the other way round.
LEMMA ListOf ==
  ASSUME NEW s, NEW E
  PROVE  /\ s \in Seq(E) => IsList(s) /\ Range(s) \subseteq E
         /\ IsList(s) /\ Range(s) \subseteq E => s \in Seq(E)
  <1>1. ASSUME s \in Seq(E) PROVE IsList(s) /\ Range(s) \subseteq E
    <2>1. Range(s) \subseteq E
      BY <1>1 DEF Range
    <2>2. s \in Seq(Range(s))
      BY <1>1 DEF Range
    <2> QED
      BY <2>1, <2>2 DEF IsList
  <1>2. ASSUME IsList(s), Range(s) \subseteq E PROVE s \in Seq(E)
    <2> DEFINE R == Range(s)
    <2>1. s \in Seq(R) /\ R \subseteq E
      BY <1>2 DEF IsList
    <2> HIDE DEF R
    <2> QED
      BY <2>1
  <1> QED
    BY <1>1, <1>2

\* The elements of two sequences, one behind the other.
LEMMA ConcatFacts ==
  ASSUME NEW E, NEW s \in Seq(E), NEW t \in Seq(E)
  PROVE  /\ s \o t \in Seq(E) /\ Len(s \o t) = Len(s) + Len(t)
         /\ \A i \in 1 .. Len(s) : (s \o t)[i] = s[i]
         /\ Range(s \o t) = Range(s) \cup Range(t)
  <1> DEFINE u == s \o t
             m == Len(s)
             n == Len(t)
  <1>1. /\ m \in Nat /\ n \in Nat /\ DOMAIN s = 1 .. m /\ DOMAIN t = 1 .. n
        /\ u \in Seq(E) /\ Len(u) = m + n /\ DOMAIN u = 1 .. m + n
        /\ \A i \in 1 .. m + n : u[i] = IF i <= m THEN s[i] ELSE t[i - m]
    OBVIOUS
  <1> HIDE DEF u, m, n
  <1>2. ASSUME NEW i \in 1 .. m PROVE u[i] = s[i] /\ i \in DOMAIN u
    BY <1>1
  <1>3. ASSUME NEW i \in 1 .. n PROVE u[i + m] = t[i] /\ i + m \in DOMAIN u
    <2> DEFINE j == i + m
    <2>1. j \in 1 .. m + n /\ ~(j <= m) /\ j - m = i
      BY <1>1
    <2> HIDE DEF j
    <2>2. u[j] = t[j - m]
      BY <1>1, <2>1
    <2> QED
      BY <1>1, <2>1, <2>2 DEF j
  <1>4. ASSUME NEW i \in 1 .. m + n PROVE u[i] \in Range(s) \cup Range(t)
    <2>1. CASE i <= m
      <3>1. i \in DOMAIN s /\ u[i] = s[i]
        BY <1>1, <2>1
      <3> QED
        BY <3>1 DEF Range
    <2>2. CASE i > m
      <3>1. i - m \in DOMAIN t /\ u[i] = t[i - m]
        BY <1>1, <2>2
      <3> QED
        BY <3>1 DEF Range
    <2> QED
      BY <1>1, <2>1, <2>2
  <1>5. Range(s) \subseteq Range(u)
    BY <1>1, <1>2 DEF Range
  <1>6. Range(t) \subseteq Range(u)
    <2> SUFFICES ASSUME NEW i \in DOMAIN t PROVE t[i] \in Range(u)
      BY DEF Range
    <2>1. i \in 1 .. n
      BY <1>1
    <2>2. i + m \in DOMAIN u /\ u[i + m] = t[i]
      BY <1>3, <2>1
    <2> QED
      BY <2>2, Zenon DEF Range
  <1>7. Range(u) \subseteq Range(s) \cup Range(t)
    BY <1>1, <1>4 DEF Range
  <1> QED
    BY <1>1, <1>2, <1>5, <1>6, <1>7 DEF u, m, n

\* A sequence and one more element.
LEMMA AppendFacts ==
  ASSUME NEW E, NEW s \in Seq(E), NEW x \in E
  PROVE  /\ s \o <<x>> = Append(s, x)
         /\ Append(s, x) \in Seq(E) /\ Len(Append(s, x)) = Len(s) + 1 /\ Len(s) \in Nat
         /\ Append(s, x)[Len(Append(s, x))] = x
         /\ Range(Append(s, x)) = Range(s) \cup {x}
  <1> DEFINE u == Append(s, x)
             m == Len(s)
  <1>1. /\ m \in Nat /\ DOMAIN s = 1 .. m /\ u \in Seq(E) /\ Len(u) = m + 1
        /\ DOMAIN u = 1 .. m + 1 /\ u[m + 1] = x /\ \A i \in 1 .. m : u[i] = s[i]
        /\ s \o <<x>> = u
    OBVIOUS
  <1> HIDE DEF u, m
  <1>2. Range(u) = Range(s) \cup {x}
    <2>1. 1 .. m + 1 = (1 .. m) \cup {m + 1}
      BY <1>1
    <2> QED
      BY <1>1, <2>1 DEF Range
  <1> QED
    BY <1>1, <1>2 DEF u, m

\* An empty history is one.
LEMMA EmptyHistory ==
  IsHistory(<<>>) /\ Range(<<>>) = {}
  BY DEF IsHistory, IsList, Numbered, Ordered, Range

\* An indexer without a snapshot is well typed.
LEMMA NothingIsTyped ==
  ASSUME NEW f \in Nat
  PROVE  /\ NoSnapshot \in StoredSnapshots(f) /\ IsHistory(NoSnapshot.history)
         /\ NoRun \in Runs(f) /\ IsHistory(NoRun.history)
         /\ NoArgs \in CommandLines
  <1> DEFINE H == Seq(Entries(f))
             V == Seq(ValidLogs(f))
  <1>1. <<>> \in H /\ <<>> \in V
    OBVIOUS
  <1> HIDE DEF H, V
  <1>2. NoCheckpoint \in Checkpoints(f)
    BY DEF NoCheckpoint, Checkpoints, OptBlock
  <1>3. NoSnapshot \in StoredSnapshots(f)
    BY <1>1, <1>2 DEF NoSnapshot, StoredSnapshots, OptBlock, H, V
  <1>4. NoRun \in Runs(f)
    BY <1>1 DEF NoRun, Runs, OptBlock, H, V
  <1>5. NoArgs \in CommandLines
    BY DEF NoArgs, CommandLines, OptBlock
  <1> QED
    BY <1>3, <1>4, <1>5, EmptyHistory DEF NoSnapshot, NoRun

(***************************************************************************)
(* The chain.                                                               *)
(***************************************************************************)
\* A mined block keeps every type.
LEMMA MineTyped ==
  ASSUME TypeInv, Mine PROVE TypeInv'
  <1>1. PICK body \in Contents : chain' = Append(chain, [fork |-> forks, body |-> body])
    BY DEF Mine, MineBlock
  <1>2. forks' = forks + 1 /\ reorgs' = reorgs /\ Len(chain) - 1 < MaxHead
    BY DEF Mine, MineBlock, HeadBlock
  <1>3. forks \in Nat /\ forks' \in Nat /\ forks <= forks'
    BY <1>2 DEF TypeInv, ChainOK
  <1>4. chain \in Seq(Blocks(forks')) /\ Len(chain) \in Nat
    BY <1>3, TypesGrow DEF TypeInv, ChainOK
  <1>5. [fork |-> forks, body |-> body] \in Blocks(forks')
    BY <1>2, <1>3 DEF Blocks
  <1> DEFINE B == Blocks(forks')
             new == [fork |-> forks, body |-> body]
  <1>6. chain \in Seq(B) /\ new \in B /\ chain' = Append(chain, new)
    BY <1>1, <1>4, <1>5
  <1> HIDE DEF B, new
  <1>7. chain' \in Seq(B) /\ Len(chain') = Len(chain) + 1
    BY <1>6
  <1>8. ChainOK'
    BY <1>2, <1>7, ChainConstants DEF TypeInv, ChainOK, B
  <1>9. ProcessOK'
    BY <1>3, TypesGrow DEF Mine, TypeInv, ProcessOK, procVars
  <1> QED
    BY <1>8, <1>9 DEF TypeInv

\* So does a reorg, which keeps the length of the chain.
LEMMA ReorgTyped ==
  ASSUME TypeInv, Reorg PROVE TypeInv' /\ Len(chain') = Len(chain)
  <1>1. PICK d \in 1 .. MaxReorgDepth :
           /\ d <= Len(chain)
           /\ LET kept == Len(chain) - d
              IN \E bodies \in [1 .. d -> Contents] :
                    chain' = [b \in 1 .. Len(chain) |->
                                IF b <= kept THEN chain[b]
                                ELSE [fork |-> forks + (b - kept) - 1, body |-> bodies[b - kept]]]
           /\ forks' = forks + d
    BY DEF Reorg, ReplaceBlocks
  <1> DEFINE n == Len(chain)
             kept == n - d
  <1>2. PICK bodies \in [1 .. d -> Contents] :
           chain' = [b \in 1 .. n |->
                       IF b <= kept THEN chain[b]
                       ELSE [fork |-> forks + (b - kept) - 1, body |-> bodies[b - kept]]]
    BY <1>1
  <1>3. reorgs < MaxReorgs /\ reorgs' = reorgs + 1
    BY DEF Reorg, ReplaceBlocks
  <1>4. forks \in Nat \ {0} /\ d \in Nat /\ n \in Nat /\ kept \in Nat
    BY <1>1, ChainConstants DEF TypeInv, ChainOK
  <1>5. forks' \in Nat /\ forks <= forks' /\ forks' = forks + d
    BY <1>1, <1>4
  <1>6. chain \in Seq(Blocks(forks'))
    BY <1>4, <1>5, TypesGrow DEF TypeInv, ChainOK
  <1>7. ASSUME NEW b \in 1 .. n PROVE chain'[b] \in Blocks(forks')
    <2>1. CASE b <= kept
      BY <1>2, <1>6, <2>1
    <2>2. CASE b > kept
      <3>1. b - kept \in 1 .. d /\ forks + (b - kept) - 1 \in 0 .. forks' - 1
        BY <1>4, <1>5, <2>2
      <3>2. chain'[b] = [fork |-> forks + (b - kept) - 1, body |-> bodies[b - kept]]
        BY <1>2, <1>4, <2>2
      <3>3. bodies[b - kept] \in Contents
        BY <3>1
      <3> HIDE DEF kept, n
      <3> QED
        BY <3>1, <3>2, <3>3 DEF Blocks
    <2> QED
      BY <1>4, <2>1, <2>2
  <1>8. chain' \in [1 .. n -> Blocks(forks')]
    <2> DEFINE B == Blocks(forks')
    <2>1. \A b \in 1 .. n : chain'[b] \in B
      BY <1>7
    <2>2. DOMAIN chain' = 1 .. n /\ chain' = [b \in 1 .. n |-> chain'[b]]
      BY <1>2
    <2> HIDE DEF B, n
    <2> QED
      BY <2>1, <2>2 DEF B
  <1>9. chain' \in Seq(Blocks(forks')) /\ Len(chain') = n
    <2> DEFINE B == Blocks(forks')
    <2>1. chain' \in [1 .. n -> B] /\ n \in Nat
      BY <1>4, <1>8
    <2> HIDE DEF B, n
    <2> QED
      BY <2>1 DEF B
  <1>10. ChainOK'
    BY <1>3, <1>4, <1>5, <1>9, ChainConstants DEF TypeInv, ChainOK
  <1>11. ProcessOK'
    BY <1>4, <1>5, TypesGrow DEF Reorg, TypeInv, ProcessOK, procVars
  <1> QED
    BY <1>9, <1>10, <1>11 DEF TypeInv

(***************************************************************************)
(* The process.                                                             *)
(***************************************************************************)
\* The process keeps its types when the chain stands still and the parts of
\* its state that a step sets are well typed.
LEMMA EndPassTyped ==
  ASSUME TypeInv, EndPass
  PROVE  /\ prev' = NoSnapshot /\ run' = NoRun /\ pc' \in {"load", "down"}
         /\ args' \in CommandLines /\ args'.to \in {args.to, NoBlock}
         /\ prev' \in StoredSnapshots(forks) /\ IsHistory(prev'.history)
         /\ run' \in Runs(forks) /\ IsHistory(run'.history)
  <1>1. forks \in Nat /\ args \in CommandLines
    BY DEF TypeInv, ChainOK, ProcessOK
  <1>2. prev' = NoSnapshot /\ run' = NoRun /\ pc' \in {"load", "down"}
    BY DEF EndPass
  <1>3. args' \in CommandLines /\ args'.to \in {args.to, NoBlock}
    <2>1. CASE args.watch
      <3>1. args' = [args EXCEPT !.from = NoBlock, !.reset = FALSE]
        BY <2>1 DEF EndPass
      <3> QED
        BY <1>1, <3>1 DEF CommandLines, OptBlock
    <2>2. CASE ~args.watch
      <3>1. args' = NoArgs /\ NoArgs.to = NoBlock
        BY <2>2 DEF EndPass, NoArgs
      <3> QED
        BY <1>1, <3>1, NothingIsTyped
    <2> QED
      BY <2>1, <2>2
  <1> QED
    BY <1>1, <1>2, <1>3, NothingIsTyped

\* The start of the process.
LEMMA LaunchTyped ==
  ASSUME TypeInv, Launch PROVE TypeInv'
  <1>1. args' \in CommandLines
    BY IndexerConstants DEF Launch, CommandLines, OptBlock, BlockNumbers
  <1> QED
    BY <1>1 DEF Launch, TypeInv, ChainOK, ProcessOK, chainVars, Places

\* The load.
LEMMA LoadTyped ==
  ASSUME TypeInv, Load PROVE TypeInv'
  <1>1. UNCHANGED <<chain, forks, reorgs, db, args, run, faults>> /\ pc' \in {"range", "check"}
    BY DEF Load, chainVars
  <1>2. prev' = NoSnapshot \/ prev' = db
    BY DEF Load
  <1>3. prev' \in StoredSnapshots(forks) /\ IsHistory(prev'.history)
    BY <1>2, NothingIsTyped DEF TypeInv, ChainOK, ProcessOK
  <1> QED
    BY <1>1, <1>3 DEF TypeInv, ChainOK, ProcessOK, Places

\* The steps that end a pass without a write.
LEMMA AbandonTyped ==
  ASSUME TypeInv, EndPass, UNCHANGED <<chain, forks, reorgs, db>>, faults' \in 0 .. MaxFaults
  PROVE  TypeInv'
  BY EndPassTyped DEF TypeInv, ChainOK, ProcessOK, Places

\* The comparison of the checkpoint.
LEMMA CheckTyped ==
  ASSUME TypeInv, CheckCheckpoint PROVE TypeInv'
  <1>1. UNCHANGED <<chain, forks, reorgs, db, faults>>
    BY DEF CheckCheckpoint, chainVars
  <1>2. CASE EndPass
    BY <1>1, <1>2, AbandonTyped DEF TypeInv, ProcessOK
  <1>3. CASE pc' = "range" /\ UNCHANGED <<run, args>> /\ prev' \in {prev, NoSnapshot}
    <2>1. prev' \in StoredSnapshots(forks) /\ IsHistory(prev'.history)
      BY <1>3, NothingIsTyped DEF TypeInv, ChainOK, ProcessOK
    <2> QED
      BY <1>1, <1>3, <2>1 DEF TypeInv, ChainOK, ProcessOK, Places
  <1>4. CASE /\ run' = [run EXCEPT !.probe = Len(prev.history)]
             /\ pc' = "probe" /\ UNCHANGED <<prev, args>>
    <2>1. Len(prev.history) \in Nat
      BY ListFacts DEF TypeInv, ProcessOK, IsHistory
    <2>2. run' \in Runs(forks) /\ run'.history = run.history /\ run'.probe = Len(prev.history)
      BY <1>4, <2>1 DEF TypeInv, ProcessOK, Runs
    <2> QED
      BY <1>1, <1>4, <2>1, <2>2 DEF TypeInv, ChainOK, ProcessOK, Places
  <1> QED
    BY <1>2, <1>3, <1>4 DEF CheckCheckpoint

\* What a rollback leaves is a snapshot, with the history up to its entry.
LEMMA RollbackTyped ==
  ASSUME NEW f \in Nat, NEW s \in StoredSnapshots(f), IsHistory(s.history),
         NEW i \in DOMAIN s.history
  PROVE  LET entry == s.history[i]
             back  == RollbackToHistoricalSnapshot(s, entry)
         IN  /\ back \in StoredSnapshots(f) /\ IsHistory(back.history)
             /\ HistoryEntry(back) = HistoryEntry(entry)
             /\ Range(back.history) = {e \in Range(s.history) : e.ckpt.to <= entry.ckpt.to}
             /\ entry \in Entries(f) /\ entry \in Range(s.history)
  <1> DEFINE entry == s.history[i]
             back  == RollbackToHistoricalSnapshot(s, entry)
             h     == UpToBlock(s.history, entry.ckpt.to)
  <1>1. Range(s.history) \subseteq Entries(f) /\ entry \in Range(s.history)
    BY ListOf DEF StoredSnapshots, Range
  <1>2. entry \in Entries(f) /\ entry.ckpt.to \in Int
    BY <1>1 DEF Entries, Checkpoints, OptBlock, NoBlock
  <1>3. IsHistory(h) /\ Range(h) = {e \in Range(s.history) : e.ckpt.to <= entry.ckpt.to}
    BY <1>2, UpToBlockFacts
  <1>4. h \in Seq(Entries(f))
    BY <1>1, <1>3, ListOf DEF IsHistory
  <1>5. entry.ckpt \in Checkpoints(f) /\ entry.applied \in Seq(ValidLogs(f))
        /\ entry.dyn \in SUBSET Sources
    BY <1>2 DEF Entries
  <1>6. back = [s EXCEPT !.ckpt = entry.ckpt, !.applied = entry.applied,
                         !.dyn = entry.dyn, !.done = {}, !.history = h]
    BY DEF RollbackToHistoricalSnapshot
  <1> HIDE DEF h, entry, back
  <1>7. /\ back \in StoredSnapshots(f) /\ back.history = h /\ back.ckpt = entry.ckpt
        /\ back.applied = entry.applied /\ back.dyn = entry.dyn
    BY <1>4, <1>5, <1>6 DEF StoredSnapshots
  <1>8. HistoryEntry(back) = HistoryEntry(entry)
    BY <1>7 DEF HistoryEntry
  <1> QED
    BY <1>1, <1>2, <1>3, <1>7, <1>8 DEF entry, back

\* The search for a canonical entry.
LEMMA ProbeTyped ==
  ASSUME TypeInv, ProbeHistory PROVE TypeInv'
  <1>1. UNCHANGED <<chain, forks, reorgs, db, faults>> /\ pc = "probe"
    BY DEF ProbeHistory, chainVars
  <1>2. CASE EndPass
    BY <1>1, <1>2, AbandonTyped DEF TypeInv, ProcessOK
  <1>3. CASE /\ run.probe > 0 /\ pc' = "range" /\ run' = NoRun /\ UNCHANGED args
             /\ prev' = RollbackToHistoricalSnapshot(prev, prev.history[run.probe])
    <2>1. run.probe \in DOMAIN prev.history /\ forks \in Nat
      BY <1>1, <1>3, ListFacts DEF TypeInv, ChainOK, ProcessOK, Runs, IsHistory
    <2>2. prev' \in StoredSnapshots(forks) /\ IsHistory(prev'.history)
      BY <1>3, <2>1, RollbackTyped DEF TypeInv, ProcessOK
    <2> QED
      BY <1>1, <1>3, <2>1, <2>2, NothingIsTyped DEF TypeInv, ChainOK, ProcessOK, Places
  <1>4. CASE /\ run.probe > 0 /\ run' = [run EXCEPT !.probe = run.probe - 1]
             /\ UNCHANGED <<prev, pc, args>>
    <2> DEFINE next == run.probe - 1
    <2>0. next \in Nat /\ run' = [run EXCEPT !.probe = next] /\ run \in Runs(forks)
      BY <1>4 DEF TypeInv, ProcessOK, Runs
    <2> HIDE DEF next
    <2>1. run' \in Runs(forks) /\ run'.history = run.history /\ run'.probe = next
      BY <2>0 DEF Runs
    <2>2. run'.probe <= Len(prev.history)
      BY <1>1, <2>1, ListFacts DEF TypeInv, ProcessOK, Runs, IsHistory, next
    <2> QED
      BY <1>1, <1>4, <2>1, <2>2 DEF TypeInv, ChainOK, ProcessOK, Places
  <1> QED
    BY <1>2, <1>3, <1>4 DEF ProbeHistory

(***************************************************************************)
(* Scans and ranges.                                                        *)
(***************************************************************************)
\* A scan returns logs of the canonical chain, in the range, of the source.
LEMMA ScanFacts ==
  ASSUME ChainOK, NEW src, src.at \in Nat, NEW from \in OptBlock, NEW to \in Int,
         NEW l \in ScanSourceRange(chain, src, from, to)
  PROVE  /\ l \in Logs(forks) /\ l.blk <= to /\ l.blk >= from /\ l.blk >= src.at
         /\ l.ev.addr = src.addr
         /\ l.blk + 1 \in DOMAIN chain /\ l.fork = chain[l.blk + 1].fork
         /\ l.ev \in chain[l.blk + 1].body
  <1> DEFINE lo == MaxOf(from, src.at)
  <1>1. lo \in Nat /\ lo >= from /\ lo >= src.at
    BY DEF MaxOf, OptBlock, NoBlock
  <1>2. PICK b \in BlocksIn(chain, lo, to) : l \in BlockLogs(chain, b) /\ l.ev.addr = src.addr
    BY DEF ScanSourceRange, GetLogs
  <1> HIDE DEF lo
  <1>3. b \in Nat /\ b >= lo /\ b <= to /\ b + 1 \in DOMAIN chain
    BY <1>1, <1>2 DEF BlocksIn
  <1>4. PICK e \in chain[b + 1].body : l = [blk |-> b, fork |-> chain[b + 1].fork, ev |-> e]
    BY <1>2 DEF BlockLogs, LogAt
  <1>5. chain[b + 1] \in Blocks(forks)
    BY <1>3 DEF ChainOK
  <1>6. e \in Events /\ chain[b + 1].fork \in 0 .. forks - 1
    BY <1>5 DEF Blocks, Events
  <1>7. l \in Logs(forks)
    BY <1>3, <1>4, <1>6 DEF Logs
  <1>8. l.blk = b /\ l.fork = chain[b + 1].fork /\ l.ev = e
    BY <1>4
  <1> QED
    BY <1>1, <1>2, <1>3, <1>7, <1>8 DEF OptBlock, NoBlock

\* Where a pass starts and ends.
LEMMA RangeFacts ==
  ASSUME TypeInv, NEW head \in RpcHeads
  PROVE  LET from == SyncStartBlock(args.from, IsSome(prev), prev.ckpt)
             to   == BoundedSyncToBlock(from, args.to, MaxBlocksPerPass, head)
         IN  /\ from \in OptBlock /\ to \in Nat
             /\ IsSome(prev) => from \in Nat
             /\ head \in Nat /\ head <= HeadBlock
  <1> DEFINE from == SyncStartBlock(args.from, IsSome(prev), prev.ckpt)
             to   == BoundedSyncToBlock(from, args.to, MaxBlocksPerPass, head)
  <1>1. prev.ckpt \in Checkpoints(forks) /\ args.from \in OptBlock /\ args.to \in OptBlock
    BY DEF TypeInv, ProcessOK, StoredSnapshots, CommandLines
  <1>2. from \in OptBlock /\ (IsSome(prev) => from \in Nat)
    BY <1>1 DEF SyncStartBlock, IsSome, Checkpoints, OptBlock, NoBlock
  <1>3. head \in Nat /\ head <= HeadBlock
    BY IndexerConstants DEF TypeInv, ChainOK, RpcHeads, HeadBlock, MaxOf
  <1> HIDE DEF from
  <1>4. to \in Nat
    BY <1>1, <1>2, <1>3, IndexerConstants
       DEF BoundedSyncToBlock, BoundedToBlockFromHead, MaxOf, OptBlock, NoBlock
  <1> QED
    BY <1>2, <1>3, <1>4 DEF from

\* The set-up of a pass.
LEMMA ChooseTyped ==
  ASSUME TypeInv, ChooseRange PROVE TypeInv'
  <1>1. UNCHANGED <<chain, forks, reorgs, db, args, faults>> /\ pc' = "scan"
    BY DEF ChooseRange, chainVars
  <1> DEFINE from == SyncStartBlock(args.from, IsSome(prev), prev.ckpt)
  <1>2. PICK head \in RpcHeads :
           run' = [NoRun EXCEPT
                      !.from = from,
                      !.to = BoundedSyncToBlock(from, args.to, MaxBlocksPerPass, head),
                      !.todo = StaticSources \cup prev.dyn,
                      !.done = IF prev.ckpt.complete THEN {} ELSE prev.done,
                      !.applied = prev.applied,
                      !.dyn = prev.dyn]
    BY DEF ChooseRange
  <1> DEFINE to == BoundedSyncToBlock(from, args.to, MaxBlocksPerPass, head)
             todo == StaticSources \cup prev.dyn
             done == IF prev.ckpt.complete THEN {} ELSE prev.done
             applied == prev.applied
             dyn == prev.dyn
  <1>3. from \in OptBlock /\ to \in Nat /\ forks \in Nat
    BY RangeFacts DEF TypeInv, ChainOK
  <1>4. /\ todo \in SUBSET (StaticSources \cup Sources) /\ done \in SUBSET Cursors
        /\ applied \in Seq(ValidLogs(forks)) /\ dyn \in SUBSET Sources
    BY DEF TypeInv, ProcessOK, StoredSnapshots
  <1>5. run' = [NoRun EXCEPT !.from = from, !.to = to, !.todo = todo, !.done = done,
                             !.applied = applied, !.dyn = dyn]
    BY <1>2
  <1> HIDE DEF from, to, todo, done, applied, dyn
  <1>6. run' \in Runs(forks) /\ run'.history = NoRun.history /\ run'.to = to
    BY <1>3, <1>4, <1>5, NothingIsTyped DEF Runs, OptBlock
  <1>7. prev' \in StoredSnapshots(forks) /\ prev'.history = prev.history
    <2>1. prev' = prev \/ prev' = [prev EXCEPT !.origin = args.from]
      BY DEF ChooseRange
    <2>2. args.from \in OptBlock
      BY DEF TypeInv, ProcessOK, CommandLines
    <2> QED
      BY <2>1, <2>2 DEF TypeInv, ProcessOK, StoredSnapshots
  <1> QED
    BY <1>1, <1>3, <1>6, <1>7, EmptyHistory
       DEF TypeInv, ChainOK, ProcessOK, Places, NoRun

\* One source of the scan.
LEMMA ScanTyped ==
  ASSUME TypeInv, ScanSource PROVE TypeInv'
  <1>1. UNCHANGED <<chain, forks, reorgs, db, pc, args, prev, faults>> /\ pc = "scan"
    BY DEF ScanSource, chainVars
  <1>2. PICK src \in run.todo :
           run' = [run EXCEPT
                     !.todo = run.todo \ {src},
                     !.pending = run.pending \cup
                                   ScanSourceRange(chain, src, run.from, run.to)]
    BY DEF ScanSource
  <1> DEFINE todo == run.todo \ {src}
             found == ScanSourceRange(chain, src, run.from, run.to)
             pending == run.pending \cup found
  <1>3. src.at \in Nat
    BY IndexerConstants DEF TypeInv, ProcessOK, Runs, Sources
  <1>4. run.from \in OptBlock /\ run.to \in Nat
    BY <1>1 DEF TypeInv, ProcessOK, Runs
  <1>5. found \in SUBSET Logs(forks)
    BY <1>3, <1>4, ScanFacts DEF TypeInv
  <1>6. pending \in SUBSET Logs(forks) /\ todo \in SUBSET (StaticSources \cup Sources)
    BY <1>5 DEF TypeInv, ProcessOK, Runs
  <1> HIDE DEF todo, found, pending
  <1>7. run' \in Runs(forks) /\ run'.history = run.history /\ run'.to = run.to
    BY <1>2, <1>6 DEF TypeInv, ProcessOK, Runs, todo, pending, found
  <1> QED
    BY <1>1, <1>7 DEF TypeInv, ChainOK, ProcessOK

\* The end of the scans.
LEMMA ScansDoneTyped ==
  ASSUME TypeInv, ScansDone PROVE TypeInv'
  BY DEF TypeInv, ChainOK, ProcessOK, ScansDone, chainVars, Places

(***************************************************************************)
(* Execution.                                                               *)
(***************************************************************************)
\* What a request for a hash may answer.
LEMMA HashFacts ==
  ASSUME ChainOK, NEW b
  PROVE  \A hash \in RpcHashes(b) :
            /\ hash \in (0 .. forks - 1) \cup {NoHash}
            /\ hash # NoHash => b + 1 \in DOMAIN chain /\ hash = chain[b + 1].fork
  <1> SUFFICES ASSUME NEW hash \in RpcHashes(b), hash # NoHash
               PROVE  /\ hash \in 0 .. forks - 1
                      /\ b + 1 \in DOMAIN chain /\ hash = chain[b + 1].fork
    OBVIOUS
  <1>1. b + 1 \in DOMAIN chain /\ hash = chain[b + 1].fork
    BY DEF RpcHashes
  <1>2. chain[b + 1] \in Blocks(forks)
    BY <1>1 DEF ChainOK
  <1> QED
    BY <1>1, <1>2 DEF Blocks

\* What ExecuteLog makes of the pass: the logs it knows, the sources it follows,
\* the entry it may record, and all of it.
PendingAfter(log) == run.pending \cup NewSourceLogs(log)
DoneAfter(log) == run.done \cup {LogId(log)}
DynAfter(log) == run.dyn \cup NewSources(log)

EntryAfter(log) ==
    [ckpt |-> [from |-> run.from, to |-> log.blk, hash |-> log.fork, complete |-> FALSE],
     applied |-> Append(run.applied, log), dyn |-> DynAfter(log)]

HistoryAfter(log) ==
    IF HasUnprocessedLogInBlock(PendingAfter(log), DoneAfter(log), log.blk)
    THEN run.history ELSE PushHistorySnapshot(run.history, EntryAfter(log), 0)

RunAfter(log, meta) ==
    [run EXCEPT !.pending = PendingAfter(log), !.done = DoneAfter(log),
                !.applied = Append(run.applied, log), !.dyn = DynAfter(log),
                !.executed = run.executed + 1, !.last = log.blk, !.meta = meta,
                !.history = HistoryAfter(log)]

\* A log that runs is one of the pass, and leaves the pass well typed.
LEMMA ExecuteFacts ==
  ASSUME TypeInv, ExecuteLog
  PROVE  \E log \in NextUnprocessedLogs(run.pending, run.done) :
            /\ log \in run.pending /\ log \in ValidLogs(forks)
            /\ ~LimitReached(Limit, run.executed, log, run.last)
            /\ PendingAfter(log) \in SUBSET Logs(forks)
            /\ NewSources(log) \in SUBSET Sources
            /\ EntryAfter(log) \in Entries(forks)
            /\ EntryAfter(log).ckpt = [from |-> run.from, to |-> log.blk, hash |-> log.fork,
                                       complete |-> FALSE]
            /\ run' \in Runs(forks)
            /\ IsHistory(run'.history)
            /\ run'.history = HistoryAfter(log)
            /\ Range(run'.history) \subseteq Range(run.history) \cup {EntryAfter(log)}
            /\ run'.pending = PendingAfter(log) /\ run'.done = DoneAfter(log)
            /\ run'.applied = Append(run.applied, log) /\ run'.dyn = DynAfter(log)
            /\ run'.executed = run.executed + 1 /\ run'.last = log.blk
            /\ run'.from = run.from /\ run'.to = run.to /\ run'.errors = run.errors
            /\ run'.meta \in MetaAfter(log.blk)
  <1>0. PICK log \in NextUnprocessedLogs(run.pending, run.done) :
           /\ log.ev.ok
           /\ ~LimitReached(Limit, run.executed, log, run.last)
           /\ \E meta \in MetaAfter(log.blk) : run' = RunAfter(log, meta)
    BY DEF ExecuteLog, RunAfter, HistoryAfter, EntryAfter, PendingAfter, DoneAfter, DynAfter
  <1>1. PICK meta \in MetaAfter(log.blk) : run' = RunAfter(log, meta)
    BY <1>0
  <1> DEFINE pending == PendingAfter(log)
             done    == DoneAfter(log)
             applied == Append(run.applied, log)
             dyn     == DynAfter(log)
             entry   == EntryAfter(log)
             executed == run.executed + 1
             history == HistoryAfter(log)
  <1>2. /\ run \in Runs(forks) /\ IsHistory(run.history) /\ run.from \in OptBlock
        /\ run.to \in Nat /\ pc = "execute" /\ forks \in Nat
    BY DEF TypeInv, ChainOK, ProcessOK, Runs, ExecuteLog
  <1>3. log \in run.pending /\ log \in Logs(forks) /\ log \in ValidLogs(forks)
    BY <1>0, <1>2 DEF NextUnprocessedLogs, Unprocessed, Runs, ValidLogs
  <1>4. log.blk \in Nat /\ log.fork \in 0 .. forks - 1 /\ log.ev \in Events
    BY <1>3 DEF Logs
  <1>5. NewSources(log) \in SUBSET Sources
    BY <1>4 DEF NewSources, Sources
  <1>6. pending \in SUBSET Logs(forks)
    <2>1. NewSourceLogs(log) \subseteq Logs(forks)
      <3> SUFFICES ASSUME NEW l \in NewSourceLogs(log) PROVE l \in Logs(forks)
        OBVIOUS
      <3>1. PICK src \in NewSources(log) : l \in ScanSourceRange(chain, src, log.blk, run.to)
        BY DEF NewSourceLogs
      <3>2. src.at \in Nat
        BY <1>5 DEF Sources
      <3> QED
        BY <1>2, <1>4, <3>1, <3>2, ScanFacts DEF TypeInv, OptBlock
    <2> QED
      BY <1>2, <2>1 DEF Runs, PendingAfter
  <1>7. done \in SUBSET Cursors
    <2>1. log \in [blk : Nat, fork : Nat, ev : Events]
      BY <1>2, <1>3 DEF Logs
    <2> QED
      BY <1>2, <2>1 DEF Runs, Cursors, DoneAfter
  <1>8. applied \in Seq(ValidLogs(forks)) /\ dyn \in SUBSET Sources
    <2> DEFINE V == ValidLogs(forks)
    <2>1. run.applied \in Seq(V) /\ log \in V
      BY <1>2, <1>3 DEF Runs
    <2> HIDE DEF V
    <2>2. applied \in Seq(V)
      BY <2>1
    <2> QED
      BY <1>2, <1>5, <2>2 DEF Runs, V, DynAfter
  <1> HIDE DEF applied
  <1>9. /\ entry \in Entries(forks)
        /\ entry.ckpt = [from |-> run.from, to |-> log.blk, hash |-> log.fork,
                         complete |-> FALSE]
    <2>1. [from |-> run.from, to |-> log.blk, hash |-> log.fork, complete |-> FALSE]
             \in Checkpoints(forks)
      BY <1>2, <1>4 DEF Checkpoints, OptBlock
    <2> QED
      BY <1>8, <2>1 DEF Entries, EntryAfter, applied
  <1>10. meta \in (0 .. forks - 1) \cup {NoHash, NotCached}
    <2>1. run.meta \in (0 .. forks - 1) \cup {NoHash, NotCached}
      BY <1>2 DEF Runs
    <2>2. CASE log.blk = run.to /\ run.meta = NotCached
      BY <1>1, <2>2, HashFacts DEF MetaAfter, TypeInv
    <2>3. CASE ~(log.blk = run.to /\ run.meta = NotCached)
      BY <1>1, <2>1, <2>3 DEF MetaAfter
    <2> QED
      BY <2>2, <2>3
  <1> HIDE DEF entry, pending, done, applied, dyn
  <1>11. IsHistory(history) /\ Range(history) \subseteq Range(run.history) \cup {entry}
    <2>1. entry.ckpt.to \in Int
      BY <1>4, <1>9
    <2>2. history \in {run.history, PushHistorySnapshot(run.history, entry, 0)}
      BY DEF HistoryAfter, entry
    <2> QED
      BY <1>2, <2>1, <2>2, PushFacts
  <1>12. history \in Seq(Entries(forks))
    <2>1. run.history \in Seq(Entries(forks))
      BY <1>2 DEF Runs
    <2>2. Range(run.history) \subseteq Entries(forks)
      BY <2>1, ListOf
    <2>3. IsList(history) /\ Range(history) \subseteq Entries(forks)
      BY <1>9, <1>11, <2>2 DEF IsHistory
    <2> QED
      BY <2>3, ListOf
  <1>13. executed \in Nat
    BY <1>2 DEF Runs
  <1>14. run' = [run EXCEPT !.pending = pending, !.done = done, !.applied = applied,
                            !.dyn = dyn, !.executed = executed, !.last = log.blk,
                            !.meta = meta, !.history = history]
    BY <1>1 DEF RunAfter, pending, done, applied, dyn
  <1> HIDE DEF executed, history
  <1>15. /\ run' \in Runs(forks) /\ run'.history = history
         /\ run'.pending = pending /\ run'.done = done /\ run'.applied = applied
         /\ run'.dyn = dyn /\ run'.executed = executed
         /\ run'.from = run.from /\ run'.to = run.to /\ run'.errors = run.errors
         /\ run'.last = log.blk /\ run'.meta = meta
    BY <1>2, <1>4, <1>6, <1>7, <1>8, <1>10, <1>12, <1>13, <1>14 DEF Runs, OptBlock
  <1> QED
    BY <1>0, <1>3, <1>5, <1>6, <1>8, <1>9, <1>11, <1>15
       DEF entry, pending, done, applied, dyn, executed, history

\* A log whose handler runs.
LEMMA ExecuteTyped ==
  ASSUME TypeInv, ExecuteLog PROVE TypeInv'
  <1>1. UNCHANGED <<chain, forks, reorgs, db, pc, args, prev, faults>> /\ pc = "execute"
    BY DEF ExecuteLog, chainVars
  <1>2. run' \in Runs(forks) /\ IsHistory(run'.history) /\ run'.to = run.to
    BY ExecuteFacts
  <1> QED
    BY <1>1, <1>2 DEF TypeInv, ChainOK, ProcessOK

\* What a log whose handler is rejected does to the pass.
LEMMA RejectFacts ==
  ASSUME TypeInv, RejectLog
  PROVE  \E log \in NextUnprocessedLogs(run.pending, run.done) :
            /\ log \in run.pending
            /\ run' \in Runs(forks) /\ run'.history = run.history
            /\ run'.pending = run.pending /\ run'.done = run.done
            /\ run'.applied = run.applied /\ run'.dyn = run.dyn
            /\ run'.executed = run.executed + 1 /\ run'.errors = run.errors + 1
            /\ run'.from = run.from /\ run'.to = run.to /\ run'.last = run.last
            /\ run'.meta \in MetaAfter(log.blk)
  <1>1. PICK log \in NextUnprocessedLogs(run.pending, run.done) :
           \E meta \in MetaAfter(log.blk) :
              run' = [run EXCEPT !.executed = run.executed + 1, !.errors = run.errors + 1,
                                 !.meta = meta]
    BY DEF RejectLog
  <1>2. PICK meta \in MetaAfter(log.blk) :
           run' = [run EXCEPT !.executed = run.executed + 1, !.errors = run.errors + 1,
                              !.meta = meta]
    BY <1>1
  <1>3. run \in Runs(forks)
    BY DEF TypeInv, ProcessOK
  <1>4. log \in run.pending
    BY DEF NextUnprocessedLogs, Unprocessed
  <1>5. meta \in (0 .. forks - 1) \cup {NoHash, NotCached}
    <2>1. run.meta \in (0 .. forks - 1) \cup {NoHash, NotCached}
      BY <1>3 DEF Runs
    <2>2. CASE log.blk = run.to /\ run.meta = NotCached
      BY <1>2, <2>2, HashFacts DEF MetaAfter, TypeInv
    <2>3. CASE ~(log.blk = run.to /\ run.meta = NotCached)
      BY <1>2, <2>1, <2>3 DEF MetaAfter
    <2> QED
      BY <2>2, <2>3
  <1> DEFINE executed == run.executed + 1
             errors == run.errors + 1
  <1>6. executed \in Nat /\ errors \in Nat
    BY <1>3 DEF Runs
  <1>7. run' = [run EXCEPT !.executed = executed, !.errors = errors, !.meta = meta]
    BY <1>2
  <1> HIDE DEF executed, errors
  <1>8. /\ run' \in Runs(forks) /\ run'.history = run.history
        /\ run'.pending = run.pending /\ run'.done = run.done
        /\ run'.applied = run.applied /\ run'.dyn = run.dyn
        /\ run'.executed = executed /\ run'.errors = errors
        /\ run'.from = run.from /\ run'.to = run.to /\ run'.last = run.last
        /\ run'.meta = meta
    BY <1>3, <1>5, <1>6, <1>7 DEF Runs
  <1> QED
    BY <1>4, <1>8 DEF executed, errors

\* A rejected log.
LEMMA RejectTyped ==
  ASSUME TypeInv, RejectLog PROVE TypeInv'
  <1>1. UNCHANGED <<chain, forks, reorgs, db, args, prev, faults>>
        /\ pc = "execute" /\ pc' = "finish"
    BY DEF RejectLog, chainVars
  <1>2. run' \in Runs(forks) /\ run'.history = run.history /\ run'.to = run.to
    BY RejectFacts
  <1> QED
    BY <1>1, <1>2 DEF TypeInv, ChainOK, ProcessOK, Places

\* The end of the execution.
LEMMA StopTyped ==
  ASSUME TypeInv, StopExecuting PROVE TypeInv'
  BY DEF TypeInv, ChainOK, ProcessOK, StopExecuting, chainVars, Places

(***************************************************************************)
(* The write.                                                               *)
(***************************************************************************)
\* The entry of the snapshot the pass continued from, if there was one.
OldEntry(p) == IF IsSome(p) THEN <<HistoryEntry(p)>> ELSE <<>>

\* What merge_history gets on top of the previous history.
NewsOf(ckpt) ==
    OldEntry(prev) \o run.history \o
        <<[ckpt |-> ckpt, applied |-> run.applied, dyn |-> run.dyn]>>

\* The snapshot of a pass: its parts, and its history.
LEMMA SnapshotFacts ==
  ASSUME TypeInv, NEW ckpt \in Checkpoints(forks)
  PROVE  LET new == SnapshotOf(ckpt)
             news == NewsOf(ckpt)
         IN  /\ new \in StoredSnapshots(forks)
             /\ new.ckpt = ckpt /\ new.applied = run.applied /\ new.dyn = run.dyn
             /\ new.done = (IF ckpt.complete THEN {} ELSE run.done)
             /\ new.origin = prev.origin
             /\ new.history = MergeHistory(prev.history, news, HistoryLimit)
             /\ IsHistory(new.history)
             /\ Range(new.history) \subseteq Range(prev.history) \cup Range(news)
             /\ Range(news) = {HistoryEntry(new)} \cup Range(run.history)
                                 \cup (IF IsSome(prev) THEN {HistoryEntry(prev)} ELSE {})
             /\ IsList(news) /\ Numbered(news) /\ Len(news) \in Nat \ {0}
             /\ news[Len(news)] = HistoryEntry(new)
  <1> DEFINE done == IF ckpt.complete THEN {} ELSE run.done
             new0 == [prev EXCEPT !.ckpt = ckpt, !.applied = run.applied,
                                  !.dyn = run.dyn, !.done = done]
             last == [ckpt |-> ckpt, applied |-> run.applied, dyn |-> run.dyn]
             news == NewsOf(ckpt)
             merged == MergeHistory(prev.history, news, HistoryLimit)
             new == SnapshotOf(ckpt)
             E == Entries(forks)
             S == IF IsSome(prev) THEN {HistoryEntry(prev)} ELSE {}
  <1>1. /\ prev \in StoredSnapshots(forks) /\ IsHistory(prev.history)
        /\ run \in Runs(forks) /\ IsHistory(run.history)
    BY DEF TypeInv, ProcessOK
  <1>2. done \in SUBSET Cursors
    BY <1>1 DEF Runs
  <1> HIDE DEF done
  <1>3. /\ new0 \in StoredSnapshots(forks) /\ new0.ckpt = ckpt /\ new0.applied = run.applied
        /\ new0.dyn = run.dyn /\ new0.done = done /\ new0.origin = prev.origin
    BY <1>1, <1>2 DEF StoredSnapshots, Runs
  <1>4. HistoryEntry(new0) = last
    BY <1>3 DEF HistoryEntry
  <1>5. new = [new0 EXCEPT !.history = merged]
    BY <1>4 DEF SnapshotOf, NewsOf, OldEntry, done
  <1>6. last \in E /\ HistoryEntry(prev) \in E /\ run.history \in Seq(E) /\ prev.history \in Seq(E)
    BY <1>1 DEF Entries, Runs, StoredSnapshots, HistoryEntry
  <1> HIDE DEF new0, merged, E, last
  <1>7. /\ news \in Seq(E) /\ Len(news) \in Nat \ {0} /\ news[Len(news)] = last
        /\ Range(news) = {last} \cup Range(run.history) \cup S
    <2> DEFINE old == OldEntry(prev)
               mid == old \o run.history
    <2>1. old \in Seq(E) /\ Range(old) = S
      BY <1>6 DEF OldEntry, Range
    <2> HIDE DEF old, S
    <2>2. mid \in Seq(E) /\ Range(mid) = S \cup Range(run.history)
      BY <1>6, <2>1, ConcatFacts
    <2>3. news = mid \o <<last>>
      BY DEF NewsOf, last, old
    <2> HIDE DEF mid, news
    <2>4. news \in Seq(E) /\ Len(news) \in Nat \ {0} /\ news[Len(news)] = last
          /\ Range(news) = Range(mid) \cup {last}
      <3> DEFINE u == Append(mid, last)
      <3>1. /\ mid \o <<last>> = u /\ u \in Seq(E) /\ Len(u) = Len(mid) + 1 /\ Len(mid) \in Nat
            /\ u[Len(u)] = last /\ Range(u) = Range(mid) \cup {last}
        BY <1>6, <2>2, AppendFacts
      <3>2. news = u
        BY <2>3, <3>1
      <3> HIDE DEF u
      <3> QED
        BY <3>1, <3>2
    <2> QED
      BY <2>2, <2>4
  <1>8. IsList(news) /\ Numbered(news)
    <2>1. IsList(news) /\ Range(news) \subseteq E
      BY <1>7, ListOf
    <2>2. \A e \in E : e.ckpt.to \in Int
      BY DEF E, Entries, Checkpoints, OptBlock, NoBlock
    <2> QED
      BY <2>1, <2>2 DEF Numbered, Range
  <1> HIDE DEF news
  <1>9. IsHistory(merged) /\ Range(merged) \subseteq Range(prev.history) \cup Range(news)
    BY <1>1, <1>8, MergeFacts, IndexerConstants DEF merged
  <1>10. merged \in Seq(E)
    <2>1. Range(prev.history) \subseteq E /\ Range(news) \subseteq E
      BY <1>6, <1>7, ListOf
    <2> QED
      BY <1>9, <2>1, ListOf DEF IsHistory
  <1> HIDE DEF new
  <1>11. /\ new \in StoredSnapshots(forks) /\ new.history = merged /\ new.ckpt = ckpt
         /\ new.applied = run.applied /\ new.dyn = run.dyn /\ new.done = done
         /\ new.origin = prev.origin
    BY <1>3, <1>5, <1>10 DEF StoredSnapshots, E
  <1>12. HistoryEntry(new) = last
    BY <1>11 DEF HistoryEntry, last
  <1> QED
    BY <1>7, <1>8, <1>9, <1>11, <1>12 DEF new, news, merged, done

\* What the end of a pass writes: nothing, or the snapshot of the pass.
LEMMA FinishFacts ==
  ASSUME TypeInv, FinishPass
  PROVE  \E ckpt \in Checkpoints(forks) :
            /\ ckpt.from = run.from /\ ckpt.to = run.to /\ ckpt.hash \in TargetHashes
            /\ ckpt.complete = (Unprocessed(run.pending, run.done) = {})
            /\ IF /\ IsSome(prev)
                  /\ ShouldKeepPrevious(prev.ckpt, run.from, run.to, ckpt.complete,
                                        run.executed, run.errors, args.to)
               THEN db' = db
               ELSE db' = SnapshotOf(ckpt)
  <1> DEFINE complete == Unprocessed(run.pending, run.done) = {}
  <1>1. PICK hash \in TargetHashes :
           LET ckpt == [from |-> run.from, to |-> run.to, hash |-> hash, complete |-> complete]
           IN  db' = IF /\ IsSome(prev)
                        /\ ShouldKeepPrevious(prev.ckpt, run.from, run.to, ckpt.complete,
                                              run.executed, run.errors, args.to)
                     THEN db
                     ELSE SnapshotOf(ckpt)
    BY DEF FinishPass
  <1> DEFINE ckpt == [from |-> run.from, to |-> run.to, hash |-> hash, complete |-> complete]
  <1>2. run \in Runs(forks) /\ pc = "finish"
    BY DEF TypeInv, ProcessOK, FinishPass
  <1>3. hash \in (0 .. forks - 1) \cup {NoHash}
    <2>1. CASE run.meta = NotCached
      BY <2>1, HashFacts DEF TargetHashes, TypeInv
    <2>2. CASE run.meta # NotCached
      BY <1>2, <2>2 DEF TargetHashes, Runs
    <2> QED
      BY <2>1, <2>2
  <1>4. complete \in BOOLEAN
    OBVIOUS
  <1>5. ckpt \in Checkpoints(forks)
    <2> HIDE DEF complete
    <2> QED
      BY <1>2, <1>3, <1>4 DEF Checkpoints, Runs, OptBlock
  <1>6. ckpt.from = run.from /\ ckpt.to = run.to /\ ckpt.hash = hash /\ ckpt.complete = complete
    OBVIOUS
  <1> HIDE DEF complete, ckpt
  <1>7. IF /\ IsSome(prev)
           /\ ShouldKeepPrevious(prev.ckpt, run.from, run.to, ckpt.complete,
                                 run.executed, run.errors, args.to)
        THEN db' = db
        ELSE db' = SnapshotOf(ckpt)
    BY <1>1 DEF ckpt
  <1> QED
    BY <1>5, <1>6, <1>7 DEF complete

\* The end of a pass.
LEMMA FinishTyped ==
  ASSUME TypeInv, FinishPass PROVE TypeInv'
  <1>1. UNCHANGED <<chain, forks, reorgs, faults>> /\ EndPass
    BY DEF FinishPass, chainVars
  <1>2. PICK ckpt \in Checkpoints(forks) : db' = db \/ db' = SnapshotOf(ckpt)
    BY FinishFacts
  <1>3. db' \in StoredSnapshots(forks) /\ IsHistory(db'.history)
    BY <1>2, SnapshotFacts DEF TypeInv, ProcessOK
  <1> QED
    BY <1>1, <1>3, EndPassTyped DEF TypeInv, ChainOK, ProcessOK, Places

\* Failures.
LEMMA FailTyped ==
  ASSUME TypeInv, FailPass \/ Crash PROVE TypeInv'
  <1>1. UNCHANGED <<chain, forks, reorgs, db>> /\ faults' \in 0 .. MaxFaults
    BY IndexerConstants DEF FailPass, Crash, chainVars, TypeInv, ProcessOK
  <1>2. CASE FailPass
    BY <1>1, <1>2, AbandonTyped DEF FailPass
  <1>3. CASE Crash
    BY <1>1, <1>3, NothingIsTyped DEF Crash, TypeInv, ChainOK, ProcessOK, Places
  <1> QED
    BY <1>2, <1>3

\* TypeInv holds of every reachable state.
LEMMA TypeInvHolds ==
  Spec => []TypeInv
  <1>1. Init => TypeInv
    <2> SUFFICES ASSUME Init PROVE TypeInv
      OBVIOUS
    <2>1. PICK body \in Contents : chain = <<[fork |-> 0, body |-> body]>>
      BY DEF Init, ChainInit
    <2>2. [fork |-> 0, body |-> body] \in Blocks(1)
      BY DEF Blocks
    <2> DEFINE block == [fork |-> 0, body |-> body]
               B == Blocks(1)
    <2>3. chain = <<block>> /\ block \in B
      BY <2>1, <2>2
    <2> HIDE DEF block, B
    <2>4. chain \in Seq(B) /\ Len(chain) = 1
      BY <2>3
    <2>5. ChainOK
      BY <2>4, ChainConstants DEF Init, ChainInit, ChainOK, B
    <2>6. ProcessOK
      BY NothingIsTyped, IndexerConstants DEF Init, ChainInit, ProcessOK, Places
    <2> QED
      BY <2>5, <2>6 DEF TypeInv
  <1>2. TypeInv /\ [Next]_vars => TypeInv'
    <2> SUFFICES ASSUME TypeInv, [Next]_vars PROVE TypeInv'
      OBVIOUS
    <2>1. CASE UNCHANGED vars
      BY <2>1 DEF vars, TypeInv, ChainOK, ProcessOK
    <2>2. CASE Step
      BY <2>2, LaunchTyped, LoadTyped, CheckTyped, ProbeTyped, ChooseTyped, ScanTyped,
         ScansDoneTyped, ExecuteTyped, RejectTyped, StopTyped, FinishTyped DEF Step
    <2> QED
      BY <2>1, <2>2, MineTyped, ReorgTyped, FailTyped DEF Next
  <1> QED
    BY <1>1, <1>2, PTL DEF Spec

\* The snapshot, the pass in progress and the chain hold blocks, hashes and logs
\* that existed, and the store only logs whose entities validated: for any chain,
\* deployment and command line.
THEOREM TypeCorrect ==
  Spec => []TypeOK
  <1>1. TypeInv => TypeOK
    <2> SUFFICES ASSUME TypeInv PROVE TypeOK
      OBVIOUS
    <2>1. ASSUME NEW l \in Logs(forks) PROVE LogOf(l)
      BY DEF Logs, LogOf
    <2>2. ASSUME NEW c \in Checkpoints(forks) PROVE CheckpointOK(c)
      BY DEF Checkpoints, CheckpointOK, OptBlock
    <2>3. ASSUME NEW s, s.ckpt \in Checkpoints(forks), s.applied \in Seq(ValidLogs(forks)),
                 s.dyn \in SUBSET Sources
          PROVE  StoreOK(s)
      <3>1. \A i \in DOMAIN s.applied : s.applied[i] \in ValidLogs(forks)
        <4> DEFINE V == ValidLogs(forks)
        <4>1. s.applied \in Seq(V)
          BY <2>3
        <4> HIDE DEF V
        <4>2. \A i \in DOMAIN s.applied : s.applied[i] \in V
          BY <4>1
        <4> QED
          BY <4>2 DEF V
      <3>2. \A d \in s.dyn : d.at \in Nat
        BY <2>3 DEF Sources
      <3> QED
        BY <2>1, <2>2, <2>3, <3>1, <3>2 DEF StoreOK, ValidLogs
    <2>4. StoreOK(db) /\ StoreOK(prev)
      BY <2>3 DEF TypeInv, ProcessOK, StoredSnapshots
    <2>5. ASSUME NEW h \in Seq(Entries(forks)), NEW i \in DOMAIN h PROVE StoreOK(h[i])
      <3>1. h[i] \in Entries(forks)
        BY <2>5, ListOf DEF Range
      <3> QED
        BY <2>3, <3>1 DEF Entries
    <2>6. /\ \A i \in DOMAIN db.history : StoreOK(db.history[i])
          /\ \A i \in DOMAIN run.history : StoreOK(run.history[i])
      BY <2>5 DEF TypeInv, ProcessOK, StoredSnapshots, Runs
    <2>7. \A b \in DOMAIN chain : chain[b].fork \in 0 .. forks - 1
      <3>1. \A b \in DOMAIN chain : chain[b] \in Blocks(forks)
        BY ListOf DEF TypeInv, ChainOK, Range
      <3> QED
        BY <3>1 DEF Blocks
    <2>8. (\A l \in run.pending : LogOf(l)) /\ run.meta \in 0 .. forks - 1 \cup {NoHash, NotCached}
      BY <2>1 DEF TypeInv, ProcessOK, Runs
    <2>9. /\ Len(chain) \in 1 .. MaxHead + 1 /\ reorgs \in 0 .. MaxReorgs
          /\ faults \in 0 .. MaxFaults /\ pc \in Places
      BY DEF TypeInv, ChainOK, ProcessOK
    <2> QED
      BY <2>4, <2>6, <2>7, <2>8, <2>9 DEF TypeOK, Places
  <1> QED
    BY <1>1, TypeInvHolds, PTL

(***************************************************************************)
(* A canonical checkpoint never moves back.  The pass that holds it starts   *)
(* behind it (SyncStartBlock), so a target in front of it is an empty pass,  *)
(* which ShouldKeepPrevious recognises.                                      *)
(***************************************************************************)
InPass == pc \in {"check", "probe", "range", "scan", "execute", "finish"}
Scanned == pc \in {"scan", "execute", "finish"}

\* The stored checkpoint is one the indexer should continue from.
Held == ~args.reset /\ IsSome(db) /\ Canonical(db.ckpt)

ForwardInv ==
    /\ args.to = NoBlock
    /\ InPass /\ Held => prev = db /\ pc # "probe"
    /\ Scanned /\ IsSome(prev) /\ prev.ckpt.complete => run.from = prev.ckpt.to + 1
    /\ Scanned /\ run.from > run.to => run.pending = {} /\ run.executed = 0 /\ run.errors = 0

\* A checkpoint the chain has lost never becomes canonical again: every block has
\* a hash of its own.
LEMMA LostStaysLost ==
  ASSUME TypeInv, Mine \/ Reorg, NEW c \in Checkpoints(forks), Canonical(c)'
  PROVE  Canonical(c)
  <1>1. /\ c.hash # NoHash /\ c.hash \in 0 .. forks - 1 /\ c.to + 1 \in DOMAIN chain'
        /\ chain'[c.to + 1].fork = c.hash /\ c.to \in Int
    BY DEF Canonical, IsCanonical, Checkpoints, OptBlock, NoBlock
  <1>2. /\ chain \in Seq(Blocks(forks)) /\ Len(chain) \in Nat /\ DOMAIN chain = 1 .. Len(chain)
        /\ forks \in Nat
    BY DEF TypeInv, ChainOK
  <1>3. CASE Mine
    <2>1. PICK body \in Contents : chain' = Append(chain, [fork |-> forks, body |-> body])
      BY <1>3 DEF Mine, MineBlock
    <2> DEFINE B == Blocks(forks + 1)
               new == [fork |-> forks, body |-> body]
               n == Len(chain)
    <2>2. chain \in Seq(B) /\ new \in B /\ new.fork = forks
      <3>1. forks + 1 \in Nat /\ forks <= forks + 1
        BY <1>2
      <3>2. Blocks(forks) \subseteq B
        BY <1>2, <3>1, TypesGrow
      <3>3. new \in B
        BY <1>2 DEF Blocks
      <3> HIDE DEF B, new
      <3>4. chain \in Seq(B)
        BY <1>2, <3>2
      <3> QED
        BY <3>3, <3>4 DEF new
    <2>3. chain' = Append(chain, new)
      BY <2>1
    <2> HIDE DEF B, new
    <2>4. /\ DOMAIN chain' = 1 .. n + 1 /\ chain'[n + 1] = new
          /\ \A i \in 1 .. n : chain'[i] = chain[i]
      BY <1>2, <2>2, <2>3
    <2> HIDE DEF n
    <2>5. c.to + 1 # n + 1
      BY <1>1, <1>2, <2>2, <2>4
    <2>6. c.to + 1 \in 1 .. n
      BY <1>1, <1>2, <2>4, <2>5 DEF n
    <2> QED
      BY <1>1, <1>2, <2>4, <2>6 DEF Canonical, IsCanonical, n
  <1>4. CASE Reorg
    <2>1. PICK d \in 1 .. MaxReorgDepth :
             /\ d <= Len(chain)
             /\ LET kept == Len(chain) - d
                IN \E bodies \in [1 .. d -> Contents] :
                      chain' = [b \in 1 .. Len(chain) |->
                                  IF b <= kept THEN chain[b]
                                  ELSE [fork |-> forks + (b - kept) - 1,
                                        body |-> bodies[b - kept]]]
      BY <1>4 DEF Reorg, ReplaceBlocks
    <2> DEFINE n == Len(chain)
               kept == n - d
               b == c.to + 1
    <2>2. PICK bodies \in [1 .. d -> Contents] :
             chain' = [i \in 1 .. n |->
                         IF i <= kept THEN chain[i]
                         ELSE [fork |-> forks + (i - kept) - 1, body |-> bodies[i - kept]]]
      BY <2>1
    <2>3. b \in 1 .. n /\ d \in Nat /\ n \in Nat /\ kept \in Nat
      BY <1>1, <1>2, <2>1, <2>2
    <2>4. b <= kept
      <3>1. SUFFICES ASSUME b > kept PROVE FALSE
        BY <2>3
      <3>2. chain'[b].fork = forks + (b - kept) - 1
        BY <2>2, <2>3, <3>1
      <3> QED
        BY <1>1, <1>2, <2>3, <3>1, <3>2
    <2>5. chain'[b] = chain[b]
      BY <2>2, <2>3, <2>4
    <2> QED
      BY <1>1, <1>2, <2>3, <2>5 DEF Canonical, IsCanonical
  <1> QED
    BY <1>3, <1>4

\* A mismatch shows that the chain has lost the block.
LEMMA MismatchIsLost ==
  ASSUME TypeInv, NEW c, NEW hash \in RpcHashes(c.to), BlockHashMismatch(c.hash, hash)
  PROVE  ~Canonical(c)
  BY HashFacts DEF BlockHashMismatch, Canonical, IsCanonical, TypeInv

\* ForwardInv is inductive, when no target block is given.
LEMMA ForwardStep ==
  ASSUME ToArgs \subseteq {NoBlock}, TypeInv, ForwardInv, [Next]_vars
  PROVE  ForwardInv'
  <1> USE DEF ForwardInv
  <1>1. CASE UNCHANGED vars
    BY <1>1 DEF vars, InPass, Scanned, Held, Canonical, IsCanonical
  <1>2. CASE Mine \/ Reorg
    <2>1. UNCHANGED <<db, pc, args, prev, run>>
      BY <1>2 DEF Mine, Reorg, procVars
    <2>2. Held' => Held
      <3>1. db.ckpt \in Checkpoints(forks)
        BY DEF TypeInv, ProcessOK, StoredSnapshots
      <3>2. Canonical(db.ckpt)' => Canonical(db.ckpt)
        <4> SUFFICES ASSUME Canonical(db.ckpt)' PROVE Canonical(db.ckpt)
          OBVIOUS
        <4> DEFINE c == db.ckpt
        <4>1. IsCanonical(c.to, c.hash)'
          BY <2>1 DEF Canonical
        <4> QED
          BY <1>2, <2>1, <3>1, LostStaysLost DEF Canonical, IsCanonical
      <3> QED
        BY <2>1, <3>2 DEF Held
    <2> QED
      BY <2>1, <2>2 DEF InPass, Scanned
  <1>3. CASE EndPass
    <2>1. pc' \in {"load", "down"} /\ args'.to = NoBlock
      BY <1>3, EndPassTyped
    <2> QED
      BY <2>1 DEF InPass, Scanned
  <1>4. CASE Crash
    BY <1>4 DEF Crash, InPass, Scanned, NoArgs
  <1>5. CASE Launch
    <2>1. args'.to = NoBlock /\ pc' = "load"
      BY <1>5 DEF Launch
    <2> QED
      BY <2>1 DEF InPass, Scanned
  <1>6. CASE Load
    <2>1. UNCHANGED <<chain, db, args>> /\ pc' \in {"range", "check"}
      BY <1>6 DEF Load, chainVars
    <2>2. ~args.reset => prev' = db
      BY <1>6 DEF Load
    <2> QED
      BY <2>1, <2>2 DEF InPass, Scanned, Held
  <1>7. CASE CheckCheckpoint /\ ~EndPass
    <2>1. PICK hash \in RpcHashes(prev.ckpt.to) :
             \/ /\ ~BlockHashMismatch(prev.ckpt.hash, hash)
                /\ pc' = "range" /\ UNCHANGED <<prev, run, args>>
             \/ /\ BlockHashMismatch(prev.ckpt.hash, hash)
                /\ pc' \in {"probe", "range"} /\ UNCHANGED args
      BY <1>7 DEF CheckCheckpoint, CheckpointHashes
    <2>2. UNCHANGED <<chain, db, args>> /\ pc = "check" /\ pc' \in {"probe", "range"}
      BY <1>7, <2>1 DEF CheckCheckpoint, chainVars
    <2>3. Held' => Held
      BY <2>2 DEF Held, Canonical, IsCanonical, IsSome
    <2>4. ASSUME Held PROVE pc' = "range" /\ prev' = prev
      <3>1. ~BlockHashMismatch(prev.ckpt.hash, hash)
        BY <2>2, <2>4, MismatchIsLost DEF InPass, Held
      <3> QED
        BY <2>1, <3>1
    <2> QED
      BY <2>2, <2>3, <2>4 DEF InPass, Scanned
  <1>8. CASE ProbeHistory /\ ~EndPass
    <2>1. UNCHANGED <<chain, db, args>> /\ pc = "probe" /\ pc' \in {"probe", "range"}
      BY <1>8 DEF ProbeHistory, chainVars
    <2>2. Held' => Held
      BY <2>1 DEF Held, Canonical, IsCanonical, IsSome
    <2> QED
      BY <2>1, <2>2 DEF InPass, Scanned
  <1>9. CASE ChooseRange
    <2>1. UNCHANGED <<chain, db, args>> /\ pc = "range" /\ pc' = "scan"
      BY <1>9 DEF ChooseRange, chainVars
    <2>2. Held' => Held
      BY <2>1 DEF Held, Canonical, IsCanonical, IsSome
    <2>3. /\ prev' = IF IsSome(prev) THEN prev ELSE [prev EXCEPT !.origin = args.from]
          /\ prev'.ckpt = prev.ckpt
      BY <1>9 DEF ChooseRange, TypeInv, ProcessOK, StoredSnapshots
    <2>4. /\ run'.from = SyncStartBlock(args.from, IsSome(prev), prev.ckpt)
          /\ run'.pending = {} /\ run'.executed = 0 /\ run'.errors = 0
      BY <1>9 DEF ChooseRange, NoRun
    <2>5. Held => prev' = db
      BY <2>1, <2>3 DEF InPass, Held
    <2>6. IsSome(prev)' /\ prev'.ckpt.complete => run'.from = prev'.ckpt.to + 1
      BY <2>3, <2>4 DEF SyncStartBlock, IsSome
    <2> QED
      BY <2>1, <2>2, <2>4, <2>5, <2>6 DEF InPass, Scanned
  <1>10. CASE ScanSource
    <2>1. UNCHANGED <<chain, db, pc, args, prev>> /\ pc = "scan"
      BY <1>10 DEF ScanSource, chainVars
    <2>2. PICK src \in run.todo :
             run' = [run EXCEPT
                       !.todo = run.todo \ {src},
                       !.pending = run.pending \cup
                                     ScanSourceRange(chain, src, run.from, run.to)]
      BY <1>10 DEF ScanSource
    <2>3. run \in Runs(forks) /\ run.to \in Nat /\ run.from \in OptBlock
      BY <2>1 DEF TypeInv, ProcessOK, Runs
    <2>4. /\ run'.pending = run.pending \cup ScanSourceRange(chain, src, run.from, run.to)
          /\ run'.from = run.from /\ run'.to = run.to
          /\ run'.executed = run.executed /\ run'.errors = run.errors
      BY <2>2, <2>3 DEF Runs
    <2>5. src.at \in Nat
      BY <2>3, IndexerConstants DEF Runs, Sources
    <2>6. ASSUME run.from > run.to PROVE ScanSourceRange(chain, src, run.from, run.to) = {}
      <3> SUFFICES ASSUME NEW l \in ScanSourceRange(chain, src, run.from, run.to) PROVE FALSE
        OBVIOUS
      <3>1. l \in Logs(forks) /\ l.blk <= run.to /\ l.blk >= run.from
        BY <2>3, <2>5, ScanFacts DEF TypeInv
      <3> QED
        BY <2>3, <2>6, <3>1 DEF Logs, OptBlock, NoBlock
    <2>7. Held' => Held
      BY <2>1 DEF Held, Canonical, IsCanonical, IsSome
    <2> QED
      BY <2>1, <2>4, <2>6, <2>7 DEF InPass, Scanned
  <1>11. CASE ScansDone \/ StopExecuting
    <2>1. /\ UNCHANGED <<chain, db, args, prev, run>> /\ Scanned /\ Scanned'
          /\ pc' \in {"execute", "finish"}
      BY <1>11 DEF ScansDone, StopExecuting, chainVars, Scanned
    <2>2. Held' => Held
      BY <2>1 DEF Held, Canonical, IsCanonical, IsSome
    <2> QED
      BY <2>1, <2>2 DEF InPass, Scanned
  <1>12. CASE ExecuteLog \/ RejectLog
    <2>1. /\ UNCHANGED <<chain, db, args, prev>> /\ Scanned /\ pc' \in {"execute", "finish"}
      BY <1>12 DEF ExecuteLog, RejectLog, chainVars, Scanned
    <2>2. run'.from = run.from /\ run'.to = run.to /\ run.pending # {}
      BY <1>12, ExecuteFacts, RejectFacts
    <2>3. Held' => Held
      BY <2>1 DEF Held, Canonical, IsCanonical, IsSome
    <2> QED
      BY <2>1, <2>2, <2>3 DEF InPass, Scanned
  <1>13. CASE Step
    <2>1. CASE FinishPass
      BY <1>3, <2>1 DEF FinishPass
    <2> QED
      BY <1>3, <1>5, <1>6, <1>7, <1>8, <1>9, <1>10, <1>11, <1>12, <1>13, <2>1 DEF Step
  <1>14. CASE FailPass
    BY <1>3, <1>14 DEF FailPass
  <1> QED
    BY <1>1, <1>2, <1>4, <1>13, <1>14 DEF Next

\* ForwardInv holds of every reachable state.
LEMMA ForwardHolds ==
  ASSUME ToArgs \subseteq {NoBlock}
  PROVE  Spec => []ForwardInv
  <1>1. Init => ForwardInv
    BY DEF Init, ForwardInv, NoArgs, InPass, Scanned
  <1>2. TypeInv /\ ForwardInv /\ [Next]_vars => ForwardInv'
    BY ForwardStep
  <1> QED
    BY <1>1, <1>2, TypeInvHolds, PTL DEF Spec

\* Unless --reset or --to-block is given, a complete checkpoint only moves back when
\* the chain no longer has its block: whatever the RPC's heads, the reorgs during
\* the passes, the failures and the crashes.
THEOREM CheckpointNeverRegresses ==
  ASSUME ToArgs \subseteq {NoBlock}
  PROVE  Spec => CheckpointRegressesOnlyOnReorg
  <1>1. ASSUME TypeInv, ForwardInv, [Next]_vars, ~args.reset, db.ckpt.complete,
               Canonical(db.ckpt)
        PROVE  db'.ckpt.to >= db.ckpt.to
    <2>1. db.ckpt.to \in OptBlock /\ db.ckpt \in Checkpoints(forks)
      BY <1>1 DEF TypeInv, ProcessOK, StoredSnapshots, Checkpoints
    <2>2. CASE db' = db
      BY <2>1, <2>2 DEF OptBlock, NoBlock
    <2>3. CASE FinishPass
      <3>1. IsSome(db)
        <4>1. db.ckpt.to + 1 \in 1 .. Len(chain)
          BY <1>1, ListOf DEF Canonical, IsCanonical, TypeInv, ChainOK
        <4> QED
          BY <1>1, <4>1 DEF IsSome, NoBlock
      <3>2. prev = db /\ Scanned
        BY <1>1, <2>3, <3>1 DEF ForwardInv, FinishPass, InPass, Scanned, Held
      <3>3. run.from = db.ckpt.to + 1 /\ args.to = NoBlock
        BY <1>1, <3>1, <3>2 DEF ForwardInv
      <3>4. PICK ckpt \in Checkpoints(forks) :
               /\ ckpt.to = run.to
               /\ ckpt.complete = (Unprocessed(run.pending, run.done) = {})
               /\ IF /\ IsSome(prev)
                     /\ ShouldKeepPrevious(prev.ckpt, run.from, run.to, ckpt.complete,
                                           run.executed, run.errors, args.to)
                  THEN db' = db
                  ELSE db' = SnapshotOf(ckpt)
        BY <1>1, <2>3, FinishFacts
      <3>5. run.to \in Nat /\ db.ckpt.to \in Nat
        BY <1>1, <2>1, <3>1, <3>2 DEF TypeInv, ProcessOK, Scanned, IsSome, OptBlock
      <3>6. CASE run.to >= db.ckpt.to
        <4>1. db' = db \/ db'.ckpt = ckpt
          BY <1>1, <3>4, SnapshotFacts
        <4> QED
          BY <3>4, <3>5, <3>6, <4>1
      <3>7. CASE run.to < db.ckpt.to
        <4>1. run.pending = {} /\ run.executed = 0 /\ run.errors = 0
          BY <1>1, <3>2, <3>3, <3>5, <3>7 DEF ForwardInv
        <4>2. ckpt.complete
          BY <3>4, <4>1 DEF Unprocessed
        <4>3. ShouldKeepPrevious(prev.ckpt, run.from, run.to, ckpt.complete,
                                 run.executed, run.errors, args.to)
          BY <1>1, <3>2, <3>3, <3>5, <3>7, <4>1, <4>2 DEF ShouldKeepPrevious, NoBlock
        <4>4. db' = db
          BY <3>1, <3>2, <3>4, <4>3
        <4> QED
          BY <3>5, <4>4
      <3> QED
        BY <3>5, <3>6, <3>7
    <2>4. db' = db \/ FinishPass
      BY <1>1 DEF Next, vars, Mine, Reorg, procVars, Step, Launch, Load, CheckCheckpoint,
         ProbeHistory, ChooseRange, ScanSource, ScansDone, ExecuteLog, RejectLog,
         StopExecuting, FailPass, Crash
    <2> QED
      BY <2>2, <2>3, <2>4
  <1>2. TypeInv /\ ForwardInv /\ [Next]_vars =>
           [~args.reset /\ db.ckpt.complete /\ Canonical(db.ckpt)
              => db'.ckpt.to >= db.ckpt.to]_vars
    BY <1>1
  <1> QED
    BY <1>2, TypeInvHolds, ForwardHolds, PTL DEF Spec, CheckpointRegressesOnlyOnReorg

(***************************************************************************)
(* The retained history.  Every pass goes at least as far as the checkpoint *)
(* it continues from: behind a complete one it starts on the next block,    *)
(* and an unfinished one is rescanned from its own start to the same bound. *)
(***************************************************************************)
\* A pass of bounded length.
SpanOK(c) ==
    c.from # NoBlock /\ MaxBlocksPerPass > 0 => c.to < c.from + MaxBlocksPerPass

\* No entry is beyond the checkpoint, the last one is the checkpoint itself.
HistorySound(s) ==
    /\ SpanOK(s.ckpt)
    /\ \A e \in Range(s.history) : e.ckpt.to <= s.ckpt.to /\ SpanOK(e.ckpt)
    /\ IsSome(s) =>
          /\ Len(s.history) \in Nat \ {0}
          /\ s.history[Len(s.history)] = HistoryEntry(s)
          /\ HistoryLimit > 0 => Len(s.history) <= HistoryLimit

PassSound ==
    /\ prev.ckpt.to <= run.to /\ run.to <= HeadBlock /\ SpanOK(run)
    /\ \A l \in run.pending : l.blk <= run.to
    /\ \A e \in Range(run.history) : e.ckpt.to <= run.to /\ SpanOK(e.ckpt)

LevelInv ==
    /\ HistorySound(db) /\ db.ckpt.to <= HeadBlock
    /\ HistorySound(prev) /\ prev.ckpt.to <= HeadBlock
    /\ Scanned => PassSound

\* Nothing is a sound history of nothing.
LEMMA NothingIsSound ==
  HistorySound(NoSnapshot)
  BY EmptyHistory DEF HistorySound, NoSnapshot, NoCheckpoint, SpanOK, IsSome

\* The head never moves back: a reorg replaces blocks one by one.
LEMMA HeadGrows ==
  ASSUME TypeInv, Mine \/ Reorg
  PROVE  HeadBlock' >= HeadBlock /\ HeadBlock' \in Int /\ HeadBlock \in Int
  <1>1. Len(chain) \in Nat
    BY DEF TypeInv, ChainOK
  <1>2. CASE Mine
    <2>1. PICK body \in Contents : chain' = Append(chain, [fork |-> forks, body |-> body])
      BY <1>2 DEF Mine, MineBlock
    <2> DEFINE B == Blocks(forks + 1)
               new == [fork |-> forks, body |-> body]
    <2>2. chain \in Seq(B) /\ new \in B
      <3>1. forks \in Nat /\ forks + 1 \in Nat /\ forks <= forks + 1
        BY DEF TypeInv, ChainOK
      <3>2. Blocks(forks) \subseteq B
        BY <3>1, TypesGrow
      <3>3. new \in B
        BY <3>1 DEF Blocks
      <3> HIDE DEF B, new
      <3> QED
        BY <3>2, <3>3 DEF TypeInv, ChainOK
    <2>3. chain' = Append(chain, new)
      BY <2>1
    <2> HIDE DEF B, new
    <2>4. Len(chain') = Len(chain) + 1
      BY <2>2, <2>3
    <2> QED
      BY <1>1, <2>4 DEF HeadBlock
  <1>3. CASE Reorg
    BY <1>1, <1>3, ReorgTyped DEF HeadBlock
  <1> QED
    BY <1>2, <1>3

\* The range of a pass, when every RPC answers at the head of the chain.
LEMMA RangeSound ==
  ASSUME TypeInv, args.to = NoBlock, MaxHeadLag = 0, NEW head \in RpcHeads,
         SpanOK(prev.ckpt), prev.ckpt.to <= HeadBlock
  PROVE  LET from == SyncStartBlock(args.from, IsSome(prev), prev.ckpt)
             to   == BoundedSyncToBlock(from, args.to, MaxBlocksPerPass, head)
         IN  /\ prev.ckpt.to <= to /\ to <= HeadBlock
             /\ from # NoBlock /\ MaxBlocksPerPass > 0 => to < from + MaxBlocksPerPass
  <1> DEFINE from == SyncStartBlock(args.from, IsSome(prev), prev.ckpt)
             to   == BoundedSyncToBlock(from, args.to, MaxBlocksPerPass, head)
             K == MaxBlocksPerPass
             c == prev.ckpt
  <1>1. /\ c.from \in OptBlock /\ c.to \in OptBlock /\ args.from \in OptBlock
        /\ c.complete \in BOOLEAN
    BY DEF TypeInv, ProcessOK, StoredSnapshots, CommandLines, Checkpoints
  <1>2. head = HeadBlock /\ head \in Nat
    BY IndexerConstants DEF TypeInv, ChainOK, RpcHeads, HeadBlock, MaxOf
  <1>3. K \in Nat
    BY IndexerConstants
  <1>4. /\ from \in OptBlock
        /\ ~IsSome(prev) => c.to = NoBlock
        /\ IsSome(prev) /\ c.complete => from = c.to + 1
        /\ IsSome(prev) /\ ~c.complete /\ c.from # NoBlock => from = c.from
        /\ IsSome(prev) /\ ~c.complete /\ c.from = NoBlock => from = c.to
    BY <1>1 DEF SyncStartBlock, IsSome, OptBlock, NoBlock
  <1>5. /\ K = 0 \/ from = NoBlock => to = head
        /\ K > 0 /\ from # NoBlock /\ from > head => to = head
        /\ K > 0 /\ from # NoBlock /\ from <= head /\ from + (K - 1) <= head => to = from + (K - 1)
        /\ K > 0 /\ from # NoBlock /\ from <= head /\ from + (K - 1) > head => to = head
    <2>1. to = IF K = 0 \/ from = NoBlock THEN head ELSE BoundedToBlockFromHead(from, head, K)
      BY DEF BoundedSyncToBlock
    <2> HIDE DEF from, to, K
    <2>2. MaxOf(K - 1, 0) = IF K > 0 THEN K - 1 ELSE 0
      BY <1>3 DEF MaxOf
    <2> QED
      BY <1>2, <1>3, <1>4, <2>1, <2>2 DEF BoundedToBlockFromHead, OptBlock, NoBlock
  <1>6. c.from # NoBlock /\ K > 0 => c.to < c.from + K
    BY DEF SpanOK
  <1>7. c.to <= head
    BY <1>2
  <1> HIDE DEF from, to, K, c
  <1>8. to \in Int /\ to <= head
    BY <1>2, <1>3, <1>4, <1>5 DEF OptBlock, NoBlock
  <1>9. from # NoBlock /\ K > 0 => to < from + K
    BY <1>2, <1>3, <1>4, <1>5 DEF OptBlock, NoBlock
  <1>10. c.to <= to
    <2>1. CASE ~IsSome(prev)
      BY <1>2, <1>3, <1>4, <1>5, <2>1 DEF OptBlock, NoBlock
    <2>2. CASE to = head
      BY <1>7, <2>2
    <2>3. CASE IsSome(prev) /\ to # head
      <3>1. K > 0 /\ from # NoBlock /\ from <= head /\ to = from + (K - 1)
        BY <1>2, <1>3, <1>4, <1>5, <2>3 DEF OptBlock, NoBlock
      <3>2. CASE c.complete
        BY <1>1, <1>3, <1>4, <2>3, <3>1, <3>2 DEF OptBlock, NoBlock
      <3>3. CASE ~c.complete /\ c.from # NoBlock
        BY <1>1, <1>3, <1>4, <1>6, <2>3, <3>1, <3>3 DEF OptBlock, NoBlock
      <3>4. CASE ~c.complete /\ c.from = NoBlock
        BY <1>1, <1>3, <1>4, <2>3, <3>1, <3>4 DEF OptBlock, NoBlock
      <3> QED
        BY <3>2, <3>3, <3>4
    <2> QED
      BY <2>1, <2>2, <2>3
  <1> QED
    BY <1>2, <1>8, <1>9, <1>10 DEF from, to, K, c

\* What a rollback leaves is sound.
LEMMA RollbackSound ==
  ASSUME TypeInv, HistorySound(prev), NEW i \in DOMAIN prev.history
  PROVE  LET back == RollbackToHistoricalSnapshot(prev, prev.history[i])
         IN  HistorySound(back) /\ back.ckpt.to <= prev.ckpt.to
  <1> DEFINE entry == prev.history[i]
             back == RollbackToHistoricalSnapshot(prev, entry)
             h == back.history
             n == Len(h)
  <1>1. prev \in StoredSnapshots(forks) /\ IsHistory(prev.history) /\ forks \in Nat
    BY DEF TypeInv, ChainOK, ProcessOK
  <1>2. /\ back \in StoredSnapshots(forks) /\ IsHistory(h)
        /\ HistoryEntry(back) = HistoryEntry(entry)
        /\ Range(h) = {e \in Range(prev.history) : e.ckpt.to <= entry.ckpt.to}
        /\ entry \in Entries(forks) /\ entry \in Range(prev.history)
    BY <1>1, RollbackTyped
  <1>3. h = UpToBlock(prev.history, entry.ckpt.to) /\ back.ckpt = entry.ckpt
    BY <1>1 DEF RollbackToHistoricalSnapshot, StoredSnapshots
  <1>4. entry.ckpt.to \in Int /\ HistoryEntry(entry) = entry
    BY <1>2 DEF Entries, Checkpoints, OptBlock, NoBlock, HistoryEntry
  <1>5. n <= Len(prev.history)
    BY <1>1, <1>3, <1>4, UpToBlockFacts
  <1> HIDE DEF entry, back, h, n
  <1>6. n \in Nat /\ DOMAIN h = 1 .. n /\ Len(prev.history) \in Nat
        /\ \A k \in 1 .. n : h[k] \in Range(h)
    BY <1>1, <1>2, ListFacts DEF IsHistory, n
  <1>7. entry \in Range(h)
    BY <1>2, <1>4
  <1>8. PICK k \in 1 .. n : h[k] = entry
    BY <1>6, <1>7 DEF Range
  <1>9. h[n] = entry
    <2>1. n \in 1 .. n /\ h[n] \in Range(h)
      BY <1>6, <1>8
    <2>2. h[n].ckpt.to <= entry.ckpt.to
      BY <1>2, <2>1
    <2>3. CASE k < n
      <3>1. h[k].ckpt.to < h[n].ckpt.to /\ h[n].ckpt.to \in Int
        BY <1>2, <1>6, <2>1, <2>3 DEF IsHistory, Ordered, Numbered
      <3> QED
        BY <1>4, <1>8, <2>2, <3>1
    <2> QED
      BY <1>6, <1>8, <2>3
  <1>10. prev.ckpt.to # NoBlock \/ ~IsSome(back)
    <2>1. entry.ckpt.to <= prev.ckpt.to
      BY <1>2 DEF HistorySound
    <2>2. prev.ckpt.to \in OptBlock /\ entry.ckpt.to \in OptBlock
      BY <1>1, <1>2 DEF StoredSnapshots, Entries, Checkpoints
    <2> QED
      BY <1>3, <2>1, <2>2 DEF IsSome, OptBlock, NoBlock
  <1>11. IsSome(back) /\ HistoryLimit > 0 => n <= HistoryLimit
    <2> SUFFICES ASSUME IsSome(back), HistoryLimit > 0 PROVE n <= HistoryLimit
      OBVIOUS
    <2>1. Len(prev.history) <= HistoryLimit
      BY <1>10 DEF HistorySound, IsSome
    <2> QED
      BY <1>5, <1>6, <2>1, IndexerConstants
  <1>12. \A e \in Range(h) : e.ckpt.to <= back.ckpt.to /\ SpanOK(e.ckpt)
    BY <1>2, <1>3 DEF HistorySound
  <1>13. SpanOK(back.ckpt) /\ back.ckpt.to <= prev.ckpt.to
    BY <1>2, <1>3 DEF HistorySound
  <1>14. HistorySound(back)
    BY <1>2, <1>4, <1>6, <1>8, <1>9, <1>11, <1>12, <1>13 DEF HistorySound, h, n
  <1> QED
    BY <1>13, <1>14 DEF back, entry

\* What a pass writes is sound.
LEMMA SnapshotSound ==
  ASSUME TypeInv, Scanned, PassSound, HistorySound(prev), NEW ckpt \in Checkpoints(forks),
         ckpt.from = run.from, ckpt.to = run.to
  PROVE  HistorySound(SnapshotOf(ckpt))
  <1> DEFINE new == SnapshotOf(ckpt)
             news == NewsOf(ckpt)
             n == Len(news)
             h == new.history
             old == IF IsSome(prev) THEN {HistoryEntry(prev)} ELSE {}
             all == Range(prev.history) \cup Range(news)
  <1>1. /\ new.ckpt = ckpt
        /\ h = MergeHistory(prev.history, news, HistoryLimit)
        /\ IsHistory(h)
        /\ Range(h) \subseteq all
        /\ Range(news) = {HistoryEntry(new)} \cup Range(run.history) \cup old
        /\ IsList(news) /\ Numbered(news) /\ n \in Nat \ {0}
        /\ news[n] = HistoryEntry(new)
    BY SnapshotFacts
  <1>2. IsHistory(prev.history) /\ HistoryLimit \in Nat /\ run.to \in Nat
        /\ prev.ckpt.to \in Int /\ \A e \in Range(prev.history) : e.ckpt.to \in Int
    <2>1. Range(prev.history) \subseteq Entries(forks)
      BY ListOf DEF TypeInv, ProcessOK, StoredSnapshots
    <2>2. prev.ckpt.to \in Int
      BY DEF TypeInv, ProcessOK, StoredSnapshots, Checkpoints, OptBlock, NoBlock
    <2>3. \A e \in Range(prev.history) : e.ckpt.to \in Int
      BY <2>1 DEF Entries, Checkpoints, OptBlock, NoBlock
    <2>4. IsHistory(prev.history) /\ run.to \in Nat
      BY DEF TypeInv, ProcessOK, Scanned
    <2> QED
      BY <2>2, <2>3, <2>4, IndexerConstants
  <1>3. HistoryEntry(new).ckpt = ckpt /\ HistoryEntry(prev).ckpt = prev.ckpt
    BY <1>1 DEF HistoryEntry
  <1> HIDE DEF new, news, n, h
  <1>4. ASSUME NEW x \in all PROVE x.ckpt.to <= run.to /\ SpanOK(x.ckpt)
    <2>1. CASE x \in Range(prev.history)
      BY <1>2, <2>1 DEF HistorySound, PassSound
    <2>2. CASE x = HistoryEntry(new)
      BY <1>2, <1>3, <2>2 DEF SpanOK, PassSound
    <2>3. CASE x \in Range(run.history)
      BY <2>3 DEF PassSound
    <2>4. CASE x \in old
      BY <1>3, <2>4 DEF HistorySound, PassSound
    <2> QED
      BY <1>1, <2>1, <2>2, <2>3, <2>4
  <1>5. news[n].ckpt.to = run.to
    BY <1>1, <1>3
  <1> HIDE DEF all, old
  <1>6. /\ Len(h) > 0 /\ (HistoryLimit > 0 => Len(h) <= HistoryLimit)
        /\ h[Len(h)] = HistoryEntry(new)
    <2>1. \A x \in Range(prev.history) \cup Range(news) : x.ckpt.to <= news[n].ckpt.to
      BY <1>4, <1>5 DEF all
    <2> QED
      BY <1>1, <1>2, <2>1, MergeFacts DEF n
  <1>7. Len(h) \in Nat
    BY <1>1, ListFacts DEF IsHistory
  <1>8. SpanOK(new.ckpt)
    BY <1>1 DEF PassSound, SpanOK
  <1>9. \A e \in Range(h) : e.ckpt.to <= new.ckpt.to /\ SpanOK(e.ckpt)
    BY <1>1, <1>4
  <1> QED
    BY <1>6, <1>7, <1>8, <1>9 DEF HistorySound, new, h

\* LevelInv is inductive, when no target is given and every RPC answers at the head.
LEMMA LevelStep ==
  ASSUME MaxHeadLag = 0, TypeInv, args.to = NoBlock, LevelInv, [Next]_vars
  PROVE  LevelInv'
  <1> USE DEF LevelInv
  <1>0. /\ db.ckpt.to \in Int /\ prev.ckpt.to \in Int /\ HeadBlock \in Nat
        /\ prev \in StoredSnapshots(forks) /\ run \in Runs(forks)
    BY DEF TypeInv, ChainOK, ProcessOK, StoredSnapshots, Checkpoints, OptBlock, NoBlock, HeadBlock
  <1>1. CASE UNCHANGED vars
    BY <1>1 DEF vars, HistorySound, IsSome, Scanned, PassSound, HeadBlock
  <1>2. CASE Mine \/ Reorg
    <2>1. UNCHANGED <<db, pc, args, prev, run>>
      BY <1>2 DEF Mine, Reorg, procVars
    <2>2. Scanned => run.to \in Int
      BY DEF TypeInv, ProcessOK, Scanned
    <2> QED
      BY <1>0, <1>2, <2>1, <2>2, HeadGrows DEF HistorySound, IsSome, Scanned, PassSound
  <1>3. ASSUME UNCHANGED chain, HistorySound(db)', db'.ckpt.to <= HeadBlock,
               prev' = NoSnapshot, pc' \in {"load", "down"}
        PROVE  LevelInv'
    <2>1. HistorySound(prev)' /\ prev'.ckpt.to <= HeadBlock
      BY <1>0, <1>3, NothingIsSound DEF HistorySound, IsSome, NoSnapshot, NoCheckpoint, NoBlock
    <2> QED
      BY <1>3, <2>1 DEF Scanned, HeadBlock
  <1>4. ASSUME EndPass, UNCHANGED <<chain, db>> PROVE LevelInv'
    BY <1>3, <1>4 DEF EndPass, HistorySound, IsSome
  <1>5. ASSUME UNCHANGED <<chain, db>>, prev' \in {prev, db, NoSnapshot}, ~Scanned'
        PROVE  LevelInv'
    <2>1. HistorySound(prev)' /\ prev'.ckpt.to <= HeadBlock
      <3>1. CASE prev' = NoSnapshot
        BY <1>0, <3>1, NothingIsSound DEF HistorySound, IsSome, NoSnapshot, NoCheckpoint, NoBlock
      <3>2. CASE prev' = prev
        BY <3>2 DEF HistorySound, IsSome
      <3>3. CASE prev' = db
        BY <3>3 DEF HistorySound, IsSome
      <3> QED
        BY <1>5, <3>1, <3>2, <3>3
    <2>2. HistorySound(db)'
      BY <1>5 DEF HistorySound, IsSome
    <2> QED
      BY <1>5, <2>1, <2>2 DEF HeadBlock
  <1>6. CASE Launch
    BY <1>5, <1>6 DEF Launch, Scanned, chainVars
  <1>7. CASE Load
    BY <1>5, <1>7 DEF Load, Scanned, chainVars
  <1>8. CASE CheckCheckpoint
    <2>1. CASE EndPass
      BY <1>4, <1>8, <2>1 DEF CheckCheckpoint, chainVars
    <2>2. CASE ~EndPass
      BY <1>5, <1>8, <2>2 DEF CheckCheckpoint, Scanned, chainVars
    <2> QED
      BY <2>1, <2>2
  <1>9. CASE ProbeHistory
    <2>1. UNCHANGED <<chain, forks, db>> /\ pc = "probe"
      BY <1>9 DEF ProbeHistory, chainVars
    <2>2. CASE EndPass
      BY <1>4, <2>1, <2>2
    <2>3. CASE /\ run.probe > 0 /\ pc' = "range"
               /\ prev' = RollbackToHistoricalSnapshot(prev, prev.history[run.probe])
      <3>1. run.probe \in DOMAIN prev.history
        BY <1>0, <2>1, <2>3, ListFacts DEF TypeInv, ProcessOK, Runs, IsHistory
      <3> DEFINE back == RollbackToHistoricalSnapshot(prev, prev.history[run.probe])
      <3>2. HistorySound(back) /\ back.ckpt.to <= prev.ckpt.to
        BY <3>1, RollbackSound
      <3>3. back \in StoredSnapshots(forks)
        BY <3>1, RollbackTyped DEF TypeInv, ChainOK, ProcessOK
      <3>4. back.ckpt.to \in Int
        BY <3>3 DEF StoredSnapshots, Checkpoints, OptBlock, NoBlock
      <3> HIDE DEF back
      <3>5. prev' = back
        BY <2>3 DEF back
      <3> QED
        BY <1>0, <2>1, <2>3, <3>2, <3>4, <3>5 DEF HistorySound, IsSome, Scanned, HeadBlock
    <2>4. CASE UNCHANGED <<prev, pc>>
      BY <1>5, <2>1, <2>4 DEF Scanned
    <2> QED
      BY <1>9, <2>2, <2>3, <2>4 DEF ProbeHistory
  <1>10. CASE ChooseRange
    <2>1. UNCHANGED <<chain, db>> /\ pc' = "scan"
      BY <1>10 DEF ChooseRange, chainVars
    <2>2. prev'.ckpt = prev.ckpt /\ prev'.history = prev.history
          /\ HistoryEntry(prev') = HistoryEntry(prev)
      <3>1. prev' = prev \/ prev' = [prev EXCEPT !.origin = args.from]
        BY <1>10 DEF ChooseRange
      <3> QED
        BY <1>0, <3>1 DEF StoredSnapshots, HistoryEntry
    <2> DEFINE from == SyncStartBlock(args.from, IsSome(prev), prev.ckpt)
               to(head) == BoundedSyncToBlock(from, args.to, MaxBlocksPerPass, head)
    <2>3. PICK head \in RpcHeads :
             /\ run'.from = from /\ run'.to = to(head)
             /\ run'.pending = {} /\ run'.history = <<>>
      BY <1>10 DEF ChooseRange, NoRun
    <2>4. /\ prev.ckpt.to <= to(head) /\ to(head) <= HeadBlock
          /\ from # NoBlock /\ MaxBlocksPerPass > 0 => to(head) < from + MaxBlocksPerPass
      BY RangeSound DEF HistorySound
    <2> HIDE DEF from, to
    <2>5. SpanOK(run)'
      BY <2>3, <2>4 DEF SpanOK
    <2>6. PassSound'
      BY <2>1, <2>2, <2>3, <2>4, <2>5, EmptyHistory DEF PassSound, HeadBlock
    <2>7. HistorySound(prev)' /\ HistorySound(db)'
      BY <2>1, <2>2 DEF HistorySound, IsSome
    <2> QED
      BY <2>1, <2>2, <2>6, <2>7 DEF HeadBlock
  <1>11. ASSUME UNCHANGED <<chain, db, prev>>, Scanned, run'.to = run.to, run'.from = run.from,
                \A l \in run'.pending : l.blk <= run.to,
                \A e \in Range(run'.history) : e.ckpt.to <= run.to /\ SpanOK(e.ckpt)
         PROVE  LevelInv'
    <2>1. PassSound' /\ HistorySound(prev)' /\ HistorySound(db)'
      BY <1>11 DEF PassSound, HeadBlock, SpanOK, HistorySound, IsSome
    <2> QED
      BY <1>11, <2>1 DEF HeadBlock
  <1>12. CASE ScanSource
    <2>1. UNCHANGED <<chain, db, prev>> /\ Scanned /\ pc = "scan"
      BY <1>12 DEF ScanSource, chainVars, Scanned
    <2>2. PICK src \in run.todo :
             run' = [run EXCEPT
                       !.todo = run.todo \ {src},
                       !.pending = run.pending \cup
                                     ScanSourceRange(chain, src, run.from, run.to)]
      BY <1>12 DEF ScanSource
    <2>3. /\ run'.pending = run.pending \cup ScanSourceRange(chain, src, run.from, run.to)
          /\ run'.from = run.from /\ run'.to = run.to /\ run'.history = run.history
      BY <1>0, <2>2 DEF Runs
    <2>4. src.at \in Nat /\ run.to \in Nat /\ run.from \in OptBlock
      BY <1>0, <2>1, IndexerConstants DEF Runs, Sources, TypeInv, ProcessOK
    <2>5. \A l \in ScanSourceRange(chain, src, run.from, run.to) : l.blk <= run.to
      BY <2>4, ScanFacts DEF TypeInv
    <2> QED
      BY <1>11, <2>1, <2>3, <2>5 DEF PassSound
  <1>13. CASE ScansDone \/ StopExecuting
    <2>1. UNCHANGED <<chain, db, prev, run>> /\ Scanned
      BY <1>13 DEF ScansDone, StopExecuting, chainVars, Scanned
    <2> QED
      BY <1>11, <2>1 DEF PassSound
  <1>14. CASE ExecuteLog
    <2>1. UNCHANGED <<chain, db, prev>> /\ Scanned /\ pc = "execute"
      BY <1>14 DEF ExecuteLog, chainVars, Scanned
    <2>2. PICK log \in run.pending :
             /\ run'.from = run.from /\ run'.to = run.to
             /\ run'.pending = PendingAfter(log) /\ NewSources(log) \in SUBSET Sources
             /\ Range(run'.history) \subseteq Range(run.history) \cup {EntryAfter(log)}
             /\ EntryAfter(log).ckpt = [from |-> run.from, to |-> log.blk, hash |-> log.fork,
                                        complete |-> FALSE]
      BY <1>14, ExecuteFacts
    <2>3. run.to \in Nat /\ log.blk \in Nat /\ log.blk <= run.to /\ run.from \in OptBlock
      BY <1>0, <2>1 DEF TypeInv, ProcessOK, PassSound, Runs, Logs
    <2>4. \A l \in run'.pending : l.blk <= run.to
      <3> SUFFICES ASSUME NEW l \in run'.pending PROVE l.blk <= run.to
        OBVIOUS
      <3>1. CASE l \in run.pending
        BY <2>1, <3>1 DEF PassSound
      <3>2. CASE l \notin run.pending
        <4>1. PICK src \in NewSources(log) : l \in ScanSourceRange(chain, src, log.blk, run.to)
          BY <2>2, <3>2 DEF PendingAfter, NewSourceLogs
        <4>2. src.at \in Nat
          BY <2>2 DEF Sources
        <4> QED
          BY <2>3, <4>1, <4>2, ScanFacts DEF TypeInv, OptBlock
      <3> QED
        BY <3>1, <3>2
    <2>5. EntryAfter(log).ckpt.to <= run.to /\ SpanOK(EntryAfter(log).ckpt)
      BY <2>1, <2>2, <2>3, IndexerConstants DEF SpanOK, PassSound, OptBlock, NoBlock
    <2> QED
      BY <1>11, <2>1, <2>2, <2>4, <2>5 DEF PassSound
  <1>15. CASE RejectLog
    <2>1. UNCHANGED <<chain, db, prev>> /\ Scanned
      BY <1>15 DEF RejectLog, chainVars, Scanned
    <2>2. /\ run'.from = run.from /\ run'.to = run.to
          /\ run'.pending = run.pending /\ run'.history = run.history
      BY <1>15, RejectFacts
    <2> QED
      BY <1>11, <2>1, <2>2 DEF PassSound
  <1>16. CASE FinishPass
    <2>1. UNCHANGED chain /\ Scanned /\ prev' = NoSnapshot /\ pc' \in {"load", "down"}
      BY <1>16 DEF FinishPass, chainVars, Scanned, EndPass
    <2>2. PICK ckpt \in Checkpoints(forks) :
             /\ ckpt.from = run.from /\ ckpt.to = run.to
             /\ db' = db \/ db' = SnapshotOf(ckpt)
      BY <1>16, FinishFacts
    <2>3. CASE db' = db
      BY <1>3, <2>1, <2>3 DEF HistorySound, IsSome
    <2>4. CASE db' = SnapshotOf(ckpt)
      <3> DEFINE new == SnapshotOf(ckpt)
      <3>1. HistorySound(new) /\ new.ckpt = ckpt
        BY <2>1, <2>2, SnapshotSound, SnapshotFacts
      <3> HIDE DEF new
      <3>2. HistorySound(db)' /\ db'.ckpt.to <= HeadBlock
        BY <2>1, <2>2, <2>4, <3>1 DEF HistorySound, IsSome, PassSound, new
      <3> QED
        BY <1>3, <2>1, <3>2
    <2> QED
      BY <2>2, <2>3, <2>4
  <1>17. CASE FailPass
    BY <1>4, <1>17 DEF FailPass, chainVars
  <1>18. CASE Crash
    BY <1>3, <1>18 DEF Crash, chainVars, HistorySound, IsSome
  <1> QED
    BY <1>1, <1>2, <1>6, <1>7, <1>8, <1>9, <1>10, <1>12, <1>13, <1>14, <1>15, <1>16, <1>17,
       <1>18 DEF Next, Step

\* LevelInv holds of every reachable state, when no target is given and every RPC
\* answers at the head.
LEMMA LevelHolds ==
  ASSUME ToArgs \subseteq {NoBlock}
  PROVE  Spec => [](MaxHeadLag = 0 => LevelInv)
  <1>1. Init => LevelInv
    <2> SUFFICES ASSUME Init PROVE LevelInv
      OBVIOUS
    <2>1. PICK body \in Contents : chain = <<[fork |-> 0, body |-> body]>>
      BY DEF Init, ChainInit
    <2>2. HeadBlock = 0
      BY <2>1 DEF HeadBlock
    <2>3. db = NoSnapshot /\ prev = NoSnapshot /\ NoSnapshot.ckpt.to = NoBlock /\ ~Scanned
      BY DEF Init, NoSnapshot, NoCheckpoint, Scanned
    <2> QED
      BY <2>2, <2>3, NothingIsSound DEF LevelInv, NoBlock
  <1> DEFINE I == MaxHeadLag = 0 => LevelInv
  <1>2. TypeInv /\ ForwardInv /\ I /\ [Next]_vars => I'
    BY LevelStep DEF ForwardInv
  <1>3. Init => I
    BY <1>1
  <1> HIDE DEF I
  <1>4. Spec => []I
    BY <1>2, <1>3, TypeInvHolds, ForwardHolds, PTL DEF Spec
  <1> QED
    BY <1>4 DEF I

\* History is one entry per block in block order, never beyond the checkpoint, never
\* above its limit, and its newest entry is the checkpoint: for passes without an
\* explicit target and an RPC that answers at the head of its chain, whatever the
\* reorgs, the failures and the crashes.
THEOREM HistoryStaysWellFormed ==
  ASSUME ToArgs \subseteq {NoBlock}, MaxHeadLag = 0
  PROVE  Spec => []HistoryWellFormed
  <1>1. TypeInv /\ (MaxHeadLag = 0 => LevelInv) => HistoryWellFormed
    BY DEF TypeInv, ProcessOK, LevelInv, HistorySound, HistoryWellFormed, IsHistory, Ordered, Last
  <1> QED
    BY <1>1, TypeInvHolds, LevelHolds, PTL
=============================================================================
