-------------------------- MODULE CertificateProofs --------------------------
(***************************************************************************)
(* What the checkpoints of Indexer certify, for every chain, deployment,    *)
(* command line and bound that the constants allow: the entities a pass     *)
(* writes are those of SyncCore's reference index.                          *)
(***************************************************************************)
EXTENDS IndexerProofs

(***************************************************************************)
(* What a checkpoint certifies.                                             *)
(***************************************************************************)
\* The deployments the certificates are about: --from-block at or below every
\* start block, no --to-block and no --watch, an RPC that always has the hash of a
\* block it serves, and no reorg while a pass runs.
Regular ==
    /\ ToArgs \subseteq {NoBlock} /\ TRUE \notin WatchArgs
    /\ \A f \in FromArgs : f # NoBlock /\ \A s \in StaticSources : f <= s.at
    /\ ~HashFaults /\ ~ReorgDuringPass

\* Passes of any length may be cut and resumed if heads never lag, no rollback
\* restarts a pass without its cursors, and no contract logs in a block before the
\* log that makes it a source.
Resumable ==
    /\ MaxHeadLag = 0
    /\ "rollback" \in Policies => MaxReorgs = 0
    /\ \A body \in Contents : \A e, f \in body : f.addr \in e.creates => e.idx <= f.idx

\* Passes of one block complete, if no handler is rejected.
OneBlockPasses ==
    /\ MaxBlocksPerPass = 1 /\ Limit > 0
    /\ \A body \in Contents : \A e \in body : e.ok

\* The dynamic sources are those that the handled logs created.
SourcesOf(A, dyn) ==
    /\ \A d \in dyn : \E m \in A : d.addr \in m.ev.creates /\ d.at = m.blk
    /\ \A m \in A : \A a \in m.ev.creates : \E d \in dyn : d.addr = a /\ d.at <= m.blk

Handles(A, l) == Follows(A, l, StaticSources, 0)

\* e holds the index of its sources up to its own block.
Complete(c, e) ==
    LET A == Range(e.applied)
    IN  /\ InChainOrder(e.applied) /\ SourcesOf(A, e.dyn)
        /\ IsIndex(A, AllLogs(c, e.ckpt.to), StaticSources, 0)

\* s holds a beginning of it, misses nothing below its range, and remembers what it
\* has of the range.
Unfinished(c, s) ==
    LET A == Range(s.applied)
        S == AllLogs(c, s.ckpt.to)
    IN  /\ InChainOrder(s.applied) /\ SourcesOf(A, s.dyn)
        /\ IsBeginning(A, S, StaticSources, 0)
        /\ s.ckpt.from <= s.ckpt.to
        /\ \A l \in S : Handles(A, l) /\ l \notin A => l.blk >= s.ckpt.from
        /\ s.done = {LogId(l) : l \in {m \in A : m.blk >= s.ckpt.from}}

\* The chain c has the block of a checkpoint.
On(c, k) == k.hash # NoHash /\ k.to + 1 \in DOMAIN c /\ c[k.to + 1].fork = k.hash

\* An entry a rollback may resume from.
EntryOK(c, e) ==
    /\ e.ckpt.from # NoBlock /\ e.ckpt.to # NoBlock /\ e.ckpt.hash # NoHash
    /\ e.ckpt.complete
    /\ On(c, e.ckpt) => Complete(c, e)

SnapshotOK(c, s) ==
    /\ s.ckpt.from # NoBlock /\ s.ckpt.hash # NoHash /\ s.ckpt.to < Len(c)
    /\ \A src \in StaticSources : s.origin <= src.at
    /\ On(c, s.ckpt) => IF s.ckpt.complete THEN Complete(c, s) ELSE Unfinished(c, s)
    /\ OneBlockPasses =>
          /\ s.ckpt.complete
          /\ \A e \in Range(s.history) : EntryOK(c, e) /\ e.ckpt.to <= s.ckpt.to
    /\ MaxReorgs = 0 => On(c, s.ckpt)

Nothing(s) ==
    /\ s.ckpt = NoCheckpoint /\ s.applied = <<>> /\ s.dyn = {} /\ s.done = {}
    /\ s.history = <<>>

StoredOK(c, s) == IF IsSome(s) THEN SnapshotOK(c, s) ELSE Nothing(s)

\* What the arguments of a running process are.
ArgsOK == pc # "down" => ~args.watch /\ args.policy \in Policies /\ args.from \in FromArgs

\* The range of a pass, and what it knows of its target block.
RangeOK ==
    /\ run.from # NoBlock /\ run.to < Len(chain)
    /\ \A src \in StaticSources : prev.origin <= src.at
    /\ ~IsSome(prev) => \A src \in StaticSources : run.from <= src.at
    /\ IsSome(prev) /\ ~prev.ckpt.complete =>
          run.from = prev.ckpt.from /\ prev.ckpt.to <= run.to
    /\ OneBlockPasses => run.to <= run.from
    /\ run.meta # NotCached => run.meta = chain[run.to + 1].fork
    /\ \A l \in run.pending : run.from <= l.blk /\ l.blk <= run.to

\* A pass that has something to do.
Active == run.from <= run.to \/ ~IsSome(prev)

\* While the sources are scanned: what is pending is theirs.
ScanOK ==
    /\ run.applied = prev.applied /\ run.dyn = prev.dyn
    /\ run.done = (IF prev.ckpt.complete THEN {} ELSE prev.done)
    /\ run.history = <<>> /\ run.executed = 0
    /\ run.todo \subseteq StaticSources \cup prev.dyn
    /\ \A l : l \in run.pending <=>
          \E src \in StaticSources \cup prev.dyn :
             src \notin run.todo /\ l \in ScanSourceRange(chain, src, run.from, run.to)

\* While they are executed: what is left is what the handled logs miss.
WorkOK ==
    LET A == Range(run.applied)
        S == AllLogs(chain, run.to)
        P == Unprocessed(run.pending, run.done)
    IN  /\ InChainOrder(run.applied) /\ SourcesOf(A, run.dyn)
        /\ IsBeginning(A, S, StaticSources, 0)
        /\ \A l : l \in P <=> l \in S /\ Handles(A, l) /\ l \notin A
        /\ run.done = {LogId(l) : l \in {m \in A : m.blk >= run.from}}

\* A pass over one block, or none.
OneBlockOK ==
    /\ run.executed > 0 => run.last = run.to
    /\ pc = "finish" => Unprocessed(run.pending, run.done) = {}
    /\ \A e \in Range(run.history) : e.ckpt.to = run.to

CertInv ==
    /\ ArgsOK
    /\ StoredOK(chain, db) /\ StoredOK(chain, prev)
    /\ pc \in {"check", "probe"} => IsSome(prev)
    /\ pc = "probe" => OneBlockPasses
    /\ pc = "range" \/ Scanned => (IsSome(prev) => On(chain, prev.ckpt))
    /\ Scanned => RangeOK
    /\ pc = "scan" => ScanOK
    /\ pc \in {"execute", "finish"} /\ Active => WorkOK
    /\ OneBlockPasses /\ Scanned => OneBlockOK

(***************************************************************************)
(* The logs of a chain that moves.                                          *)
(***************************************************************************)
\* Canonical, of the chain as it is.
LEMMA CanonicalIsOn ==
  ASSUME NEW k PROVE Canonical(k) <=> On(chain, k)
  BY DEF Canonical, IsCanonical, On

\* The bodies of a chain are bodies.
LEMMA ChainBodies ==
  ASSUME TypeInv
  PROVE  /\ \A b \in DOMAIN chain : chain[b].body \in Contents /\ IsBody(chain[b].body)
         /\ DOMAIN chain = 1 .. Len(chain) /\ Len(chain) \in Nat
         /\ \A b \in DOMAIN chain : chain[b].fork \in 0 .. forks - 1
         /\ HeadBlock = Len(chain) - 1
  <1> DEFINE B == Blocks(forks)
  <1>1. chain \in Seq(B) /\ Len(chain) \in Nat
    BY DEF TypeInv, ChainOK
  <1>2. \A x \in B : x.body \in Contents /\ x.fork \in 0 .. forks - 1
    BY DEF Blocks
  <1> HIDE DEF B
  <1>3. DOMAIN chain = 1 .. Len(chain) /\ \A b \in DOMAIN chain : chain[b] \in B
    BY <1>1
  <1>4. \A b \in DOMAIN chain : chain[b].body \in Contents /\ chain[b].fork \in 0 .. forks - 1
    BY <1>2, <1>3
  <1> QED
    BY <1>1, <1>3, <1>4, BodyConstants DEF IsBody, HeadBlock

\* Up to a lower block there are the lower ones of the logs.
LEMMA LogsUpTo ==
  ASSUME NEW c, \A b \in DOMAIN c : IsBody(c[b].body), NEW s \in Int, NEW t \in Int, s <= t
  PROVE  \A l : l \in AllLogs(c, s) <=> l \in AllLogs(c, t) /\ l.blk <= s
  <1>1. ASSUME NEW l \in AllLogs(c, s) PROVE l \in AllLogs(c, t) /\ l.blk <= s
    <2>1. l.blk \in 0 .. s
      BY AllLogsFacts
    <2>2. PICK b \in BlocksIn(c, 0, s) : l \in BlockLogs(c, b)
      BY AllLogsFacts
    <2>3. b \in BlocksIn(c, 0, t)
      BY <2>2 DEF BlocksIn
    <2> QED
      BY <2>1, <2>2, <2>3, AllLogsFacts
  <1>2. ASSUME NEW l \in AllLogs(c, t), l.blk <= s PROVE l \in AllLogs(c, s)
    <2>1. /\ l.blk \in 0 .. t /\ l.blk + 1 \in DOMAIN c /\ l.ev \in c[l.blk + 1].body
          /\ l = LogAt(c, l.blk, l.ev)
      BY AllLogsFacts
    <2>2. l.blk \in BlocksIn(c, 0, s) /\ l \in BlockLogs(c, l.blk)
      BY <1>2, <2>1 DEF BlocksIn, BlockLogs
    <2> QED
      BY <2>2, AllLogsFacts
  <1> QED
    BY <1>1, <1>2

\* A scan finds the logs of its source in its range.
LEMMA ScanSelects ==
  ASSUME NEW c, \A b \in DOMAIN c : IsBody(c[b].body), NEW src, src.at \in Nat,
         NEW from \in Int, NEW to \in Int
  PROVE  \A l : l \in ScanSourceRange(c, src, from, to) <=>
            /\ l \in AllLogs(c, to) /\ l.blk >= from /\ l.blk >= src.at
            /\ l.ev.addr = src.addr
  <1> DEFINE lo == MaxOf(from, src.at)
  <1>1. lo \in Nat /\ lo >= from /\ lo >= src.at /\ \A b \in Int : b >= from /\ b >= src.at => b >= lo
    BY DEF MaxOf
  <1> HIDE DEF lo
  <1>2. \A l : l \in ScanSourceRange(c, src, from, to) <=>
           (\E b \in BlocksIn(c, lo, to) : l \in BlockLogs(c, b)) /\ l.ev.addr = src.addr
    BY DEF ScanSourceRange, GetLogs, lo
  <1>3. ASSUME NEW l, NEW b \in BlocksIn(c, lo, to), l \in BlockLogs(c, b)
        PROVE  l \in AllLogs(c, to) /\ l.blk >= from /\ l.blk >= src.at
    <2>1. b \in BlocksIn(c, 0, to) /\ b \in Int /\ b >= lo
      BY <1>1 DEF BlocksIn
    <2>2. l.blk = b
      BY <1>3 DEF BlockLogs, LogAt
    <2> QED
      BY <1>1, <1>3, <2>1, <2>2, AllLogsFacts
  <1>4. ASSUME NEW l \in AllLogs(c, to), l.blk >= from, l.blk >= src.at
        PROVE  \E b \in BlocksIn(c, lo, to) : l \in BlockLogs(c, b)
    <2>1. /\ l.blk \in 0 .. to /\ l.blk + 1 \in DOMAIN c /\ l.ev \in c[l.blk + 1].body
          /\ l = LogAt(c, l.blk, l.ev)
      BY AllLogsFacts
    <2>2. l.blk \in BlocksIn(c, lo, to) /\ l \in BlockLogs(c, l.blk)
      BY <1>1, <1>4, <2>1 DEF BlocksIn, BlockLogs
    <2> QED
      BY <2>2
  <1> QED
    BY <1>2, <1>3, <1>4

\* Two chains that agree up to a block.
Agree(c, d, to) ==
    \A b \in 0 .. to : b + 1 \in DOMAIN c /\ b + 1 \in DOMAIN d /\ c[b + 1] = d[b + 1]

\* They have the same logs up to it.
LEMMA AgreeFacts ==
  ASSUME NEW c, NEW d, NEW to \in Int, Agree(c, d, to)
  PROVE  /\ AllLogs(c, to) = AllLogs(d, to)
         /\ \A src, from : src.at \in Nat /\ from \in Int =>
               ScanSourceRange(c, src, from, to) = ScanSourceRange(d, src, from, to)
  <1>1. ASSUME NEW lo \in Nat
        PROVE  /\ BlocksIn(c, lo, to) = BlocksIn(d, lo, to)
               /\ \A b \in BlocksIn(c, lo, to) : BlockLogs(c, b) = BlockLogs(d, b)
    BY DEF Agree, BlocksIn, BlockLogs, LogAt
  <1>2. ASSUME NEW lo \in Nat
        PROVE  UNION {BlockLogs(c, b) : b \in BlocksIn(c, lo, to)}
                 = UNION {BlockLogs(d, b) : b \in BlocksIn(d, lo, to)}
    BY <1>1
  <1>3. AllLogs(c, to) = AllLogs(d, to)
    BY <1>2 DEF AllLogs
  <1>4. ASSUME NEW src, NEW from, src.at \in Nat, from \in Int
        PROVE  ScanSourceRange(c, src, from, to) = ScanSourceRange(d, src, from, to)
    <2>1. MaxOf(from, src.at) \in Nat
      BY <1>4 DEF MaxOf
    <2> QED
      BY <1>2, <2>1 DEF ScanSourceRange, GetLogs
  <1> QED
    BY <1>3, <1>4

\* Mining extends the chain.
LEMMA MineExtends ==
  ASSUME TypeInv, Mine
  PROVE  /\ Len(chain') = Len(chain) + 1 /\ DOMAIN chain' = 1 .. Len(chain) + 1
         /\ \A b \in DOMAIN chain : chain'[b] = chain[b]
         /\ chain'[Len(chain) + 1].fork = forks
         /\ \A to \in Int : to < Len(chain) => Agree(chain, chain', to)
  <1>1. PICK body \in Contents : chain' = Append(chain, [fork |-> forks, body |-> body])
    BY DEF Mine, MineBlock
  <1> DEFINE B == Blocks(forks + 1)
             new == [fork |-> forks, body |-> body]
             n == Len(chain)
  <1>2. chain \in Seq(B) /\ new \in B /\ new.fork = forks /\ n \in Nat /\ DOMAIN chain = 1 .. n
    <2>1. chain \in Seq(Blocks(forks)) /\ forks \in Nat
      BY DEF TypeInv, ChainOK
    <2>2. Blocks(forks) \subseteq B
      BY <2>1, TypesGrow
    <2>3. new \in B
      BY <2>1 DEF Blocks
    <2> HIDE DEF B, new
    <2>4. chain \in Seq(B)
      BY <2>1, <2>2
    <2> QED
      BY <2>3, <2>4, ChainBodies DEF new
  <1>3. chain' = Append(chain, new)
    BY <1>1
  <1> HIDE DEF B, new
  <1>4. /\ Len(chain') = n + 1 /\ DOMAIN chain' = 1 .. n + 1 /\ chain'[n + 1] = new
        /\ \A i \in 1 .. n : chain'[i] = chain[i]
    BY <1>2, <1>3
  <1>5. ASSUME NEW to \in Int, to < n PROVE Agree(chain, chain', to)
    BY <1>2, <1>4, <1>5 DEF Agree
  <1> QED
    BY <1>2, <1>4, <1>5

\* A checkpoint that is on the chain after it moved was on it before, and nothing
\* changed up to its block.
LEMMA OnKept ==
  ASSUME TypeInv, Mine \/ Reorg, NEW k \in Checkpoints(forks), On(chain', k)
  PROVE  On(chain, k) /\ Agree(chain, chain', k.to)
  <1>1. /\ k.hash \in 0 .. forks - 1 /\ k.to + 1 \in DOMAIN chain'
        /\ chain'[k.to + 1].fork = k.hash /\ k.to \in Int
    BY DEF On, Checkpoints, OptBlock, NoBlock
  <1>2. DOMAIN chain = 1 .. Len(chain) /\ Len(chain) \in Nat /\ forks \in Nat
    BY ChainBodies DEF TypeInv, ChainOK
  <1>3. On(chain, k)
    <2>1. Canonical(k)'
      BY DEF On, Canonical, IsCanonical
    <2> QED
      BY <2>1, LostStaysLost, CanonicalIsOn
  <1>4. CASE Mine
    <2>1. k.to < Len(chain)
      BY <1>1, <1>2, <1>3 DEF On
    <2> QED
      BY <1>1, <1>3, <1>4, <2>1, MineExtends
  <1>5. CASE Reorg
    <2>1. PICK d \in 1 .. MaxReorgDepth :
             /\ d <= Len(chain)
             /\ LET kept == Len(chain) - d
                IN \E bodies \in [1 .. d -> Contents] :
                      chain' = [b \in 1 .. Len(chain) |->
                                  IF b <= kept THEN chain[b]
                                  ELSE [fork |-> forks + (b - kept) - 1,
                                        body |-> bodies[b - kept]]]
      BY <1>5 DEF Reorg, ReplaceBlocks
    <2> DEFINE n == Len(chain)
               kept == n - d
               b == k.to + 1
    <2>2. PICK bodies \in [1 .. d -> Contents] :
             chain' = [i \in 1 .. n |->
                         IF i <= kept THEN chain[i]
                         ELSE [fork |-> forks + (i - kept) - 1, body |-> bodies[i - kept]]]
      BY <2>1
    <2>3. b \in 1 .. n /\ d \in Nat /\ n \in Nat /\ kept \in Nat /\ DOMAIN chain' = 1 .. n
      BY <1>1, <1>2, <2>1, <2>2
    <2>4. b <= kept
      <3>1. SUFFICES ASSUME b > kept PROVE FALSE
        BY <2>3
      <3>2. chain'[b].fork = forks + (b - kept) - 1
        BY <2>2, <2>3, <3>1
      <3> QED
        BY <1>1, <1>2, <2>3, <3>1, <3>2
    <2>5. \A i \in 1 .. kept : i \in 1 .. n /\ chain'[i] = chain[i]
      BY <2>2, <2>3
    <2> HIDE DEF n, kept
    <2>6. \A i \in 0 .. k.to : i + 1 \in 1 .. kept
      BY <1>1, <2>3, <2>4
    <2> QED
      BY <1>2, <1>3, <2>3, <2>5, <2>6 DEF Agree, n
  <1> QED
    BY <1>4, <1>5

\* What an index holds on a chain, it holds on every chain that agrees up to its
\* block.
LEMMA CompleteKept ==
  ASSUME NEW c, NEW d, NEW e, e.ckpt.to \in Int, Agree(c, d, e.ckpt.to)
  PROVE  /\ Complete(c, e) => Complete(d, e)
         /\ Unfinished(c, e) => Unfinished(d, e)
  <1>1. AllLogs(c, e.ckpt.to) = AllLogs(d, e.ckpt.to)
    BY AgreeFacts
  <1> QED
    BY <1>1 DEF Complete, Unfinished

\* A stored snapshot stays one when the chain moves.
LEMMA StoredKept ==
  ASSUME TypeInv, Mine \/ Reorg, NEW s \in StoredSnapshots(forks), StoredOK(chain, s)
  PROVE  StoredOK(chain', s)
  <1>0. /\ s.ckpt \in Checkpoints(forks) /\ Range(s.history) \subseteq Entries(forks)
        /\ s.ckpt.to \in Int /\ Len(chain) \in Nat
    BY ListOf, ChainBodies DEF StoredSnapshots, Checkpoints, OptBlock, NoBlock
  <1>1. CASE ~IsSome(s)
    BY <1>1 DEF StoredOK
  <1>2. CASE IsSome(s)
    <2>1. SnapshotOK(chain, s)
      BY <1>2 DEF StoredOK
    <2>2. s.ckpt.to < Len(chain')
      <3>1. HeadBlock' >= HeadBlock /\ HeadBlock' \in Int /\ HeadBlock = Len(chain) - 1
            /\ HeadBlock' = Len(chain') - 1
        BY HeadGrows DEF HeadBlock
      <3>2. TypeInv'
        BY MineTyped, ReorgTyped
      <3>3. Len(chain') \in Nat
        BY <3>2 DEF TypeInv, ChainOK
      <3> QED
        BY <1>0, <2>1, <3>1, <3>3 DEF SnapshotOK
    <2>3. On(chain', s.ckpt) => IF s.ckpt.complete THEN Complete(chain', s) ELSE Unfinished(chain', s)
      <3> SUFFICES ASSUME On(chain', s.ckpt)
                   PROVE  IF s.ckpt.complete THEN Complete(chain', s) ELSE Unfinished(chain', s)
        OBVIOUS
      <3>1. On(chain, s.ckpt) /\ Agree(chain, chain', s.ckpt.to)
        BY <1>0, OnKept
      <3> QED
        BY <1>0, <2>1, <3>1, CompleteKept DEF SnapshotOK
    <2>4. ASSUME NEW e \in Range(s.history), EntryOK(chain, e) PROVE EntryOK(chain', e)
      <3>1. e.ckpt \in Checkpoints(forks) /\ e.ckpt.to \in Int
        BY <1>0 DEF Entries, Checkpoints, OptBlock, NoBlock
      <3>2. ASSUME On(chain', e.ckpt) PROVE Complete(chain', e)
        <4>1. On(chain, e.ckpt) /\ Agree(chain, chain', e.ckpt.to)
          BY <3>1, <3>2, OnKept
        <4> QED
          BY <2>4, <3>1, <4>1, CompleteKept DEF EntryOK
      <3> QED
        BY <2>4, <3>2 DEF EntryOK
    <2>5. MaxReorgs = 0 => On(chain', s.ckpt)
      <3> SUFFICES ASSUME MaxReorgs = 0 PROVE On(chain', s.ckpt)
        OBVIOUS
      <3>1. Mine
        BY DEF TypeInv, ChainOK, Reorg, ReplaceBlocks
      <3>2. On(chain, s.ckpt)
        BY <2>1 DEF SnapshotOK
      <3> QED
        BY <3>1, <3>2, MineExtends, ChainBodies DEF On
    <2> QED
      BY <1>2, <2>1, <2>2, <2>3, <2>4, <2>5 DEF StoredOK, SnapshotOK
  <1> QED
    BY <1>1, <1>2

\* A pass goes on when a block is mined.
LEMMA PassKept ==
  ASSUME TypeInv, Mine, Scanned, RangeOK
  PROVE  RangeOK' /\ (ScanOK => ScanOK') /\ (WorkOK => WorkOK')
  <1>1. UNCHANGED <<pc, prev, run, db>>
    BY DEF Mine, procVars
  <1>2. /\ run.to \in Nat /\ run.from \in Int /\ run.to < Len(chain) /\ Len(chain) \in Nat
        /\ DOMAIN chain = 1 .. Len(chain)
        /\ \A src \in StaticSources \cup prev.dyn : src.at \in Nat
    <2>1. \A src \in prev.dyn : src.at \in Nat
      BY DEF TypeInv, ProcessOK, StoredSnapshots, Sources
    <2>2. run.to \in Nat /\ run.from \in Int
      BY DEF TypeInv, ProcessOK, Scanned, Runs, OptBlock, NoBlock
    <2> QED
      BY <2>1, <2>2, ChainBodies, IndexerConstants DEF RangeOK
  <1>3. Len(chain') = Len(chain) + 1 /\ Agree(chain, chain', run.to)
        /\ \A b \in DOMAIN chain : chain'[b] = chain[b]
    BY <1>2, MineExtends
  <1>4. /\ AllLogs(chain', run.to) = AllLogs(chain, run.to)
        /\ \A src \in StaticSources \cup prev.dyn :
              ScanSourceRange(chain', src, run.from, run.to)
                = ScanSourceRange(chain, src, run.from, run.to)
    BY <1>2, <1>3, AgreeFacts
  <1>5. RangeOK'
    <2>1. chain'[run.to + 1] = chain[run.to + 1]
      BY <1>2, <1>3
    <2>2. run.to < Len(chain')
      BY <1>2, <1>3
    <2> QED
      BY <1>1, <2>1, <2>2 DEF RangeOK, IsSome
  <1>6. ScanOK => ScanOK'
    BY <1>1, <1>4 DEF ScanOK
  <1>7. WorkOK => WorkOK'
    BY <1>1, <1>4 DEF WorkOK
  <1> QED
    BY <1>5, <1>6, <1>7

(***************************************************************************)
(* The steps.                                                               *)
(***************************************************************************)
\* The chain moves.
LEMMA ChainCert ==
  ASSUME TypeInv, CertInv, Regular, Mine \/ Reorg PROVE CertInv'
  <1>1. UNCHANGED <<db, pc, args, prev, run, faults>>
    BY DEF Mine, Reorg, procVars
  <1>2. StoredOK(chain', db) /\ StoredOK(chain', prev)
    BY StoredKept DEF CertInv, TypeInv, ProcessOK
  <1>3. CASE Mine
    <2>1. Scanned => RangeOK' /\ (ScanOK => ScanOK') /\ (WorkOK => WorkOK')
      BY <1>3, PassKept DEF CertInv
    <2>2. ASSUME On(chain, prev.ckpt) PROVE On(chain', prev.ckpt)
      BY <1>3, <2>2, MineExtends, ChainBodies DEF On
    <2> QED
      BY <1>1, <1>2, <2>1, <2>2
         DEF CertInv, ArgsOK, IsSome, Scanned, Active, OneBlockOK
  <1>4. CASE Reorg
    <2>1. pc \in {"down", "load"}
      BY <1>4 DEF Reorg, Regular
    <2> QED
      BY <1>1, <1>2, <2>1 DEF CertInv, ArgsOK, Scanned
  <1> QED
    BY <1>3, <1>4

\* No snapshot is a stored one.
LEMMA NothingStored ==
  ASSUME NEW c
  PROVE  StoredOK(c, NoSnapshot) /\ ~IsSome(NoSnapshot) /\ NoSnapshot.ckpt.hash = NoHash
  BY DEF StoredOK, IsSome, Nothing, NoSnapshot, NoCheckpoint

\* A pass ends.
LEMMA EndCert ==
  ASSUME CertInv, UNCHANGED chain, StoredOK(chain, db'), prev' = NoSnapshot,
         \/ pc' = "down"
         \/ pc # "down" /\ EndPass
  PROVE  CertInv'
  <1>1. pc' = "down"
    BY DEF EndPass, CertInv, ArgsOK
  <1>2. StoredOK(chain', db') /\ StoredOK(chain', prev')
    BY NothingStored
  <1> QED
    BY <1>1, <1>2 DEF CertInv, ArgsOK, Scanned

\* A pass that fails, and a crash, lose the pass.
LEMMA FailCert ==
  ASSUME CertInv, FailPass \/ Crash PROVE CertInv'
  <1>1. UNCHANGED <<chain, db>> /\ prev' = NoSnapshot
        /\ (pc' = "down" \/ (pc # "down" /\ EndPass))
    BY DEF FailPass, Crash, EndPass, chainVars, Passing
  <1> QED
    BY <1>1, EndCert DEF CertInv

\* A launch reads nothing yet.
LEMMA LaunchCert ==
  ASSUME TypeInv, CertInv, Regular, Launch PROVE CertInv'
  <1>1. UNCHANGED <<chain, db, prev>> /\ pc' = "load"
    BY DEF Launch, chainVars
  <1>2. ~args'.watch /\ args'.policy \in Policies /\ args'.from \in FromArgs
    <2>1. PICK f \in FromArgs, t \in ToArgs, r \in ResetArgs, w \in WatchArgs, p \in Policies :
             args' = [from |-> f, to |-> t, reset |-> r, watch |-> w, policy |-> p]
      BY DEF Launch
    <2>2. w = FALSE
      BY IndexerConstants DEF Regular
    <2> QED
      BY <2>1, <2>2
  <1> QED
    BY <1>1, <1>2 DEF CertInv, ArgsOK, Scanned

\* The snapshot that is loaded is the stored one.
LEMMA LoadCert ==
  ASSUME CertInv, Load PROVE CertInv'
  <1>1. UNCHANGED <<chain, db, args, run>> /\ pc = "load"
        /\ pc' = (IF prev'.ckpt.hash = NoHash THEN "range" ELSE "check")
        /\ prev' \in {NoSnapshot, db}
    BY DEF Load, chainVars
  <1>2. StoredOK(chain, prev')
    BY <1>1, NothingStored DEF CertInv
  <1>3. IsSome(prev') <=> prev'.ckpt.hash # NoHash
    BY <1>2 DEF StoredOK, SnapshotOK, Nothing, NoCheckpoint, IsSome
  <1> QED
    BY <1>1, <1>2, <1>3 DEF CertInv, ArgsOK, Scanned, IsSome

\* A stored hash that does not mismatch is on the chain.
LEMMA MatchIsOn ==
  ASSUME TypeInv, Regular, NEW k \in Checkpoints(forks), k.to # NoBlock,
         k.to < Len(chain), k.hash # NoHash,
         NEW hash \in RpcHashes(k.to), ~BlockHashMismatch(k.hash, hash)
  PROVE  On(chain, k)
  <1>1. k.to \in Nat /\ k.to + 1 \in DOMAIN chain
    BY ChainBodies DEF Checkpoints, OptBlock
  <1>2. hash = chain[k.to + 1].fork /\ hash # NoHash
    BY <1>1, ChainBodies DEF RpcHashes, Regular, NoHash, TypeInv, ChainOK
  <1> QED
    BY <1>1, <1>2 DEF On, BlockHashMismatch

\* A checkpoint that the pass continues from is on the chain.
LEMMA CheckCert ==
  ASSUME TypeInv, CertInv, Regular, Resumable \/ OneBlockPasses, CheckCheckpoint
  PROVE  CertInv'
  <1>1. UNCHANGED <<chain, db>> /\ pc = "check" /\ IsSome(prev)
    BY DEF CheckCheckpoint, chainVars, CertInv
  <1>2. SnapshotOK(chain, prev) /\ prev.ckpt \in Checkpoints(forks)
    BY <1>1 DEF CertInv, StoredOK, TypeInv, ProcessOK, StoredSnapshots
  <1>3. CASE EndPass
    BY <1>1, <1>3, EndCert DEF CertInv, EndPass
  <1>4. CASE \E hash \in RpcHashes(prev.ckpt.to) :
                /\ ~BlockHashMismatch(prev.ckpt.hash, hash)
                /\ pc' = "range" /\ UNCHANGED <<prev, run, args>>
    <2>1. On(chain, prev.ckpt)
      BY <1>1, <1>2, <1>4, MatchIsOn DEF SnapshotOK, IsSome
    <2> QED
      BY <1>1, <1>4, <2>1 DEF CertInv, ArgsOK, Scanned, IsSome
  <1>5. CASE /\ \E hash \in RpcHashes(prev.ckpt.to) : BlockHashMismatch(prev.ckpt.hash, hash)
             /\ args.policy = "rollback" /\ pc' = "probe" /\ UNCHANGED <<prev, args>>
    <2>1. ~On(chain, prev.ckpt)
      BY <1>5, MismatchIsLost, CanonicalIsOn
    <2>2. MaxReorgs # 0 /\ "rollback" \in Policies
      BY <1>1, <1>2, <1>5, <2>1 DEF SnapshotOK, CertInv, ArgsOK
    <2>3. OneBlockPasses
      BY <2>2 DEF Resumable
    <2> QED
      BY <1>1, <1>5, <2>3 DEF CertInv, ArgsOK, Scanned, IsSome
  <1>6. CASE prev' = NoSnapshot /\ pc' = "range" /\ UNCHANGED <<run, args>>
    <2>1. StoredOK(chain, prev') /\ ~IsSome(prev')
      BY <1>6, NothingStored
    <2> QED
      BY <1>1, <1>6, <2>1 DEF CertInv, ArgsOK, Scanned
  <1> QED
    BY <1>3, <1>4, <1>5, <1>6 DEF CheckCheckpoint, CheckpointHashes

\* So is the one that a rollback leaves.
LEMMA ProbeCert ==
  ASSUME TypeInv, CertInv, Regular, ProbeHistory
  PROVE  CertInv'
  <1>1. UNCHANGED <<chain, db>> /\ pc = "probe" /\ IsSome(prev) /\ OneBlockPasses
    BY DEF ProbeHistory, chainVars, CertInv
  <1>2. /\ SnapshotOK(chain, prev) /\ prev \in StoredSnapshots(forks)
        /\ IsHistory(prev.history) /\ forks \in Nat
    BY <1>1 DEF CertInv, StoredOK, TypeInv, ChainOK, ProcessOK
  <1>3. CASE EndPass
    BY <1>1, <1>3, EndCert DEF CertInv, EndPass
  <1>4. CASE UNCHANGED <<prev, pc, args>>
    BY <1>1, <1>4 DEF CertInv, ArgsOK, Scanned, IsSome
  <1>5. CASE /\ run.probe > 0 /\ pc' = "range" /\ UNCHANGED args
             /\ LET entry == prev.history[run.probe]
                IN /\ \E hash \in RpcHashes(entry.ckpt.to) :
                         entry.ckpt.hash # NoHash /\ ~BlockHashMismatch(entry.ckpt.hash, hash)
                   /\ prev' = RollbackToHistoricalSnapshot(prev, entry)
    <2> DEFINE entry == prev.history[run.probe]
               back == RollbackToHistoricalSnapshot(prev, entry)
    <2>1. run.probe \in DOMAIN prev.history
      BY <1>1, <1>2, <1>5, ListFacts DEF TypeInv, ProcessOK, Runs, IsHistory
    <2>2. /\ back \in StoredSnapshots(forks)
          /\ HistoryEntry(back) = HistoryEntry(entry)
          /\ Range(back.history) = {e \in Range(prev.history) : e.ckpt.to <= entry.ckpt.to}
          /\ entry \in Entries(forks) /\ entry \in Range(prev.history)
      BY <1>2, <2>1, RollbackTyped
    <2>3. back.ckpt = entry.ckpt /\ back.applied = entry.applied /\ back.dyn = entry.dyn
          /\ back.origin = prev.origin
      BY <1>2 DEF RollbackToHistoricalSnapshot, StoredSnapshots
    <2> HIDE DEF entry, back
    <2>4. /\ EntryOK(chain, entry) /\ entry.ckpt.to <= prev.ckpt.to
          /\ \A e \in Range(prev.history) : EntryOK(chain, e)
          /\ \A src \in StaticSources : prev.origin <= src.at
          /\ prev.ckpt.to < Len(chain)
      BY <1>1, <1>2, <2>2 DEF SnapshotOK
    <2>5. entry.ckpt \in Checkpoints(forks) /\ prev.ckpt.to \in Int /\ Len(chain) \in Nat
          /\ entry.ckpt.to \in Int
      BY <1>2, <2>2, ChainBodies
         DEF Entries, StoredSnapshots, Checkpoints, OptBlock, NoBlock
    <2>6. entry.ckpt.to < Len(chain)
      BY <2>4, <2>5
    <2>7. On(chain, entry.ckpt)
      BY <1>5, <2>4, <2>5, <2>6, MatchIsOn DEF entry, EntryOK
    <2>8. Complete(chain, back)
      BY <2>3, <2>4, <2>7 DEF EntryOK, Complete
    <2>9. SnapshotOK(chain, back) /\ IsSome(back)
      BY <2>2, <2>3, <2>4, <2>6, <2>7, <2>8 DEF SnapshotOK, EntryOK, IsSome
    <2>10. prev' = back
      BY <1>5 DEF back, entry
    <2>11. StoredOK(chain, prev') /\ On(chain, prev'.ckpt)
      BY <2>3, <2>7, <2>9, <2>10 DEF StoredOK
    <2> QED
      BY <1>1, <1>5, <2>11 DEF CertInv, ArgsOK, Scanned
  <1> QED
    BY <1>3, <1>4, <1>5 DEF ProbeHistory

(***************************************************************************)
(* A pass is set up.                                                        *)
(***************************************************************************)
\* The range of a pass without an explicit target ends at the head at most.
LEMMA RangeBound ==
  ASSUME NEW from \in Int, NEW perPass \in Nat, NEW head \in Int
  PROVE  LET to == BoundedSyncToBlock(from, NoBlock, perPass, head)
         IN  to \in Int /\ to <= head /\ (perPass = 1 /\ from # NoBlock => to <= from)
  BY DEF BoundedSyncToBlock, BoundedToBlockFromHead, MaxOf, NoBlock

\* The state that ChooseRange leaves.
LEMMA ChooseFacts ==
  ASSUME TypeInv, ChooseRange
  PROVE  LET from == SyncStartBlock(args.from, IsSome(prev), prev.ckpt)
         IN  /\ UNCHANGED <<chain, db, args>> /\ pc = "range" /\ pc' = "scan"
             /\ prev' = IF IsSome(prev) THEN prev ELSE [prev EXCEPT !.origin = args.from]
             /\ \E head \in RpcHeads :
                   run'.to = BoundedSyncToBlock(from, args.to, MaxBlocksPerPass, head)
             /\ run'.from = from /\ run'.todo = StaticSources \cup prev.dyn
             /\ run'.done = (IF prev.ckpt.complete THEN {} ELSE prev.done)
             /\ run'.applied = prev.applied /\ run'.dyn = prev.dyn
             /\ run'.pending = {} /\ run'.history = <<>> /\ run'.executed = 0
             /\ run'.meta = NotCached
  BY DEF ChooseRange, chainVars, NoRun

\* The range is chosen.
LEMMA ChooseCert ==
  ASSUME TypeInv, CertInv, Regular, Resumable \/ OneBlockPasses, args.to = NoBlock,
         MaxHeadLag = 0 => SpanOK(prev.ckpt) /\ prev.ckpt.to <= HeadBlock, ChooseRange
  PROVE  CertInv'
  <1> DEFINE from == SyncStartBlock(args.from, IsSome(prev), prev.ckpt)
             to(head) == BoundedSyncToBlock(from, args.to, MaxBlocksPerPass, head)
  <1>1. /\ UNCHANGED <<chain, db, args>> /\ pc = "range" /\ pc' = "scan"
        /\ prev' = IF IsSome(prev) THEN prev ELSE [prev EXCEPT !.origin = args.from]
        /\ run'.from = from /\ run'.todo = StaticSources \cup prev.dyn
        /\ run'.done = (IF prev.ckpt.complete THEN {} ELSE prev.done)
        /\ run'.applied = prev.applied /\ run'.dyn = prev.dyn
        /\ run'.pending = {} /\ run'.history = <<>> /\ run'.executed = 0
        /\ run'.meta = NotCached
    BY ChooseFacts
  <1>2. PICK head \in RpcHeads : run'.to = to(head)
    BY ChooseFacts
  <1>3. /\ from \in OptBlock /\ to(head) \in Nat /\ (IsSome(prev) => from \in Nat)
        /\ head \in Nat /\ head <= HeadBlock
    BY RangeFacts
  <1>4. /\ prev \in StoredSnapshots(forks) /\ prev.ckpt \in Checkpoints(forks)
        /\ args.from \in FromArgs /\ StoredOK(chain, prev)
        /\ (IsSome(prev) => On(chain, prev.ckpt))
    BY <1>1 DEF TypeInv, ProcessOK, StoredSnapshots, CertInv, ArgsOK
  <1>5. from # NoBlock /\ (~IsSome(prev) => from = args.from)
    BY <1>3, <1>4 DEF SyncStartBlock, Regular, NoBlock
  <1>6. IsSome(prev) /\ ~prev.ckpt.complete => from = prev.ckpt.from
    BY <1>4 DEF SyncStartBlock, StoredOK, SnapshotOK
  <1>7. to(head) <= head /\ (MaxBlocksPerPass = 1 => to(head) <= from)
    <2>1. from \in Int /\ MaxBlocksPerPass \in Nat /\ head \in Int
      BY <1>3, IndexerConstants DEF OptBlock, NoBlock
    <2> HIDE DEF from
    <2> QED
      BY <1>5, <2>1, RangeBound
  <1>8. ASSUME IsSome(prev), ~prev.ckpt.complete PROVE prev.ckpt.to <= to(head)
    <2>1. ~OneBlockPasses
      BY <1>4, <1>8 DEF StoredOK, SnapshotOK
    <2>2. MaxHeadLag = 0
      BY <2>1 DEF Resumable
    <2> HIDE DEF from
    <2> QED
      BY <2>2, RangeSound DEF from
  <1>9. HeadBlock = Len(chain) - 1 /\ Len(chain) \in Nat
    BY ChainBodies
  <1> HIDE DEF from, to
  <1>10. /\ prev'.ckpt = prev.ckpt /\ prev'.applied = prev.applied /\ prev'.dyn = prev.dyn
         /\ prev'.done = prev.done /\ prev'.history = prev.history
         /\ (IsSome(prev') <=> IsSome(prev)) /\ (IsSome(prev) => prev' = prev)
         /\ (~IsSome(prev) => prev'.origin = args.from)
    BY <1>1, <1>4 DEF StoredSnapshots, IsSome
  <1>11. StoredOK(chain', prev')
    BY <1>1, <1>4, <1>10 DEF StoredOK, Nothing
  <1>12. RangeOK'
    <2>1. \A src \in StaticSources : prev'.origin <= src.at
      BY <1>4, <1>10 DEF StoredOK, SnapshotOK, Regular
    <2>2. ~IsSome(prev') => \A src \in StaticSources : run'.from <= src.at
      BY <1>1, <1>4, <1>5, <1>10 DEF Regular
    <2>3. run'.from # NoBlock /\ run'.to < Len(chain')
      BY <1>1, <1>2, <1>3, <1>5, <1>7, <1>9
    <2>4. IsSome(prev') /\ ~prev'.ckpt.complete =>
             run'.from = prev'.ckpt.from /\ prev'.ckpt.to <= run'.to
      BY <1>1, <1>2, <1>6, <1>8, <1>10
    <2>5. OneBlockPasses => run'.to <= run'.from
      BY <1>1, <1>2, <1>7 DEF OneBlockPasses
    <2> QED
      BY <1>1, <2>1, <2>2, <2>3, <2>4, <2>5 DEF RangeOK
  <1>13. ScanOK'
    BY <1>1, <1>10 DEF ScanOK
  <1>14. OneBlockOK'
    BY <1>1, EmptyHistory DEF OneBlockOK
  <1>15. StoredOK(chain', db') /\ ArgsOK'
    BY <1>1 DEF CertInv, ArgsOK
  <1> QED
    BY <1>1, <1>4, <1>10, <1>11, <1>12, <1>13, <1>14, <1>15 DEF CertInv, Scanned

\* The sources of a pass begin at some block.
LEMMA SourcesStart ==
  ASSUME TypeInv
  PROVE  \A src \in StaticSources \cup prev.dyn : src.at \in Nat
  BY IndexerConstants DEF TypeInv, ProcessOK, StoredSnapshots, Sources

\* A source is scanned.
LEMMA ScanCert ==
  ASSUME TypeInv, CertInv, ScanSource PROVE CertInv'
  <1>1. UNCHANGED <<chain, db, args, prev, pc>> /\ pc = "scan"
    BY DEF ScanSource, chainVars
  <1>2. PICK src \in run.todo :
           run' = [run EXCEPT
                     !.todo = run.todo \ {src},
                     !.pending = run.pending \cup ScanSourceRange(chain, src, run.from, run.to)]
    BY DEF ScanSource
  <1>3. /\ run \in Runs(forks) /\ run.to \in Nat /\ run.from \in OptBlock /\ ChainOK
        /\ RangeOK /\ ScanOK /\ (OneBlockPasses => OneBlockOK)
    BY <1>1 DEF TypeInv, ProcessOK, Runs, CertInv, Scanned
  <1> DEFINE found == ScanSourceRange(chain, src, run.from, run.to)
             pending == run.pending \cup found
             todo == run.todo \ {src}
  <1> HIDE DEF found, pending, todo
  <1>4. run' = [run EXCEPT !.todo = todo, !.pending = pending]
    BY <1>2 DEF found, pending, todo
  <1>5. /\ run'.todo = todo /\ run'.pending = pending
        /\ run'.from = run.from /\ run'.to = run.to /\ run'.done = run.done
        /\ run'.applied = run.applied /\ run'.dyn = run.dyn /\ run'.executed = run.executed
        /\ run'.last = run.last /\ run'.meta = run.meta /\ run'.history = run.history
    BY <1>3, <1>4 DEF Runs
  <1>6. src.at \in Nat /\ src \in StaticSources \cup prev.dyn
    BY <1>3, SourcesStart DEF ScanOK
  <1>7. \A l \in pending : run.from <= l.blk /\ l.blk <= run.to
    <2>1. \A l \in found : run.from <= l.blk /\ l.blk <= run.to
      <3> SUFFICES ASSUME NEW l \in found PROVE run.from <= l.blk /\ l.blk <= run.to
        OBVIOUS
      <3>1. l.blk >= run.from /\ l.blk <= run.to /\ l.blk \in Int /\ run.from \in Int
        BY <1>3, <1>6, ScanFacts DEF found, Logs, OptBlock, NoBlock
      <3> QED
        BY <3>1
    <2> QED
      BY <1>3, <2>1 DEF pending, RangeOK
  <1>8. RangeOK'
    BY <1>1, <1>3, <1>5, <1>7 DEF RangeOK
  <1>9. \A l : l \in pending <=>
           \E s \in StaticSources \cup prev.dyn :
              s \notin todo /\ l \in ScanSourceRange(chain, s, run.from, run.to)
    BY <1>3, <1>6 DEF ScanOK, pending, found, todo
  <1>10. ScanOK'
    <2>1. todo \subseteq StaticSources \cup prev.dyn
      BY <1>3 DEF ScanOK, todo
    <2> QED
      BY <1>1, <1>3, <1>5, <1>9, <2>1 DEF ScanOK
  <1>11. OneBlockPasses => OneBlockOK'
    BY <1>1, <1>3, <1>5 DEF OneBlockOK
  <1>12. StoredOK(chain', db') /\ StoredOK(chain', prev') /\ ArgsOK'
    BY <1>1 DEF CertInv, ArgsOK
  <1> QED
    BY <1>1, <1>8, <1>10, <1>11, <1>12 DEF CertInv, Scanned

(***************************************************************************)
(* The scans are done.                                                      *)
(***************************************************************************)
\* A set of logs has no two of one identity.
LEMMA IdsAreUnique ==
  ASSUME NEW S, LogSet(S)
  PROVE  \A l, m \in S : LogId(l) = LogId(m) => l = m
  BY DEF LogSet, LogId

\* What the scans of a pass find of a beginning's followed logs is what it misses,
\* when it misses nothing below the range and no log behind it was emitted before
\* the log that created its source.
LEMMA ScansFindTheMissing ==
  ASSUME NEW c, \A b \in DOMAIN c : IsBody(c[b].body), NEW from \in Int, NEW to \in Int,
         NEW dyn, \A src \in StaticSources \cup dyn : src.at \in Nat,
         NEW A \in SUBSET AllLogs(c, to), SourcesOf(A, dyn),
         \A l \in AllLogs(c, to) : Handles(A, l) /\ l \notin A => l.blk >= from,
         \A l \in AllLogs(c, to) : \A m \in A :
            l \notin A /\ l.blk >= from /\ l.blk >= m.blk /\ l.ev.addr \in m.ev.creates
               => Before(m, l)
  PROVE  \A l : l \notin A =>
            ((\E src \in StaticSources \cup dyn : l \in ScanSourceRange(c, src, from, to))
               <=> l \in AllLogs(c, to) /\ Handles(A, l))
  <1> DEFINE S == AllLogs(c, to)
  <1>1. \A l \in S : l.blk \in Nat
    BY AllLogsFacts DEF LogSet
  <1>2. \A src \in StaticSources \cup dyn : \A l :
           l \in ScanSourceRange(c, src, from, to) <=>
              l \in S /\ l.blk >= from /\ l.blk >= src.at /\ l.ev.addr = src.addr
    BY ScanSelects
  <1>3. \A s \in StaticSources : s.at \in Nat /\ MaxOf(0, s.at) = s.at
    BY IndexerConstants DEF MaxOf
  <1> HIDE DEF S
  <1>4. ASSUME NEW l, l \notin A, NEW src \in StaticSources \cup dyn,
               l \in ScanSourceRange(c, src, from, to)
        PROVE  l \in S /\ Handles(A, l)
    <2>1. l \in S /\ l.blk >= from /\ l.blk >= src.at /\ l.ev.addr = src.addr
      BY <1>2, <1>4
    <2>2. CASE src \in StaticSources
      BY <1>3, <2>1, <2>2 DEF Handles, Follows, StaticLog
    <2>3. CASE src \in dyn
      <3>1. PICK m \in A : src.addr \in m.ev.creates /\ src.at = m.blk
        BY <2>3 DEF SourcesOf
      <3>2. Before(m, l)
        BY <1>4, <2>1, <3>1 DEF S
      <3> QED
        BY <2>1, <3>1, <3>2 DEF Handles, Follows
    <2> QED
      BY <2>2, <2>3
  <1>5. ASSUME NEW l \in S, l \notin A, Handles(A, l)
        PROVE  \E src \in StaticSources \cup dyn : l \in ScanSourceRange(c, src, from, to)
    <2>1. l.blk >= from /\ l.blk \in Nat
      BY <1>1, <1>5 DEF S
    <2>2. CASE StaticLog(l, StaticSources, 0)
      <3>1. PICK s \in StaticSources : s.addr = l.ev.addr /\ l.blk >= s.at
        BY <1>3, <2>2 DEF StaticLog
      <3> QED
        BY <1>2, <2>1, <3>1
    <2>3. CASE \E m \in A : Before(m, l) /\ l.ev.addr \in m.ev.creates
      <3>1. PICK m \in A : Before(m, l) /\ l.ev.addr \in m.ev.creates
        BY <2>3
      <3>2. PICK d \in dyn : d.addr = l.ev.addr /\ d.at <= m.blk
        BY <3>1 DEF SourcesOf
      <3>3. m.blk <= l.blk /\ m.blk \in Nat /\ d.at \in Nat
        BY <1>1, <2>1, <3>1 DEF Before, S
      <3>4. l.blk >= d.at
        BY <2>1, <3>2, <3>3
      <3> QED
        BY <1>2, <2>1, <3>2, <3>4
    <2> QED
      BY <1>5, <2>2, <2>3 DEF Handles, Follows
  <1> QED
    BY <1>4, <1>5 DEF S

\* The first pass of a store: it holds nothing yet.
LEMMA FirstPassWork ==
  ASSUME TypeInv, RangeOK, ScanOK, run.todo = {}, run.to \in Nat, run.from \in Int,
         ~IsSome(prev), StoredOK(chain, prev)
  PROVE  WorkOK
  <1> DEFINE S == AllLogs(chain, run.to)
             A == Range(run.applied)
  <1>1. run.applied = <<>> /\ run.dyn = {} /\ run.done = {} /\ prev.dyn = {} /\ A = {}
    BY EmptyHistory DEF StoredOK, Nothing, ScanOK
  <1>2. \A b \in DOMAIN chain : IsBody(chain[b].body)
    BY ChainBodies
  <1>3. \A l \in S : l.blk \in Nat
    BY <1>2, AllLogsFacts DEF LogSet
  <1>4. \A s \in StaticSources : s.at \in Nat /\ MaxOf(0, s.at) = s.at /\ run.from <= s.at
    BY IndexerConstants DEF MaxOf, RangeOK
  <1>5. \A l \in S : Handles({}, l) => l.blk >= run.from
    BY <1>3, <1>4 DEF Handles, Follows, StaticLog
  <1> HIDE DEF S, A
  <1>6. SourcesOf(A, run.dyn) /\ A \in SUBSET S
    BY <1>1 DEF SourcesOf
  <1>7. \A src \in StaticSources \cup run.dyn : src.at \in Nat
    BY <1>1, <1>4
  <1>8. \A l : l \in run.pending <=> l \in S /\ Handles(A, l) /\ l \notin A
    <2>1. \A l \in S : Handles(A, l) /\ l \notin A => l.blk >= run.from
      BY <1>1, <1>5
    <2>2. \A l \in S : \A m \in A :
             l \notin A /\ l.blk >= run.from /\ l.blk >= m.blk /\ l.ev.addr \in m.ev.creates
                => Before(m, l)
      BY <1>1
    <2>3. \A l : l \notin A =>
             ((\E src \in StaticSources \cup run.dyn :
                  l \in ScanSourceRange(chain, src, run.from, run.to)) <=> l \in S /\ Handles(A, l))
      BY <1>2, <1>6, <1>7, <2>1, <2>2, ScansFindTheMissing DEF S
    <2>4. \A l : l \notin A
      BY <1>1
    <2> QED
      BY <1>1, <2>3, <2>4 DEF ScanOK
  <1>9. Unprocessed(run.pending, run.done) = run.pending
    BY <1>1 DEF Unprocessed
  <1>10. InChainOrder(<<>>)
    BY DEF InChainOrder
  <1>11. IsBeginning(A, S, StaticSources, 0)
    BY <1>1 DEF IsBeginning
  <1> QED
    BY <1>1, <1>6, <1>8, <1>9, <1>10, <1>11 DEF WorkOK, S, A

\* A pass behind a complete checkpoint.
LEMMA NextPassWork ==
  ASSUME TypeInv, ScanOK, run.todo = {}, run.to \in Nat,
         prev.ckpt.to \in Nat, prev.ckpt.complete, Complete(chain, prev),
         run.from = prev.ckpt.to + 1, run.from <= run.to
  PROVE  WorkOK
  <1> DEFINE S == AllLogs(chain, run.to)
             S0 == AllLogs(chain, prev.ckpt.to)
             A == Range(run.applied)
  <1>1. run.applied = prev.applied /\ run.dyn = prev.dyn /\ run.done = {}
    BY DEF ScanOK
  <1>2. InChainOrder(run.applied) /\ SourcesOf(A, run.dyn) /\ IsIndex(A, S0, StaticSources, 0)
    BY <1>1 DEF Complete
  <1>3. (\A b \in DOMAIN chain : IsBody(chain[b].body)) /\ run.from \in Int
        /\ \A src \in StaticSources \cup run.dyn : src.at \in Nat
    BY <1>1, ChainBodies, SourcesStart
  <1>4. \A l \in S : l.blk \in Nat
    BY <1>3, AllLogsFacts DEF LogSet
  <1>5. \A l : l \in S0 <=> l \in S /\ l.blk <= prev.ckpt.to
    BY <1>3, LogsUpTo
  <1> HIDE DEF S, S0, A
  <1>6. A \in SUBSET S /\ \A l \in A : l.blk < run.from
    BY <1>2, <1>4, <1>5 DEF IsIndex
  <1>7. \A l \in S : Handles(A, l) /\ l \notin A => l.blk >= run.from
    BY <1>2, <1>4, <1>5 DEF IsIndex, Handles
  <1>8. \A l \in S : \A m \in A : l.blk >= run.from => Before(m, l)
    BY <1>4, <1>6 DEF Before
  <1>9. \A l : l \notin A =>
           ((\E src \in StaticSources \cup run.dyn :
                l \in ScanSourceRange(chain, src, run.from, run.to)) <=> l \in S /\ Handles(A, l))
    BY <1>2, <1>3, <1>6, <1>7, <1>8, ScansFindTheMissing DEF S
  <1>10. \A l \in run.pending : l \notin A
    <2> SUFFICES ASSUME NEW l \in run.pending PROVE l \notin A
      OBVIOUS
    <2>1. PICK src \in StaticSources \cup run.dyn :
             l \in ScanSourceRange(chain, src, run.from, run.to)
      BY <1>1 DEF ScanOK
    <2>2. l.blk >= run.from /\ l \in S
      BY <1>3, <2>1, ScanSelects DEF S
    <2> QED
      BY <1>4, <1>6, <2>2
  <1>11. \A l : l \in run.pending <=> l \in S /\ Handles(A, l) /\ l \notin A
    BY <1>1, <1>9, <1>10 DEF ScanOK
  <1>12. Unprocessed(run.pending, run.done) = run.pending
    BY <1>1 DEF Unprocessed
  <1>13. IsBeginning(A, S, StaticSources, 0)
    BY <1>2, <1>5, <1>6, <1>7, <1>8 DEF IsBeginning, IsIndex, Handles
  <1>14. run.done = {LogId(l) : l \in {m \in A : m.blk >= run.from}}
    <2>1. {m \in A : m.blk >= run.from} = {}
      BY <1>4, <1>6
    <2> QED
      BY <1>1, <2>1
  <1> QED
    BY <1>2, <1>11, <1>12, <1>13, <1>14 DEF WorkOK, S, A

\* A pass over the range of an unfinished one.
LEMMA ResumedPassWork ==
  ASSUME TypeInv, ScanOK, Resumable, run.todo = {}, run.to \in Nat,
         prev.ckpt.to \in Nat, ~prev.ckpt.complete, Unfinished(chain, prev),
         run.from \in Int, run.from = prev.ckpt.from, prev.ckpt.to <= run.to
  PROVE  WorkOK
  <1> DEFINE S == AllLogs(chain, run.to)
             S0 == AllLogs(chain, prev.ckpt.to)
             A == Range(run.applied)
             P == Unprocessed(run.pending, run.done)
  <1>1. run.applied = prev.applied /\ run.dyn = prev.dyn /\ run.done = prev.done
    BY DEF ScanOK
  <1>2. /\ InChainOrder(run.applied) /\ SourcesOf(A, run.dyn)
        /\ IsBeginning(A, S0, StaticSources, 0) /\ run.from <= prev.ckpt.to
        /\ \A l \in S0 : Handles(A, l) /\ l \notin A => l.blk >= run.from
        /\ run.done = {LogId(l) : l \in {m \in A : m.blk >= run.from}}
    BY <1>1 DEF Unfinished
  <1>3. /\ \A b \in DOMAIN chain : IsBody(chain[b].body)
        /\ \A src \in StaticSources \cup run.dyn : src.at \in Nat
        /\ run.from \in Int /\ run.to \in Int
    BY <1>1, ChainBodies, SourcesStart
  <1>4. (\A l \in S : l.blk \in Nat) /\ LogSet(S)
        /\ \A l \in S : l.ev \in chain[l.blk + 1].body /\ l.blk + 1 \in DOMAIN chain
    BY <1>3, AllLogsFacts DEF LogSet
  <1>5. \A l : l \in S0 <=> l \in S /\ l.blk <= prev.ckpt.to
    BY <1>3, LogsUpTo
  <1> HIDE DEF S, S0, A, P
  <1>6. A \in SUBSET S /\ \A l \in A : l.blk <= prev.ckpt.to
    BY <1>2, <1>5 DEF IsBeginning
  <1>7. \A l \in S : Handles(A, l) /\ l \notin A => l.blk >= run.from
    BY <1>2, <1>4, <1>5
  <1>8. ASSUME NEW l \in S, NEW m \in A,
               l \notin A, l.blk >= m.blk, l.ev.addr \in m.ev.creates
        PROVE  Before(m, l)
    <2>1. m \in S /\ m.blk \in Nat /\ l.blk \in Nat /\ l.ev.idx \in Nat /\ m.ev.idx \in Nat
      BY <1>4, <1>6 DEF LogSet
    <2>2. CASE l.blk = m.blk
      <3>1. chain[l.blk + 1].body \in Contents
        BY <1>4, ChainBodies
      <3>2. m.ev.idx <= l.ev.idx
        BY <1>4, <1>8, <2>1, <2>2, <3>1 DEF Resumable
      <3>3. m.ev.idx # l.ev.idx
        BY <1>4, <1>8, <2>1, <2>2 DEF LogSet
      <3> QED
        BY <2>1, <2>2, <3>2, <3>3 DEF Before
    <2> QED
      BY <1>8, <2>1, <2>2 DEF Before
  <1>9. \A l : l \notin A =>
           ((\E src \in StaticSources \cup run.dyn :
                l \in ScanSourceRange(chain, src, run.from, run.to)) <=> l \in S /\ Handles(A, l))
    <2>1. \A l \in S : \A m \in A :
             l \notin A /\ l.blk >= run.from /\ l.blk >= m.blk /\ l.ev.addr \in m.ev.creates
                => Before(m, l)
      BY <1>8
    <2>2. SourcesOf(A, run.dyn)
      BY <1>2
    <2> QED
      BY <1>3, <1>6, <1>7, <2>1, <2>2, ScansFindTheMissing DEF S
  <1>10. \A l : l \in run.pending => l \in S /\ l.blk >= run.from
    <2> SUFFICES ASSUME NEW l \in run.pending PROVE l \in S /\ l.blk >= run.from
      OBVIOUS
    <2>1. PICK src \in StaticSources \cup run.dyn :
             l \in ScanSourceRange(chain, src, run.from, run.to)
      BY <1>1 DEF ScanOK
    <2> QED
      BY <1>3, <2>1, ScanSelects DEF S
  <1>11. \A l \in S : l.blk >= run.from => (LogId(l) \in run.done <=> l \in A)
    <2>1. \A l, m \in S : LogId(l) = LogId(m) => l = m
      BY <1>4, IdsAreUnique
    <2> QED
      BY <1>2, <1>6, <2>1
  <1>12. \A l : l \in P <=> l \in S /\ Handles(A, l) /\ l \notin A
    <2>1. \A l : l \in P <=> l \in run.pending /\ l \notin A
      BY <1>10, <1>11 DEF P, Unprocessed
    <2> QED
      BY <1>1, <1>9, <2>1 DEF ScanOK
  <1>13. \A l \in S : l \notin S0 => \A m \in A : Before(m, l)
    BY <1>4, <1>5, <1>6 DEF Before
  <1>14. IsBeginning(A, S, StaticSources, 0)
    BY <1>2, <1>6, <1>13 DEF IsBeginning
  <1> QED
    BY <1>2, <1>12, <1>14 DEF WorkOK, S, A, P

\* The pass goes on to the execution of what is missing.
LEMMA ScansDoneCert ==
  ASSUME TypeInv, ForwardInv, CertInv, Resumable \/ OneBlockPasses, ScansDone
  PROVE  CertInv'
  <1>1. UNCHANGED <<chain, db, args, prev, run>> /\ pc = "scan" /\ pc' = "execute"
        /\ run.todo = {}
    BY DEF ScansDone, chainVars
  <1>2. /\ RangeOK /\ ScanOK /\ StoredOK(chain, prev) /\ (OneBlockPasses => OneBlockOK)
        /\ (IsSome(prev) => On(chain, prev.ckpt))
        /\ (IsSome(prev) /\ prev.ckpt.complete => run.from = prev.ckpt.to + 1)
    BY <1>1 DEF CertInv, Scanned, ForwardInv
  <1>3. run.to \in Nat /\ run.from \in Int /\ (IsSome(prev) => prev.ckpt.to \in Nat)
    BY <1>1 DEF TypeInv, ProcessOK, Runs, StoredSnapshots, Checkpoints, OptBlock, NoBlock, IsSome
  <1>4. ASSUME Active PROVE WorkOK
    <2>1. CASE ~IsSome(prev)
      BY <1>1, <1>2, <1>3, <2>1, FirstPassWork
    <2>2. CASE IsSome(prev) /\ prev.ckpt.complete
      <3>1. Complete(chain, prev)
        BY <1>2, <2>2 DEF StoredOK, SnapshotOK
      <3> QED
        BY <1>1, <1>2, <1>3, <1>4, <2>2, <3>1, NextPassWork DEF Active
    <2>3. CASE IsSome(prev) /\ ~prev.ckpt.complete
      <3>1. Unfinished(chain, prev) /\ ~OneBlockPasses
        BY <1>2, <2>3 DEF StoredOK, SnapshotOK
      <3>2. run.from = prev.ckpt.from /\ prev.ckpt.to <= run.to
        BY <1>2, <2>3 DEF RangeOK
      <3> QED
        BY <1>1, <1>2, <1>3, <2>3, <3>1, <3>2, ResumedPassWork
    <2> QED
      BY <2>1, <2>2, <2>3
  <1>5. RangeOK' /\ (Active' => WorkOK')
    BY <1>1, <1>2, <1>4 DEF RangeOK, Active, WorkOK, IsSome
  <1>6. OneBlockPasses => OneBlockOK'
    BY <1>1, <1>2 DEF OneBlockOK
  <1>7. StoredOK(chain', db') /\ StoredOK(chain', prev') /\ ArgsOK'
    BY <1>1 DEF CertInv, ArgsOK
  <1> QED
    BY <1>1, <1>2, <1>5, <1>6, <1>7 DEF CertInv, Scanned, IsSome

(***************************************************************************)
(* The logs are executed.                                                   *)
(***************************************************************************)
\* A pass with a pending log is over some blocks.
LEMMA PendingIsActive ==
  ASSUME TypeInv, Scanned, RangeOK, NEW l \in run.pending
  PROVE  /\ Active /\ l.blk \in Nat /\ run.from \in Int /\ run.to \in Nat
         /\ run.from <= l.blk /\ l.blk <= run.to
  <1>1. l.blk \in Nat /\ run.from \in Int /\ run.to \in Nat
    BY DEF TypeInv, ProcessOK, Runs, Logs, Scanned, OptBlock, NoBlock
  <1>2. run.from <= l.blk /\ l.blk <= run.to
    BY DEF RangeOK
  <1> QED
    BY <1>1, <1>2 DEF Active

\* What is cached of the target block stays its hash.
LEMMA MetaKept ==
  ASSUME TypeInv, Regular, RangeOK, run.to \in Nat, NEW b, NEW meta \in MetaAfter(b)
  PROVE  meta # NotCached => meta = chain[run.to + 1].fork
  <1>1. run.to + 1 \in DOMAIN chain
    BY ChainBodies DEF RangeOK
  <1>2. CASE b = run.to /\ run.meta = NotCached
    BY <1>1, <1>2 DEF MetaAfter, RpcHashes, Regular
  <1>3. CASE ~(b = run.to /\ run.meta = NotCached)
    BY <1>3 DEF MetaAfter, RangeOK
  <1> QED
    BY <1>2, <1>3

\* The logs a pass has executed once it has executed this one.
AppliedAfter(log) == Append(run.applied, log)

\* One more log is handled: the earliest of those that are missing.
LEMMA OneMoreHandled ==
  ASSUME TypeInv, run.to \in Nat, run.from \in Int, WorkOK,
         NEW log \in NextUnprocessedLogs(run.pending, run.done), log.blk >= run.from,
         NEW applied, applied = AppliedAfter(log)
  PROVE  LET A == Range(run.applied) \cup {log}
             S == AllLogs(chain, run.to)
         IN  /\ Range(applied) = A /\ InChainOrder(applied)
             /\ SourcesOf(A, DynAfter(log))
             /\ IsBeginning(A, S, StaticSources, 0)
             /\ \A l : l \in Unprocessed(PendingAfter(log), DoneAfter(log))
                          <=> l \in S /\ Handles(A, l) /\ l \notin A
             /\ DoneAfter(log) = {LogId(l) : l \in {m \in A : m.blk >= run.from}}
  <1> DEFINE A == Range(run.applied)
             B == A \cup {log}
             S == AllLogs(chain, run.to)
             P == Unprocessed(run.pending, run.done)
             Q == Unprocessed(PendingAfter(log), DoneAfter(log))
  <1>1. /\ InChainOrder(run.applied) /\ SourcesOf(A, run.dyn)
        /\ IsBeginning(A, S, StaticSources, 0)
        /\ \A l : l \in P <=> l \in S /\ Handles(A, l) /\ l \notin A
        /\ run.done = {LogId(l) : l \in {m \in A : m.blk >= run.from}}
    BY DEF WorkOK
  <1>2. log \in P /\ \A l \in P : ~Before(l, log)
    BY DEF NextUnprocessedLogs
  <1>3. \A b \in DOMAIN chain : IsBody(chain[b].body)
    BY ChainBodies
  <1>4. LogSet(S) /\ (\A l \in S : l.blk \in Nat)
    BY <1>3, AllLogsFacts DEF LogSet
  <1>p. \A l : l \in P <=> l \in run.pending /\ LogId(l) \notin run.done
    BY DEF Unprocessed
  <1>q. \A l : l \in Q <=> /\ l \in run.pending \/ l \in NewSourceLogs(log)
                           /\ LogId(l) \notin run.done /\ LogId(l) # LogId(log)
    BY DEF Unprocessed, PendingAfter, DoneAfter
  <1>r. run.applied \in Seq(A)
    <2>1. run.applied \in Seq(ValidLogs(forks))
      BY DEF TypeInv, ProcessOK, Runs
    <2> QED
      BY <2>1, ListOf DEF IsList
  <1> HIDE DEF A, B, S, P, Q
  <1>5. A \subseteq S /\ log \in S /\ log \notin A /\ Handles(A, log) /\ log.blk \in Nat
        /\ \A m \in A : Before(m, log)
    BY <1>1, <1>2, <1>4 DEF IsBeginning, Handles
  <1>6. /\ \A l \in S : ~Before(l, l)
        /\ \A l, m \in S : Before(l, m) => ~Before(m, l)
        /\ \A l, m \in S : l = m \/ Before(l, m) \/ Before(m, l)
        /\ \A l, m, n \in S : Before(l, m) /\ Before(m, n) => Before(l, n)
    BY <1>4, LogOrder
  <1>7. \A l, m \in S : LogId(l) = LogId(m) => l = m
    BY <1>4, IdsAreUnique
  <1>8. Range(applied) = B /\ InChainOrder(applied)
    <2>1. run.applied \in Seq(B) /\ log \in B
      <3>1. A \subseteq B /\ log \in B
        BY DEF B
      <3> QED
        BY <1>r, <3>1
    <2>2. /\ Range(applied) = A \cup {log} /\ Len(applied) = Len(run.applied) + 1
          /\ Len(run.applied) \in Nat /\ applied \in Seq(B)
      BY <2>1, AppendFacts DEF A, AppliedAfter
    <2>3. /\ DOMAIN applied = 1 .. Len(run.applied) + 1
          /\ applied[Len(run.applied) + 1] = log
          /\ DOMAIN run.applied = 1 .. Len(run.applied)
          /\ \A i \in 1 .. Len(run.applied) : applied[i] = run.applied[i]
                                              /\ run.applied[i] \in A
      BY <1>r, <2>1, <2>2 DEF AppliedAfter
    <2>4. ASSUME NEW i \in DOMAIN applied, NEW j \in DOMAIN applied, i < j
          PROVE  Before(applied[i], applied[j])
      <3>1. i \in 1 .. Len(run.applied)
        BY <2>2, <2>3, <2>4
      <3>2. CASE j = Len(run.applied) + 1
        BY <1>5, <2>3, <3>1, <3>2
      <3>3. CASE j # Len(run.applied) + 1
        <4>1. j \in 1 .. Len(run.applied)
          BY <2>2, <2>3, <3>3
        <4> QED
          BY <1>1, <2>3, <2>4, <3>1, <4>1 DEF InChainOrder
      <3> QED
        BY <3>2, <3>3
    <2> QED
      BY <2>2, <2>4 DEF InChainOrder, B
  <1>9. SourcesOf(B, DynAfter(log))
    <2>1. ASSUME NEW d \in DynAfter(log)
          PROVE  \E m \in B : d.addr \in m.ev.creates /\ d.at = m.blk
      <3>1. CASE d \in run.dyn
        BY <1>1, <3>1 DEF SourcesOf, B
      <3>2. CASE d \in NewSources(log)
        BY <3>2 DEF NewSources, B
      <3> QED
        BY <2>1, <3>1, <3>2 DEF DynAfter
    <2>2. ASSUME NEW m \in B, NEW a \in m.ev.creates
          PROVE  \E d \in DynAfter(log) : d.addr = a /\ d.at <= m.blk
      <3>1. CASE m \in A
        BY <1>1, <2>2, <3>1 DEF SourcesOf, DynAfter
      <3>2. CASE m = log /\ \E s \in run.dyn : s.addr = a
        <4>1. PICK s \in run.dyn : s.addr = a
          BY <3>2
        <4>2. PICK k \in A : s.at = k.blk
          BY <1>1 DEF SourcesOf
        <4>3. Before(k, log) /\ k.blk \in Nat
          BY <1>4, <1>5, <4>2
        <4> QED
          BY <1>5, <3>2, <4>1, <4>2, <4>3 DEF Before, DynAfter
      <3>3. CASE m = log /\ \A s \in run.dyn : s.addr # a
        <4>1. [addr |-> a, at |-> log.blk] \in NewSources(log)
          BY <2>2, <3>3 DEF NewSources
        <4> QED
          BY <1>5, <3>3, <4>1 DEF DynAfter
      <3> QED
        BY <2>2, <3>1, <3>2, <3>3 DEF B
    <2> QED
      BY <2>1, <2>2 DEF SourcesOf
  <1>10. IsBeginning(B, S, StaticSources, 0)
    <2>1. B \subseteq S
      BY <1>5 DEF B
    <2>2. \A l \in B : Follows(B, l, StaticSources, 0)
      BY <1>1, <1>5 DEF B, IsBeginning, Handles, Follows
    <2>3. ASSUME NEW l \in S, Follows(B, l, StaticSources, 0), l \notin B
          PROVE  Before(log, l)
      <3>1. CASE Handles(A, l)
        <4>1. l \in P /\ l # log
          BY <1>1, <2>3, <3>1 DEF B
        <4> QED
          BY <1>2, <1>5, <1>6, <4>1
      <3>2. CASE ~Handles(A, l)
        BY <2>3, <3>2 DEF B, Handles, Follows
      <3> QED
        BY <3>1, <3>2
    <2>4. ASSUME NEW l \in S, Follows(B, l, StaticSources, 0), l \notin B, NEW m \in B
          PROVE  Before(m, l)
      BY <1>5, <1>6, <2>3, <2>4 DEF B
    <2> QED
      BY <2>1, <2>2, <2>4 DEF IsBeginning
  <1>11. ASSUME NEW l \in Q PROVE l \in S /\ Handles(B, l) /\ l \notin B
    <2>1. CASE l \in run.pending
      <3>1. l \in P /\ l # log
        BY <1>p, <1>q, <1>11, <2>1
      <3> QED
        BY <1>1, <3>1 DEF B, Handles, Follows
    <2>2. CASE l \in NewSourceLogs(log)
      <3>1. PICK s \in NewSources(log) : l \in ScanSourceRange(chain, s, log.blk, run.to)
        BY <2>2 DEF NewSourceLogs
      <3>2. Before(log, l) /\ s.at = log.blk /\ s.addr \in log.ev.creates
        BY <2>2 DEF NewSourceLogs, NewSources
      <3>3. l \in S /\ l.ev.addr = s.addr
        <4>1. s.at \in Nat /\ log.blk \in Int
          BY <1>5, <3>2
        <4>2. run.to \in Int
          OBVIOUS
        <4> QED
          BY <1>3, <3>1, <4>1, <4>2, ScanSelects DEF S
      <3>4. Handles(B, l)
        BY <3>2, <3>3 DEF Handles, Follows, B
      <3>5. l \notin B
        BY <1>5, <1>6, <3>2, <3>3 DEF B
      <3> QED
        BY <3>3, <3>4, <3>5
    <2> QED
      BY <1>q, <1>11, <2>1, <2>2
  <1>12. ASSUME NEW l \in S, Handles(B, l), l \notin B PROVE l \in Q
    <2>1. l # log /\ l \notin A /\ LogId(l) # LogId(log)
      BY <1>5, <1>7, <1>12 DEF B
    <2>2. LogId(l) \notin run.done
      BY <1>1, <1>5, <1>7, <2>1
    <2>3. CASE Handles(A, l)
      BY <1>1, <1>p, <1>q, <2>1, <2>2, <2>3
    <2>4. CASE ~Handles(A, l)
      <3>1. Before(log, l) /\ l.ev.addr \in log.ev.creates
        BY <1>12, <2>4 DEF Handles, Follows, B
      <3>2. ASSUME NEW s \in run.dyn, s.addr = l.ev.addr PROVE FALSE
        <4>1. PICK m \in A : s.addr \in m.ev.creates
          BY <1>1 DEF SourcesOf
        <4>2. Before(m, l)
          BY <1>5, <1>6, <3>1
        <4> QED
          BY <2>4, <3>2, <4>1, <4>2 DEF Handles, Follows
      <3> DEFINE s == [addr |-> l.ev.addr, at |-> log.blk]
      <3>3. s \in NewSources(log) /\ s.at = log.blk /\ s.addr = l.ev.addr
        BY <3>1, <3>2 DEF NewSources
      <3> HIDE DEF s
      <3>4. l.blk >= log.blk
        BY <1>4, <1>5, <3>1 DEF Before
      <3>5. l \in ScanSourceRange(chain, s, log.blk, run.to)
        BY <1>3, <1>5, <3>3, <3>4, ScanSelects DEF S
      <3>6. l \in NewSourceLogs(log)
        BY <3>1, <3>3, <3>5 DEF NewSourceLogs
      <3> QED
        BY <1>q, <2>1, <2>2, <3>6
    <2> QED
      BY <2>3, <2>4
  <1>13. DoneAfter(log) = {LogId(l) : l \in {m \in B : m.blk >= run.from}}
    <2>1. {m \in B : m.blk >= run.from} = {m \in A : m.blk >= run.from} \cup {log}
      BY DEF B
    <2> QED
      BY <1>1, <2>1 DEF DoneAfter
  <1> QED
    BY <1>8, <1>9, <1>10, <1>11, <1>12, <1>13 DEF A, B, S, Q

\* A log whose handler runs.
LEMMA ExecuteCert ==
  ASSUME TypeInv, CertInv, Regular, ExecuteLog PROVE CertInv'
  <1>1. UNCHANGED <<chain, db, args, prev, pc>> /\ pc = "execute"
    BY DEF ExecuteLog, chainVars
  <1>2. PICK log \in NextUnprocessedLogs(run.pending, run.done) :
           /\ log \in run.pending /\ log \in ValidLogs(forks)
           /\ NewSources(log) \in SUBSET Sources
           /\ EntryAfter(log).ckpt = [from |-> run.from, to |-> log.blk, hash |-> log.fork,
                                      complete |-> FALSE]
           /\ Range(run'.history) \subseteq Range(run.history) \cup {EntryAfter(log)}
           /\ run'.pending = PendingAfter(log) /\ run'.done = DoneAfter(log)
           /\ run'.applied = Append(run.applied, log) /\ run'.dyn = DynAfter(log)
           /\ run'.executed = run.executed + 1 /\ run'.last = log.blk
           /\ run'.from = run.from /\ run'.to = run.to
           /\ run'.meta \in MetaAfter(log.blk)
    BY ExecuteFacts
  <1>3. /\ RangeOK /\ Scanned /\ (Active => WorkOK) /\ (OneBlockPasses => OneBlockOK)
    BY <1>1 DEF CertInv, Scanned
  <1>4. /\ Active /\ log.blk \in Nat /\ run.from \in Int /\ run.to \in Nat
        /\ run.from <= log.blk /\ log.blk <= run.to
    BY <1>2, <1>3, PendingIsActive
  <1>5. WorkOK'
    <2> DEFINE applied == AppliedAfter(log)
               A == Range(run.applied) \cup {log}
    <2>1. /\ Range(applied) = A /\ InChainOrder(applied)
          /\ SourcesOf(A, DynAfter(log))
          /\ IsBeginning(A, AllLogs(chain, run.to), StaticSources, 0)
          /\ \A l : l \in Unprocessed(PendingAfter(log), DoneAfter(log))
                       <=> l \in AllLogs(chain, run.to) /\ Handles(A, l) /\ l \notin A
          /\ DoneAfter(log) = {LogId(l) : l \in {m \in A : m.blk >= run.from}}
      <3>1. WorkOK /\ log.blk >= run.from
        BY <1>3, <1>4
      <3> HIDE DEF A
      <3> QED
        BY <1>4, <3>1, OneMoreHandled DEF A
    <2> HIDE DEF A, applied
    <2>2. run'.applied = applied /\ chain' = chain
      BY <1>1, <1>2 DEF applied, AppliedAfter
    <2> QED
      BY <1>2, <2>1, <2>2 DEF WorkOK
  <1>6. \A l \in run'.pending : run.from <= l.blk /\ l.blk <= run.to
    <2> SUFFICES ASSUME NEW l \in run'.pending PROVE run.from <= l.blk /\ l.blk <= run.to
      OBVIOUS
    <2>1. CASE l \in run.pending
      BY <1>3, <2>1 DEF RangeOK
    <2>2. CASE l \notin run.pending
      <3>1. PICK s \in NewSources(log) : l \in ScanSourceRange(chain, s, log.blk, run.to)
        BY <1>2, <2>2 DEF PendingAfter, NewSourceLogs
      <3>2. s.at \in Nat /\ ChainOK
        BY <1>2 DEF Sources, TypeInv
      <3>3. l.blk \in Int /\ l.blk >= log.blk /\ l.blk <= run.to
        BY <1>4, <3>1, <3>2, ScanFacts DEF Logs, OptBlock
      <3> QED
        BY <1>4, <3>3
    <2> QED
      BY <2>1, <2>2
  <1>7. RangeOK'
    <2>1. run'.meta # NotCached => run'.meta = chain[run.to + 1].fork
      BY <1>2, <1>3, <1>4, MetaKept
    <2> QED
      BY <1>1, <1>2, <1>3, <1>6, <2>1 DEF RangeOK, IsSome
  <1>8. OneBlockPasses => OneBlockOK'
    <2> SUFFICES ASSUME OneBlockPasses PROVE OneBlockOK'
      OBVIOUS
    <2>1. log.blk = run.to
      BY <1>3, <1>4 DEF RangeOK
    <2>2. EntryAfter(log).ckpt.to = run.to
      BY <1>2, <2>1
    <2> QED
      BY <1>1, <1>2, <1>3, <2>1, <2>2 DEF OneBlockOK
  <1>9. StoredOK(chain', db') /\ StoredOK(chain', prev') /\ ArgsOK'
    BY <1>1 DEF CertInv, ArgsOK
  <1> QED
    BY <1>1, <1>3, <1>5, <1>7, <1>8, <1>9 DEF CertInv, Scanned, IsSome

\* A log whose handler is rejected.
LEMMA RejectCert ==
  ASSUME TypeInv, CertInv, Regular, RejectLog PROVE CertInv'
  <1>1. UNCHANGED <<chain, db, args, prev>> /\ pc = "execute" /\ pc' = "finish"
    BY DEF RejectLog, chainVars
  <1>2. PICK log \in NextUnprocessedLogs(run.pending, run.done) :
           /\ log \in run.pending
           /\ run'.history = run.history
           /\ run'.pending = run.pending /\ run'.done = run.done
           /\ run'.applied = run.applied /\ run'.dyn = run.dyn
           /\ run'.from = run.from /\ run'.to = run.to /\ run'.last = run.last
           /\ run'.meta \in MetaAfter(log.blk)
    BY RejectFacts
  <1>3. RangeOK /\ Scanned /\ (Active => WorkOK) /\ run.to \in Nat
    BY <1>1 DEF CertInv, Scanned, TypeInv, ProcessOK
  <1>4. ~OneBlockPasses
    <2>1. PICK l \in run.pending : ~l.ev.ok
      BY DEF RejectLog, NextUnprocessedLogs, Unprocessed
    <2>2. l.ev \in Events
      BY DEF TypeInv, ProcessOK, Runs, Logs
    <2> QED
      BY <2>1, <2>2 DEF OneBlockPasses, Events
  <1>5. RangeOK'
    <2>1. run'.meta # NotCached => run'.meta = chain[run.to + 1].fork
      BY <1>2, <1>3, MetaKept
    <2> QED
      BY <1>1, <1>2, <1>3, <1>4, <2>1 DEF RangeOK, IsSome
  <1>6. Active' => WorkOK'
    BY <1>1, <1>2, <1>3 DEF Active, WorkOK, IsSome
  <1>7. StoredOK(chain', db') /\ StoredOK(chain', prev') /\ ArgsOK'
    BY <1>1 DEF CertInv, ArgsOK
  <1> QED
    BY <1>1, <1>3, <1>4, <1>5, <1>6, <1>7 DEF CertInv, Scanned, IsSome

\* The execution ends: of one block, with nothing left.
LEMMA StopCert ==
  ASSUME TypeInv, CertInv, StopExecuting PROVE CertInv'
  <1>1. UNCHANGED <<chain, db, args, prev, run>> /\ pc = "execute" /\ pc' = "finish"
    BY DEF StopExecuting, chainVars
  <1>2. RangeOK /\ Scanned /\ (Active => WorkOK) /\ (OneBlockPasses => OneBlockOK)
    BY <1>1 DEF CertInv, Scanned
  <1>3. ASSUME OneBlockPasses, Unprocessed(run.pending, run.done) # {} PROVE FALSE
    <2> DEFINE P == Unprocessed(run.pending, run.done)
               S == AllLogs(chain, run.to)
    <2>1. P \subseteq run.pending
      BY DEF Unprocessed
    <2> HIDE DEF P, S
    <2>2. PICK x \in run.pending : TRUE
      BY <1>3, <2>1 DEF P
    <2>3. WorkOK /\ run.to \in Nat
      BY <1>2, <2>2, PendingIsActive
    <2>4. P \in SUBSET S
      BY <2>3 DEF WorkOK, P, S
    <2>5. LogSet(S)
      BY <2>3, ChainBodies, AllLogsFacts DEF S
    <2>6. PICK log \in P : \A m \in P : ~Before(m, log)
      BY <1>3, <2>4, <2>5, EarliestLog DEF P
    <2>7. log \in NextUnprocessedLogs(run.pending, run.done)
      BY <2>6 DEF NextUnprocessedLogs, P
    <2>8. LimitReached(Limit, run.executed, log, run.last)
      BY <2>7 DEF StopExecuting
    <2>9. run.executed >= Limit /\ log.blk # run.last
      BY <1>3, <2>8 DEF LimitReached, OneBlockPasses
    <2>10. run.executed > 0
      BY <1>3, <2>9, IndexerConstants DEF OneBlockPasses, TypeInv, ProcessOK, Runs
    <2>11. run.last = run.to
      BY <1>2, <1>3, <2>10 DEF OneBlockOK
    <2>12. /\ log.blk \in Nat /\ run.from \in Int /\ run.from <= log.blk /\ log.blk <= run.to
      BY <1>2, <2>1, <2>6, PendingIsActive
    <2>13. run.to <= run.from
      BY <1>2, <1>3 DEF RangeOK
    <2> QED
      BY <2>3, <2>9, <2>11, <2>12, <2>13
  <1>4. RangeOK' /\ (Active' => WorkOK')
    BY <1>1, <1>2 DEF RangeOK, Active, WorkOK, IsSome
  <1>5. OneBlockPasses => OneBlockOK'
    BY <1>1, <1>2, <1>3 DEF OneBlockOK
  <1>6. StoredOK(chain', db') /\ StoredOK(chain', prev') /\ ArgsOK'
    BY <1>1 DEF CertInv, ArgsOK
  <1> QED
    BY <1>1, <1>2, <1>4, <1>5, <1>6 DEF CertInv, Scanned, IsSome

(***************************************************************************)
(* The pass is written.                                                     *)
(***************************************************************************)
\* What a pass that did something writes: the index of the chain up to its target,
\* or the beginning it got to.
LEMMA WrittenIs ==
  ASSUME TypeInv, Scanned, RangeOK, WorkOK, NEW e,
         e.applied = run.applied, e.dyn = run.dyn, e.ckpt.to = run.to, e.ckpt.from = run.from
  PROVE  /\ Unprocessed(run.pending, run.done) = {} => Complete(chain, e)
         /\ Unprocessed(run.pending, run.done) # {} /\ e.done = run.done => Unfinished(chain, e)
  <1> DEFINE A == Range(run.applied)
             S == AllLogs(chain, run.to)
             P == Unprocessed(run.pending, run.done)
  <1>1. /\ InChainOrder(run.applied) /\ SourcesOf(A, run.dyn)
        /\ IsBeginning(A, S, StaticSources, 0)
        /\ \A l : l \in P <=> l \in S /\ Handles(A, l) /\ l \notin A
        /\ run.done = {LogId(l) : l \in {m \in A : m.blk >= run.from}}
    BY DEF WorkOK
  <1>2. \A l \in P : run.from <= l.blk /\ l.blk <= run.to /\ run.from <= run.to /\ l.blk >= run.from
    <2> SUFFICES ASSUME NEW l \in P
                 PROVE  run.from <= l.blk /\ l.blk <= run.to /\ run.from <= run.to /\ l.blk >= run.from
      OBVIOUS
    <2>1. l \in run.pending
      BY DEF Unprocessed
    <2> QED
      BY <2>1, PendingIsActive
  <1>3. /\ Complete(chain, e) <=> /\ InChainOrder(run.applied) /\ SourcesOf(A, run.dyn)
                                  /\ IsIndex(A, S, StaticSources, 0)
        /\ Unfinished(chain, e) <=>
              /\ InChainOrder(run.applied) /\ SourcesOf(A, run.dyn)
              /\ IsBeginning(A, S, StaticSources, 0)
              /\ run.from <= run.to
              /\ \A l \in S : Handles(A, l) /\ l \notin A => l.blk >= run.from
              /\ e.done = {LogId(l) : l \in {m \in A : m.blk >= run.from}}
    BY DEF Complete, Unfinished
  <1> HIDE DEF A, S, P
  <1>4. ASSUME P = {} PROVE IsIndex(A, S, StaticSources, 0)
    BY <1>1, <1>4 DEF IsIndex, IsBeginning, Handles
  <1>5. ASSUME P # {}, e.done = run.done PROVE Unfinished(chain, e)
    BY <1>1, <1>2, <1>3, <1>5
  <1> QED
    BY <1>1, <1>3, <1>4, <1>5 DEF P

\* A pass over no block, behind a snapshot, writes nothing.
LEMMA IdleWritesNothing ==
  ASSUME TypeInv, ForwardInv, Scanned, RangeOK, IsSome(prev), run.from > run.to,
         prev.ckpt.complete \/ Unfinished(chain, prev)
  PROVE  ShouldKeepPrevious(prev.ckpt, run.from, run.to,
                            Unprocessed(run.pending, run.done) = {},
                            run.executed, run.errors, args.to)
  <1>1. /\ run.pending = {} /\ run.executed = 0 /\ run.errors = 0 /\ args.to = NoBlock
        /\ prev.ckpt.complete => run.from = prev.ckpt.to + 1
    BY DEF ForwardInv
  <1>2. run.from \in Int /\ run.to \in Nat /\ prev.ckpt.to \in Int /\ run.from # NoBlock
        /\ prev.ckpt.complete \in BOOLEAN
    BY DEF TypeInv, ProcessOK, Runs, StoredSnapshots, Checkpoints, OptBlock, NoBlock, Scanned,
           RangeOK
  <1>3. Unprocessed(run.pending, run.done) = {}
    BY <1>1 DEF Unprocessed
  <1>4. prev.ckpt.complete
    <2> SUFFICES ASSUME ~prev.ckpt.complete PROVE FALSE
      BY <1>2
    <2>1. run.from = prev.ckpt.from /\ prev.ckpt.to <= run.to /\ prev.ckpt.from <= prev.ckpt.to
      BY DEF RangeOK, Unfinished
    <2> QED
      BY <1>2, <2>1
  <1>5. run.to <= prev.ckpt.to
    BY <1>1, <1>2, <1>4
  <1> QED
    BY <1>1, <1>2, <1>3, <1>4, <1>5 DEF ShouldKeepPrevious

\* The types of a pass that is about to write.
LEMMA FinishTypes ==
  ASSUME TypeInv, pc = "finish"
  PROVE  /\ run.to \in Nat /\ run.from \in Int /\ prev.ckpt.to \in Int
         /\ prev.history \in Seq(Entries(forks)) /\ IsHistory(prev.history)
         /\ HistoryLimit \in Nat
  <1>1. prev \in StoredSnapshots(forks) /\ IsHistory(prev.history)
    BY DEF TypeInv, ProcessOK
  <1>2. run \in Runs(forks) /\ run.to \in Nat
    BY DEF TypeInv, ProcessOK
  <1>3. run.from \in Int
    <2>1. run.from \in OptBlock
      BY <1>2 DEF Runs
    <2> QED
      BY <2>1 DEF OptBlock, NoBlock
  <1>4. prev.ckpt \in Checkpoints(forks) /\ prev.history \in Seq(Entries(forks))
    BY <1>1 DEF StoredSnapshots
  <1>5. prev.ckpt.to \in Int
    BY <1>4 DEF Checkpoints, OptBlock, NoBlock
  <1> QED
    BY <1>1, <1>2, <1>3, <1>4, <1>5, IndexerConstants

\* What a pass writes.
LEMMA WrittenCert ==
  ASSUME TypeInv, ForwardInv, CertInv, Regular, pc = "finish", Active,
         NEW ckpt \in Checkpoints(forks), ckpt.from = run.from, ckpt.to = run.to,
         ckpt.hash \in TargetHashes,
         ckpt.complete = (Unprocessed(run.pending, run.done) = {})
  PROVE  StoredOK(chain, SnapshotOf(ckpt))
  <1> DEFINE new == SnapshotOf(ckpt)
             news == NewsOf(ckpt)
             h == new.history
             old == IF IsSome(prev) THEN {HistoryEntry(prev)} ELSE {}
             written == HistoryEntry(new)
  <1>1. /\ new.ckpt = ckpt /\ new.applied = run.applied /\ new.dyn = run.dyn
        /\ new.done = (IF ckpt.complete THEN {} ELSE run.done)
        /\ new.origin = prev.origin
        /\ h = MergeHistory(prev.history, news, HistoryLimit)
        /\ IsHistory(h)
        /\ Range(h) \subseteq Range(prev.history) \cup Range(news)
        /\ Range(news) = {written} \cup Range(run.history) \cup old
        /\ IsList(news) /\ Numbered(news) /\ Len(news) \in Nat \ {0}
        /\ news[Len(news)] = written
    BY SnapshotFacts
  <1>2. /\ Scanned /\ RangeOK /\ WorkOK /\ StoredOK(chain, prev)
        /\ (IsSome(prev) => On(chain, prev.ckpt))
        /\ (OneBlockPasses => OneBlockOK)
        /\ (IsSome(prev) /\ prev.ckpt.complete => run.from = prev.ckpt.to + 1)
    BY DEF CertInv, Scanned, ForwardInv
  <1>3. /\ run.to \in Nat /\ run.from \in Int /\ prev.ckpt.to \in Int
        /\ prev.history \in Seq(Entries(forks)) /\ IsHistory(prev.history)
        /\ HistoryLimit \in Nat
    BY FinishTypes
  <1>4. written.ckpt = ckpt /\ written.applied = run.applied /\ written.dyn = run.dyn
    BY <1>1 DEF HistoryEntry
  <1>w. new.ckpt = ckpt /\ IsHistory(new.history)
    BY <1>1
  <1> HIDE DEF new, news, h, written
  <1>5. On(chain, ckpt)
    <2>1. run.to + 1 \in DOMAIN chain /\ chain[run.to + 1].fork \in Nat
      BY <1>2, <1>3, ChainBodies DEF RangeOK, TypeInv, ChainOK
    <2>2. ckpt.hash = chain[run.to + 1].fork
      BY <1>2, <2>1 DEF TargetHashes, RpcHashes, RangeOK, Regular
    <2> QED
      BY <2>1, <2>2 DEF On, NoHash
  <1>6. /\ ckpt.complete => Complete(chain, new) /\ Complete(chain, written)
        /\ ~ckpt.complete => Unfinished(chain, new)
    <2>1. new.ckpt.to = run.to /\ new.ckpt.from = run.from
          /\ written.ckpt.to = run.to /\ written.ckpt.from = run.from
      BY <1>1, <1>4
    <2>2. ckpt.complete => Complete(chain, new)
      BY <1>1, <1>2, <2>1, WrittenIs
    <2>3. ckpt.complete => Complete(chain, written)
      BY <1>2, <1>4, <2>1, WrittenIs
    <2>4. ~ckpt.complete => Unfinished(chain, new)
      BY <1>1, <1>2, <2>1, WrittenIs
    <2> QED
      BY <2>2, <2>3, <2>4
  <1>7. ASSUME OneBlockPasses PROVE ckpt.complete
    BY <1>2, <1>7 DEF OneBlockOK
  <1>8. ASSUME OneBlockPasses, IsSome(prev)
        PROVE  /\ run.from <= run.to /\ prev.ckpt.complete /\ prev.ckpt.to <= run.to
               /\ EntryOK(chain, HistoryEntry(prev)) /\ HistoryEntry(prev).ckpt = prev.ckpt
               /\ \A e \in Range(prev.history) :
                     EntryOK(chain, e) /\ e.ckpt.to <= prev.ckpt.to
    <2>1. SnapshotOK(chain, prev) /\ prev.ckpt.complete
          /\ \A e \in Range(prev.history) : EntryOK(chain, e) /\ e.ckpt.to <= prev.ckpt.to
      BY <1>2, <1>8 DEF StoredOK, SnapshotOK
    <2>2. run.from <= run.to /\ prev.ckpt.to <= run.to
      BY <1>2, <1>3, <1>8, <2>1 DEF Active
    <2>3. Complete(chain, prev) => Complete(chain, HistoryEntry(prev))
      BY DEF Complete, HistoryEntry
    <2>4. EntryOK(chain, HistoryEntry(prev)) /\ HistoryEntry(prev).ckpt = prev.ckpt
      BY <1>2, <1>8, <2>1, <2>3 DEF EntryOK, SnapshotOK, HistoryEntry, IsSome
    <2> QED
      BY <2>1, <2>2, <2>4
  <1>9. ASSUME OneBlockPasses PROVE EntryOK(chain, written) /\ written.ckpt.to <= run.to
    BY <1>2, <1>3, <1>4, <1>5, <1>6, <1>7, <1>9 DEF EntryOK, RangeOK, On, NoBlock
  <1>10. ASSUME OneBlockPasses,
                NEW e \in Range(prev.history) \cup old
         PROVE  EntryOK(chain, e) /\ e.ckpt.to <= run.to
    <2>1. CASE IsSome(prev)
      <3>1. e.ckpt.to \in Int
        <4>1. Range(prev.history) \subseteq Entries(forks)
          BY <1>3, ListOf
        <4> QED
          BY <1>3, <1>8, <1>10, <2>1, <4>1 DEF Entries, Checkpoints, OptBlock, NoBlock
      <3> QED
        BY <1>3, <1>8, <1>10, <2>1, <3>1
    <2>2. CASE ~IsSome(prev)
      <3>1. prev.history = <<>>
        BY <1>2, <2>2 DEF StoredOK, Nothing
      <3> QED
        BY <1>10, <2>2, <3>1, EmptyHistory
    <2> QED
      BY <2>1, <2>2
  <1>11. ASSUME OneBlockPasses, NEW e \in Range(h)
         PROVE  EntryOK(chain, e) /\ e.ckpt.to <= run.to
    <2>1. e \in Range(prev.history) \cup old \cup {written} \cup Range(run.history)
      BY <1>1, <1>11
    <2>2. CASE e \in Range(run.history)
      <3>1. \A x \in Range(run.history) : x.ckpt.to = run.to
        BY <1>2, <1>11 DEF OneBlockOK
      <3>2. \A x \in Range(prev.history) \cup Range(news) : x.ckpt.to <= run.to
        BY <1>1, <1>3, <1>9, <1>10, <1>11, <3>1
      <3>3. news[Len(news)].ckpt.to = run.to
        BY <1>1, <1>4
      <3>4. h[Len(h)] = written /\ Len(h) > 0
        BY <1>1, <1>3, <3>2, <3>3, MergeFacts
      <3>5. Len(h) \in Nat /\ DOMAIN h = 1 .. Len(h) /\ Numbered(h) /\ Ordered(h)
        BY <1>w, ListFacts DEF IsHistory, h
      <3>6. PICK i \in DOMAIN h : h[i] = e
        BY <1>11 DEF Range
      <3>7. i = Len(h)
        <4>1. CASE i < Len(h)
          <5>1. h[i].ckpt.to < h[Len(h)].ckpt.to
            BY <3>4, <3>5, <4>1 DEF Ordered
          <5> QED
            BY <1>3, <1>4, <2>2, <3>1, <3>4, <3>6, <5>1
        <4> QED
          BY <3>5, <4>1
      <3> QED
        BY <1>9, <1>11, <3>4, <3>6, <3>7
    <2> QED
      BY <1>9, <1>10, <1>11, <2>1, <2>2
  <1>12. SnapshotOK(chain, new)
    <2>1. /\ new.ckpt.from # NoBlock /\ new.ckpt.hash # NoHash /\ new.ckpt.to < Len(chain)
          /\ \A src \in StaticSources : new.origin <= src.at
      BY <1>1, <1>2, <1>5 DEF RangeOK, On
    <2>2. IF new.ckpt.complete THEN Complete(chain, new) ELSE Unfinished(chain, new)
      BY <1>w, <1>6
    <2>3. OneBlockPasses =>
             /\ new.ckpt.complete
             /\ \A e \in Range(new.history) : EntryOK(chain, e) /\ e.ckpt.to <= new.ckpt.to
      BY <1>w, <1>7, <1>11 DEF h
    <2> QED
      BY <1>w, <1>5, <2>1, <2>2, <2>3 DEF SnapshotOK
  <1>13. IsSome(new)
    BY <1>w, <1>3 DEF IsSome, NoBlock
  <1> QED
    BY <1>12, <1>13 DEF StoredOK, new

\* The end of a pass.
LEMMA FinishCert ==
  ASSUME TypeInv, ForwardInv, CertInv, Regular, FinishPass PROVE CertInv'
  <1>1. UNCHANGED chain /\ pc = "finish" /\ EndPass /\ prev' = NoSnapshot
    BY DEF FinishPass, chainVars, EndPass
  <1>2. PICK ckpt \in Checkpoints(forks) :
           /\ ckpt.from = run.from /\ ckpt.to = run.to /\ ckpt.hash \in TargetHashes
           /\ ckpt.complete = (Unprocessed(run.pending, run.done) = {})
           /\ IF /\ IsSome(prev)
                 /\ ShouldKeepPrevious(prev.ckpt, run.from, run.to, ckpt.complete,
                                       run.executed, run.errors, args.to)
              THEN db' = db
              ELSE db' = SnapshotOf(ckpt)
    BY FinishFacts
  <1>3. CASE db' = db
    BY <1>1, <1>3, EndCert DEF CertInv
  <1>4. CASE db' = SnapshotOf(ckpt) /\ Active
    <2>1. StoredOK(chain, db')
      BY <1>1, <1>2, <1>4, WrittenCert
    <2> QED
      BY <1>1, <2>1, EndCert
  <1>5. CASE ~Active
    <2>1. Scanned /\ RangeOK /\ IsSome(prev) /\ StoredOK(chain, prev) /\ On(chain, prev.ckpt)
      BY <1>1, <1>5 DEF CertInv, Scanned, Active
    <2>2. run.from > run.to
      <3>1. run.from \in Int /\ run.to \in Int
        BY DEF TypeInv, ProcessOK, Runs, OptBlock, NoBlock
      <3> QED
        BY <1>5, <3>1 DEF Active
    <2>3. prev.ckpt.complete \/ Unfinished(chain, prev)
      BY <2>1 DEF StoredOK, SnapshotOK
    <2>4. ShouldKeepPrevious(prev.ckpt, run.from, run.to, ckpt.complete,
                             run.executed, run.errors, args.to)
      BY <1>2, <2>1, <2>2, <2>3, IdleWritesNothing
    <2>5. db' = db
      BY <1>2, <2>1, <2>4
    <2> QED
      BY <1>3, <2>5
  <1> QED
    BY <1>2, <1>3, <1>4, <1>5

(***************************************************************************)
(* The certificates.                                                        *)
(***************************************************************************)
\* CertInv is inductive.
LEMMA CertStep ==
  ASSUME Regular, Resumable \/ OneBlockPasses, TypeInv, ForwardInv,
         MaxHeadLag = 0 => LevelInv, CertInv, [Next]_vars
  PROVE  CertInv'
  <1>1. CASE UNCHANGED vars
    BY <1>1 DEF vars, CertInv, ArgsOK, StoredOK, SnapshotOK, IsSome, Scanned, RangeOK, ScanOK,
                Active, WorkOK, OneBlockOK
  <1>2. CASE Mine \/ Reorg
    BY <1>2, ChainCert
  <1>3. CASE Launch
    BY <1>3, LaunchCert
  <1>4. CASE Load
    BY <1>4, LoadCert
  <1>5. CASE CheckCheckpoint
    BY <1>5, CheckCert
  <1>6. CASE ProbeHistory
    BY <1>6, ProbeCert
  <1>7. CASE ChooseRange
    BY <1>7, ChooseCert DEF LevelInv, HistorySound, ForwardInv
  <1>8. CASE ScanSource
    BY <1>8, ScanCert
  <1>9. CASE ScansDone
    BY <1>9, ScansDoneCert
  <1>10. CASE ExecuteLog
    BY <1>10, ExecuteCert
  <1>11. CASE RejectLog
    BY <1>11, RejectCert
  <1>12. CASE StopExecuting
    BY <1>12, StopCert
  <1>13. CASE FinishPass
    BY <1>13, FinishCert
  <1>14. CASE FailPass \/ Crash
    BY <1>14, FailCert
  <1> QED
    BY <1>1, <1>2, <1>3, <1>4, <1>5, <1>6, <1>7, <1>8, <1>9, <1>10, <1>11, <1>12, <1>13, <1>14
       DEF Next, Step

\* CertInv holds of every reachable state.
LEMMA CertHolds ==
  ASSUME Regular, Resumable \/ OneBlockPasses
  PROVE  Spec => []CertInv
  <1>1. Init => CertInv
    BY NothingStored DEF Init, CertInv, ArgsOK, Scanned
  <1>2. TypeInv /\ ForwardInv /\ (MaxHeadLag = 0 => LevelInv) /\ CertInv /\ [Next]_vars => CertInv'
    BY CertStep
  <1>3. ToArgs \subseteq {NoBlock}
    BY DEF Regular
  <1>4. Spec => []ForwardInv /\ [](MaxHeadLag = 0 => LevelInv)
    BY <1>3, ForwardHolds, LevelHolds
  <1> QED
    BY <1>1, <1>2, <1>4, TypeInvHolds, PTL DEF Spec

\* A start block at or below those of the sources does not change the index.
LEMMA OriginIsIdle ==
  ASSUME NEW origin \in Int, \A s \in StaticSources : origin <= s.at, NEW A, NEW S
  PROVE  /\ IsIndex(A, S, StaticSources, 0) => IsIndex(A, S, StaticSources, origin)
         /\ IsBeginning(A, S, StaticSources, 0) => IsBeginning(A, S, StaticSources, origin)
  <1>1. \A s \in StaticSources : MaxOf(origin, s.at) = s.at /\ MaxOf(0, s.at) = s.at
    BY IndexerConstants DEF MaxOf
  <1>2. \A l : Follows(A, l, StaticSources, 0) <=> Follows(A, l, StaticSources, origin)
    BY <1>1 DEF Follows, StaticLog
  <1> QED
    BY <1>2 DEF IsIndex, IsBeginning

\* A complete list of logs is the reference.
LEMMA CompleteIsIdeal ==
  ASSUME TypeInv, NEW e, e.applied \in Seq(ValidLogs(forks)), e.ckpt.to \in Int,
         NEW origin \in Int, \A s \in StaticSources : origin <= s.at
  PROVE  /\ Complete(chain, e) => e.applied = Ideal(chain, StaticSources, origin, e.ckpt.to)
         /\ Unfinished(chain, e) =>
               IsPrefix(e.applied, Ideal(chain, StaticSources, origin, e.ckpt.to))
  <1> DEFINE S == AllLogs(chain, e.ckpt.to)
             A == Range(e.applied)
  <1>1. LogSet(S)
    BY ChainBodies, AllLogsFacts
  <1>2. IsList(e.applied)
    BY ListOf
  <1>3. ASSUME Complete(chain, e) PROVE e.applied = Ideal(chain, StaticSources, origin, e.ckpt.to)
    <2>1. InChainOrder(e.applied) /\ IsIndex(A, S, StaticSources, 0)
      BY <1>3 DEF Complete
    <2> HIDE DEF S, A
    <2>2. IsIndex(A, S, StaticSources, origin)
      BY <2>1, OriginIsIdle
    <2>3. IsBeginning(A, S, StaticSources, origin)
      BY <2>2, IndexIsBeginning
    <2> QED
      BY <1>1, <1>2, <2>1, <2>2, <2>3, HoldsIdeal DEF S, A
  <1>4. ASSUME Unfinished(chain, e)
        PROVE  IsPrefix(e.applied, Ideal(chain, StaticSources, origin, e.ckpt.to))
    <2>1. InChainOrder(e.applied) /\ IsBeginning(A, S, StaticSources, 0)
      BY <1>4 DEF Unfinished
    <2> HIDE DEF S, A
    <2>2. IsBeginning(A, S, StaticSources, origin)
      BY <2>1, OriginIsIdle
    <2> QED
      BY <1>1, <1>2, <2>1, <2>2, HoldsIdeal DEF S, A
  <1> QED
    BY <1>3, <1>4

\* What CertInv says of the stored snapshot, in the terms of the reference.
LEMMA CertMeans ==
  ASSUME TypeInv, CertInv
  PROVE  /\ CheckpointCertifiesStore /\ PartialPassIsPrefix
         /\ OneBlockPasses => HistoryCertifiesStore
  <1>1. /\ db.applied \in Seq(ValidLogs(forks)) /\ db.ckpt.to \in Int /\ db.origin \in Int
        /\ db.history \in Seq(Entries(forks)) /\ db.ckpt.complete \in BOOLEAN
        /\ StoredOK(chain, db)
    BY DEF TypeInv, ProcessOK, StoredSnapshots, Checkpoints, OptBlock, NoBlock, CertInv
  <1>2. IsSome(db) => SnapshotOK(chain, db) /\ \A s \in StaticSources : db.origin <= s.at
    BY <1>1 DEF StoredOK, SnapshotOK
  <1>3. ~IsSome(db) => db.ckpt = NoCheckpoint /\ db.history = <<>>
    BY <1>1 DEF StoredOK, Nothing
  <1>4. CheckpointCertifiesStore
    <2> SUFFICES ASSUME db.ckpt.complete, Canonical(db.ckpt)
                 PROVE  db.applied = Ideal(chain, StaticSources, db.origin, db.ckpt.to)
      BY DEF CheckpointCertifiesStore
    <2>1. IsSome(db) /\ Complete(chain, db)
      BY <1>2, <1>3, CanonicalIsOn DEF NoCheckpoint, SnapshotOK
    <2> QED
      BY <1>1, <1>2, <2>1, CompleteIsIdeal
  <1>5. PartialPassIsPrefix
    <2> SUFFICES ASSUME IsSome(db), ~db.ckpt.complete, Canonical(db.ckpt)
                 PROVE  /\ IsPrefix(db.applied, Ideal(chain, StaticSources, db.origin, db.ckpt.to))
                        /\ db.done = {LogId(l) : l \in {m \in Range(db.applied) :
                                                          m.blk >= db.ckpt.from}}
      BY DEF PartialPassIsPrefix
    <2>1. Unfinished(chain, db)
      BY <1>2, CanonicalIsOn DEF SnapshotOK
    <2>2. IsPrefix(db.applied, Ideal(chain, StaticSources, db.origin, db.ckpt.to))
      BY <1>1, <1>2, <2>1, CompleteIsIdeal
    <2> QED
      BY <2>1, <2>2 DEF Unfinished
  <1>6. ASSUME OneBlockPasses PROVE HistoryCertifiesStore
    <2> SUFFICES ASSUME NEW i \in DOMAIN db.history, Canonical(db.history[i].ckpt)
                 PROVE  db.history[i].applied
                          = Ideal(chain, StaticSources, db.origin, db.history[i].ckpt.to)
      BY DEF HistoryCertifiesStore
    <2> DEFINE e == db.history[i]
    <2>1. e \in Range(db.history) /\ e \in Entries(forks)
      BY <1>1, ListOf DEF Range
    <2> HIDE DEF e
    <2>2. IsSome(db)
      BY <1>3, <2>1, EmptyHistory
    <2>3. EntryOK(chain, e)
      BY <1>2, <1>6, <2>1, <2>2 DEF SnapshotOK
    <2>4. Complete(chain, e)
      BY <2>3, CanonicalIsOn DEF EntryOK, e
    <2>5. e.applied \in Seq(ValidLogs(forks)) /\ e.ckpt.to \in Int
      BY <2>1 DEF Entries, Checkpoints, OptBlock, NoBlock
    <2> QED
      BY <1>1, <1>2, <2>2, <2>4, <2>5, CompleteIsIdeal DEF e
  <1> QED
    BY <1>4, <1>5, <1>6

\* A complete checkpoint whose hash is on the canonical chain certifies the store:
\* it holds exactly the logs of the deployment's sources up to the checkpoint block,
\* each handled once, in chain order, template sources from the log that created
\* them on.  For passes of any length that are cut, fail, crash and resume, and for
\* passes of one block with reorgs between them, rollbacks and lagging RPCs.
THEOREM CheckpointsCertify ==
  ASSUME Regular, Resumable \/ OneBlockPasses
  PROVE  Spec => []CheckpointCertifiesStore
  <1>1. TypeInv /\ CertInv => CheckpointCertifiesStore
    BY CertMeans
  <1> QED
    BY <1>1, TypeInvHolds, CertHolds, PTL

\* An unfinished pass persists a prefix of that work, and cursors for exactly the
\* logs of the prefix that it will scan again.
THEOREM PartialPassesArePrefixes ==
  ASSUME Regular, Resumable \/ OneBlockPasses
  PROVE  Spec => []PartialPassIsPrefix
  <1>1. TypeInv /\ CertInv => PartialPassIsPrefix
    BY CertMeans
  <1> QED
    BY <1>1, TypeInvHolds, CertHolds, PTL

\* Every retained historical snapshot whose hash is canonical is the index of the
\* chain up to its own block, when passes are of one block: whatever the reorgs
\* between them, the rollbacks to one of them, the failures and the crashes.
THEOREM HistoryCertifies ==
  ASSUME Regular, OneBlockPasses
  PROVE  Spec => []HistoryCertifiesStore
  <1>1. TypeInv /\ CertInv => HistoryCertifiesStore
    BY CertMeans
  <1> QED
    BY <1>1, TypeInvHolds, CertHolds, PTL
=============================================================================
