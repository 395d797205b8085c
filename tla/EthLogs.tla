------------------------------- MODULE EthLogs -------------------------------
(***************************************************************************)
(* Blocks, logs and their order, as the RPC serves them and as the indexer  *)
(* and the chain reader compare them.                                       *)
(*                                                                          *)
(* A chain is a sequence of blocks [fork, body], block number b at position *)
(* b + 1.  `fork' stands for the block hash: every block ever mined has a   *)
(* tag of its own.  `body' is the set of events the block emits; an event   *)
(* has an index and an emitting address, and whatever else the component    *)
(* that reads it tells apart.  transaction_index and log_index are one      *)
(* index: log_index already orders the logs of a block.                     *)
(***************************************************************************)
EXTENDS Integers, Sequences

NoBlock == -1      \* Option<u64>::None for a block number
NoHash == -1       \* Option<String>::None for a block hash

MaxOf(a, b) == IF a >= b THEN a ELSE b

\* A log: the event, where it was emitted and under which block hash.
LogAt(c, b, e) == [blk |-> b, fork |-> c[b + 1].fork, ev |-> e]

BlockLogs(c, b) == {LogAt(c, b, e) : e \in c[b + 1].body}

\* The block numbers of the chain that lie in an inclusive range.
BlocksIn(c, lo, hi) == {b \in lo .. hi : b + 1 \in DOMAIN c}

\* eth_getLogs over an inclusive range for one address.
GetLogs(c, addr, lo, hi) ==
    {l \in UNION {BlockLogs(c, b) : b \in BlocksIn(c, lo, hi)} : l.ev.addr = addr}

\* log_order_key, compared lexicographically.
Before(l, m) == l.blk < m.blk \/ (l.blk = m.blk /\ l.ev.idx < m.ev.idx)
=============================================================================
