-------------------------------- MODULE Chain --------------------------------
(***************************************************************************)
(* The chain an RPC endpoint serves (external): it grows, it replaces its   *)
(* newest blocks, and it answers eth_blockNumber, eth_getBlockByNumber and  *)
(* eth_getLogs from whatever is canonical at that moment.                   *)
(***************************************************************************)
EXTENDS EthLogs

CONSTANTS
    Contents,        \* block bodies the chain may hold
    MaxHead,         \* bound: highest block number ever mined
    MaxReorgs,       \* bound: number of reorgs
    MaxReorgDepth,   \* bound: blocks one reorg replaces
    HashFaults       \* may a block request yield no hash?

ASSUME ChainConstants ==
    /\ MaxHead \in Nat
    /\ MaxReorgs \in Nat
    /\ MaxReorgDepth \in Nat
    /\ HashFaults \in BOOLEAN

VARIABLES
    chain,     \* the canonical chain
    forks,     \* number of blocks ever mined: the next block's tag
    reorgs     \* number of reorgs so far

chainVars == <<chain, forks, reorgs>>

HeadBlock == Len(chain) - 1

\* fetch_block_metadata: the canonical tag, no hash above the head, and none
\* when the provider answers with an error body (or, where the caller takes
\* the default for a failed request, when it fails).
RpcHashes(b) ==
    (IF b + 1 \in DOMAIN chain THEN {chain[b + 1].fork} ELSE {NoHash})
    \cup (IF HashFaults THEN {NoHash} ELSE {})

\* A stored hash is canonical when the chain still has that block.
IsCanonical(b, hash) ==
    hash # NoHash /\ b + 1 \in DOMAIN chain /\ chain[b + 1].fork = hash

ChainInit ==
    /\ \E body \in Contents : chain = <<[fork |-> 0, body |-> body]>>
    /\ forks = 1
    /\ reorgs = 0

MineBlock ==
    /\ HeadBlock < MaxHead
    /\ \E body \in Contents :
          chain' = Append(chain, [fork |-> forks, body |-> body])
    /\ forks' = forks + 1
    /\ UNCHANGED reorgs

\* The last d blocks are replaced by d others, each with a fresh hash.
ReplaceBlocks ==
    /\ reorgs < MaxReorgs
    /\ \E d \in 1 .. MaxReorgDepth :
          /\ d <= Len(chain)
          /\ LET kept == Len(chain) - d
             IN \E bodies \in [1 .. d -> Contents] :
                   chain' = [b \in 1 .. Len(chain) |->
                               IF b <= kept THEN chain[b]
                               ELSE [fork |-> forks + (b - kept) - 1,
                                     body |-> bodies[b - kept]]]
          /\ forks' = forks + d
    /\ reorgs' = reorgs + 1
=============================================================================
