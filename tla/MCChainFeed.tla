---------------------------- MODULE MCChainFeed ----------------------------
(***************************************************************************)
(* Instances of ChainFeed: two subscriptions of one contract that start at  *)
(* different blocks (two deployments of the same manifest data source).     *)
(***************************************************************************)
EXTENDS ChainFeed, TLC

CONSTANTS s1, s2, r1, r2, contract, transfer

MCAddr == (s1 :> contract) @@ (s2 :> contract)
MCFrom == (s1 :> 0) @@ (s2 :> 1)
MCRank == (s1 :> 1) @@ (s2 :> 2)
MCRegistrations == {[sub |-> s1, topics |-> {transfer}],
                    [sub |-> s2, topics |-> {transfer}]}

Event(i) == [idx |-> i, addr |-> contract, topic |-> transfer]
MCBodies == {{}, {Event(0)}}
NoneOnly == {NoBlock}
=============================================================================
