----------------------------- MODULE MCFeedSync -----------------------------
(***************************************************************************)
(* Instances of FeedSync: a factory deployed at block 1 and one pool        *)
(* contract it may create, whose subscription key depends on the block of   *)
(* its creation.                                                            *)
(***************************************************************************)
EXTENDS FeedSync

CONSTANTS fs, p1, p2, d, r, factory, pool, topic

MCAddr == (fs :> factory) @@ (p1 :> pool) @@ (p2 :> pool)
MCFrom == (fs :> 1) @@ (p1 :> 1) @@ (p2 :> 2)
MCRank == (fs :> 1) @@ (p1 :> 2) @@ (p2 :> 3)
MCRegistrations == {[sub |-> s, topics |-> {topic}] : s \in {fs, p1, p2}}
MCManifest == <<fs>>

Event(i, a, c, valid) ==
    [idx |-> i, addr |-> a, topic |-> topic, creates |-> c, ok |-> valid]

\* The pool logs on both sides of the log that creates it.
Created == {Event(0, pool, {}, TRUE), Event(1, factory, {pool}, TRUE),
            Event(2, pool, {}, TRUE)}
Mixed   == {Event(0, factory, {}, TRUE), Event(1, pool, {}, TRUE)}
Invalid == {Event(0, factory, {}, FALSE)}

DeployBodies == {Created, Mixed, Invalid}
\* Block 0 comes before every subscription: one body stands for all.
MCInit ==
    /\ DeployInit
    /\ chain[1].body = Mixed

MCSpec == MCInit /\ [][DeployNext]_deployVars

NoneOnly == {NoBlock}
ZeroOnly == {0}

\* With a --from-block, the instance is of the kind the theorems about complete
\* deployments are for.
ASSUME FactoryInstance ==
    NoBlock \notin FromArgs => GrowthOnly /\ FactoryDeploy /\ RoomyDeploy
=============================================================================
