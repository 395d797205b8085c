----------------------------- MODULE MCIndexer -----------------------------
(***************************************************************************)
(* Instances of Indexer: a factory contract that exists from block 0 and    *)
(* one template contract (a pool) it may create.                            *)
(***************************************************************************)
EXTENDS Indexer

CONSTANTS factory, pool

MCSources == {[addr |-> factory, at |-> 0]}

Event(i, a, c, valid) == [idx |-> i, addr |-> a, creates |-> c, ok |-> valid]

Quiet   == {}
Plain   == {Event(0, factory, {}, TRUE)}
Created == {Event(0, factory, {pool}, TRUE), Event(1, pool, {}, TRUE)}
Swapped == {Event(0, pool, {}, TRUE)}
\* The pool also logs before the log that creates it, in the same block.
Early   == {Event(0, pool, {}, TRUE), Event(1, factory, {pool}, TRUE),
            Event(2, pool, {}, TRUE)}
\* A handler that writes an invalid entity, after one that does not.
Invalid == {Event(0, factory, {}, TRUE), Event(1, factory, {}, FALSE)}

EarlyBodies  == {Quiet, Early, Swapped}
FactoryBodies == {Created, Swapped}
ErrorBodies  == {Created, Swapped, Invalid}
PlainBodies  == {Quiet, Plain}

NoneOnly == {NoBlock}
OptFrom == {NoBlock, 0}
ZeroOnly == {0}
=============================================================================
