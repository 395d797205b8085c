--------------------------- MODULE MCSnapshotStore ---------------------------
(***************************************************************************)
(* Instances of SnapshotStore: entity states that create, update and remove *)
(* one entity beside another, and the two-entry history of a database from  *)
(* before the activity tables.                                              *)
(***************************************************************************)
EXTENDS SnapshotStore, TLC

MCEntityMaps == {NoEntities, "a" :> "1", ("a" :> "2") @@ ("b" :> "1")}

MCLegacyHistory ==
    <<[ckpt |-> Checkpoint(0, 0, TRUE), applied |-> ("a" :> "1"), dyn |-> {}],
      [ckpt |-> Checkpoint(1, 1, TRUE), applied |-> ("a" :> "2") @@ ("b" :> "1"), dyn |-> {"s"}]>>

\* The instance is of the kind the theorems about the trail are for.
ASSUME TrailInstance == NoEmptyRange /\ (MaxSpan = 1 => WholeBlocks)

IndexerSymmetry == Permutations(Indexers)
=============================================================================
