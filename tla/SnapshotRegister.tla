-------------------------- MODULE SnapshotRegister --------------------------
(***************************************************************************)
(* What a snapshot store promises, whatever a snapshot and a sync pass are: *)
(* the deployment has one snapshot, with its retained history in full, and  *)
(* it only ever changes by a whole pass over the snapshot that is there.    *)
(***************************************************************************)
CONSTANTS
    InitialSnapshots,    \* what an earlier release may have left
    PassOutcomes(_, _)   \* the results of a pass over a snapshot, by --reset

VARIABLE snap

Init == snap \in InitialSnapshots

Pass == \E reset \in BOOLEAN : \E o \in PassOutcomes(snap, reset) : snap' = o.snap

Spec == Init /\ [][Pass]_snap
=============================================================================
