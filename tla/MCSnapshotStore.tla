--------------------------- MODULE MCSnapshotStore --------------------------
(***************************************************************************)
(* SnapshotStore for TLC: the writers are interchangeable.                 *)
(***************************************************************************)
EXTENDS SnapshotStore, TLC

Symmetric == Permutations(Builders)
=============================================================================
