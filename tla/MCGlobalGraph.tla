---------------------------- MODULE MCGlobalGraph ---------------------------
(***************************************************************************)
(* GlobalGraph for TLC.  Repository a has the parked call and first        *)
(* declares nothing; b and c declare T, c only in its second content.  The *)
(* library is used by a and b, in b's second content no longer.            *)
(***************************************************************************)
EXTENDS GlobalGraph, TLC

CONSTANTS a, b, c, lib, stub

Does(uses, declares, calls) == [uses |-> uses, declares |-> declares, calls |-> calls]

Shapes == a :> << Does({lib}, FALSE, TRUE), Does({lib, stub}, TRUE, TRUE) >>
       @@ b :> << Does({lib, stub}, TRUE, FALSE), Does({}, TRUE, FALSE) >>
       @@ c :> << Does({lib}, FALSE, FALSE), Does({stub}, TRUE, TRUE) >>

Symmetric == Permutations(Procs)
=============================================================================
