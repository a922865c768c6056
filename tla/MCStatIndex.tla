---------------------------- MODULE MCStatIndex -----------------------------
(* StatIndex for TLC: a process, two cache roots, a digest and a word count. *)
EXTENDS StatIndex, TLC

Symmetric == Permutations(Roots)
=============================================================================
