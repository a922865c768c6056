---------------------------- MODULE MCRebuildPass ----------------------------
(* RebuildPass for TLC.  Two contents of one shape (an edit of a comment)  *)
(* and one of another; two files, so that an incremental pass leaves one   *)
(* out.  MCRebuildPass.cfg: two files, clustered and --no-cluster passes,  *)
(* one edit.  ...Edits.cfg: clustered passes and two edits.  ...Modes.cfg: *)
(* every mode, two edits of one file.  ...Skipped and ...Unsynced.cfg: a   *)
(* claim that fails.                                                       *)
EXTENDS RebuildPass, TLC

CONSTANTS c1, c2, c3, s1, s2

MCShape == (c1 :> s1) @@ (c2 :> s1) @@ (c3 :> s2)
MCShapeTwo == (c1 :> s1) @@ (c3 :> s2)

Clustered == {[raw |-> FALSE, viz |-> TRUE, force |-> FALSE]}
Mixed == Clustered \cup {[raw |-> TRUE, viz |-> TRUE, force |-> FALSE]}
Every == Mixed \cup {[raw |-> FALSE, viz |-> FALSE, force |-> TRUE]}

(* The two contents of MCShapeTwo, with their shapes, may change places. *)
Same == [x \in {c1, c3, s1, s2} |-> x]
Swapped == (c1 :> c3) @@ (c3 :> c1) @@ (s1 :> s2) @@ (s2 :> s1)
Symmetric == {p @@ q : p \in Permutations(Paths), q \in {Same, Swapped}}
=============================================================================
