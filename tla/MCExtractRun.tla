---------------------------- MODULE MCExtractRun ----------------------------
(* ExtractRun for TLC: two workers, one file that is never cached. *)
EXTENDS ExtractRun
=============================================================================
