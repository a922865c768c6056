----------------------------- MODULE MCWatchLoop ----------------------------
(* WatchLoop for TLC: a file of each kind. *)
EXTENDS WatchLoop
=============================================================================
