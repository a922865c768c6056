--------------------------- MODULE MCRebuildQueue ---------------------------
(* RebuildQueue for TLC.  MCRebuildQueue.cfg: three callers, two files,    *)
(* every kind of request, failures, alarms and kills.  ...Live.cfg: no     *)
(* failures, under fairness.  ...Lost, ...Stranded and ...Alarm.cfg: a     *)
(* claim that fails, with the fewest callers and files that show it.       *)
EXTENDS RebuildQueue, TLC

Symmetric == Permutations(Procs) \cup Permutations(Paths)
=============================================================================
