--------------------------- MODULE RebuildLedger ----------------------------
(***************************************************************************)
(* What asking for a rebuild is worth: a ledger of the files the graph is  *)
(* behind on.  A request puts files on it, a rebuild takes off what it     *)
(* brought up to date, and nothing else gets off it unless it is written   *)
(* down as lost.  RebuildQueue is shown to implement this module: its      *)
(* queue files, the callers on their way and the passes under way are the  *)
(* ledger.  So is WatchLoop, for the code it watches: there the events,    *)
(* `changed` and the batch are.                                            *)
(***************************************************************************)
EXTENDS Integers

CONSTANT Paths       \* the source files of the repository

VARIABLES disk,      \* file -> its version on disk
          graph,     \* file -> the version graph.json was built from
          owed,      \* the files some rebuild to come will bring up to date
          lost       \* the files whose request may have been forgotten

ledger == <<disk, graph, owed, lost>>

Behind == {c \in Paths : graph[c] < disk[c]}

Init == /\ disk = [c \in Paths |-> 0]
        /\ graph = [c \in Paths |-> 0]
        /\ owed = {}
        /\ lost = {}

(* The files in S are written, and a rebuild of the files in C is asked    *)
(* for; an earlier loss of files in S need not be remembered.              *)
Request(S, C) ==
  /\ S \subseteq C
  /\ disk' = [c \in Paths |-> IF c \in S THEN disk[c] + 1 ELSE disk[c]]
  /\ owed' = owed \cup (C \cap Behind')
  /\ lost \ S \subseteq lost' /\ lost' \subseteq lost
  /\ UNCHANGED graph

(* A rebuild is going to take the files in C along, requested or not.      *)
TakeUp(C) == /\ owed' = owed \cup (C \cap Behind)
             /\ UNCHANGED <<disk, graph, lost>>

(* The graph moves towards the disk, never away from it. *)
Advance == /\ graph' \in [Paths -> Nat]
           /\ \A c \in Paths : graph[c] <= graph'[c] /\ graph'[c] <= disk[c]
           /\ UNCHANGED disk

(* A rebuild takes off the ledger what it brought up to date, that only.   *)
Rebuild == /\ Advance
           /\ owed' = owed \cap Behind'
           /\ lost \cap Behind' \subseteq lost' /\ lost' \subseteq lost

(* A rebuild that fails, or a line that was appended too late, takes files *)
(* off the ledger that are still behind; these are written down.           *)
Lose(L) == /\ Advance
           /\ lost' = lost \cup L
           /\ owed' \subseteq owed \cap Behind'
           /\ (owed \cap Behind') \ L \subseteq owed'

Next == \/ \E C \in SUBSET Paths : TakeUp(C) \/ \E S \in SUBSET C : Request(S, C)
        \/ Rebuild
        \/ \E L \in SUBSET Paths : Lose(L)

Spec == Init /\ [][Next]_ledger

(* Whatever the graph is behind on is owed or lost. *)
NothingForgotten == Behind \subseteq owed \cup lost
=============================================================================
