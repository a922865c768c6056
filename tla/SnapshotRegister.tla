-------------------------- MODULE SnapshotRegister --------------------------
(***************************************************************************)
(* What graph.snap is to those who use it: a register with one snapshot of *)
(* graph.json in it.  The snapshot is replaced as a whole, by the next     *)
(* generation, which is of a version of graph.json that was written, not   *)
(* necessarily of the latest; a purge empties the register, and            *)
(* generations start over.  A reader sees a snapshot that was in the       *)
(* register when it looked, until it looks again or lets go of it.         *)
(* SnapshotStore is shown to implement this module.                        *)
(***************************************************************************)
EXTENDS Integers

CONSTANTS Readers,
          NoSnap       \* nothing published, nothing seen

VARIABLES written,     \* the versions of graph.json written so far
          published,   \* the snapshot in the register
          seen         \* reader -> the snapshot it works with

register == <<written, published, seen>>

Init == /\ written = 0
        /\ published = NoSnap
        /\ seen = [r \in Readers |-> NoSnap]

(* A version of graph.json is written. *)
Write == /\ written' = written + 1
         /\ UNCHANGED <<published, seen>>

NextGeneration == IF published = NoSnap THEN 1 ELSE published.gen + 1

(* A snapshot of a version v is published. *)
Publish(v) == /\ published' = [gen |-> NextGeneration, from |-> v]
              /\ UNCHANGED <<written, seen>>

Purge == /\ published' = NoSnap
         /\ UNCHANGED <<written, seen>>

(* A reader takes what is published; not even a failed look leaves it with *)
(* anything else than it had.                                              *)
Look(r) == /\ published # NoSnap
           /\ seen' = [seen EXCEPT ![r] = published]
           /\ UNCHANGED <<written, published>>

LetGo(r) == /\ seen' = [seen EXCEPT ![r] = NoSnap]
            /\ UNCHANGED <<written, published>>

Next == \/ Write
        \/ \E v \in 1..written : Publish(v)
        \/ Purge
        \/ \E r \in Readers : Look(r) \/ LetGo(r)

Spec == Init /\ [][Next]_register
=============================================================================
