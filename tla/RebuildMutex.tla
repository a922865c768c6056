---------------------------- MODULE RebuildMutex ----------------------------
(***************************************************************************)
(* What the per-repository rebuild lock promises to the rest of graphify:  *)
(* at most one process at a time is inside a rebuild.  A process enters    *)
(* when no other is inside, leaves when its rebuild is done, and is thrown *)
(* out when it is killed.  RebuildLock is shown to implement this module.  *)
(***************************************************************************)
CONSTANTS Procs,     \* the processes that may rebuild
          NoProc     \* "nobody", not a process

VARIABLE holder      \* the process inside the rebuild

(* The lock is free or has one holder. *)
TypeOK == holder \in Procs \cup {NoProc}

Init == holder = NoProc

(* The `with _rebuild_lock(...)` block is entered with True. *)
Enter(p) == /\ holder = NoProc
            /\ holder' = p

(* The block is left, or the process is killed inside it. *)
Leave(p) == /\ holder = p
            /\ holder' = NoProc

Next == \E p \in Procs : Enter(p) \/ Leave(p)

Spec == Init /\ [][Next]_holder
=============================================================================
