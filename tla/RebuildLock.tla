----------------------------- MODULE RebuildLock -----------------------------
(***************************************************************************)
(* watch.py _rebuild_lock, the POSIX (fcntl.flock) branch, one action per  *)
(* system call.  flock locks an inode; the lock file is found by its path. *)
(* The holder unlinks the path before it unlocks, so a waiter may win a    *)
(* lock on an inode the path has moved on from; it then compares its       *)
(* descriptor with the path and starts over on a mismatch.                 *)
(*                                                                         *)
(* An inode stays allocated while the path or a descriptor refers to it    *)
(* and may be handed out again afterwards, as file systems do.             *)
(***************************************************************************)
EXTENDS Integers

CONSTANTS Procs,       \* processes that call _rebuild_lock
          Inodes,      \* inodes of the output directory
          MaxRounds,   \* comparisons before giving up (range(100) in the code)
          NoProc,      \* nobody
          NoInode      \* no file, no descriptor

ASSUME NoProcAssumption    == NoProc \notin Procs
ASSUME NoInodeAssumption   == NoInode \notin Inodes
ASSUME MaxRoundsAssumption == MaxRounds \in Nat \ {0}

VARIABLES path,      \* the inode .rebuild.lock names
          owner,     \* inode -> process that has the flock on it
          pid,       \* inode -> process whose PID the file contains
          pc,        \* where each process is in _rebuild_lock
          fd,        \* the inode each process has open
          blocking,  \* the `blocking` argument of the call under way
          rounds,    \* comparisons of this call that failed
          litter     \* ghost: a call ended without a release since the last unlink

vars == <<path, owner, pid, pc, fd, blocking, rounds, litter>>

Location == {"idle", "opened", "compare", "reopen", "giveup",
             "locked", "held", "unlinked"}

(* Every variable keeps its type; the retry counter stays within its bound. *)
TypeOK == /\ path \in Inodes \cup {NoInode}
          /\ owner \in [Inodes -> Procs \cup {NoProc}]
          /\ pid \in [Inodes -> Procs \cup {NoProc}]
          /\ pc \in [Procs -> Location]
          /\ fd \in [Procs -> Inodes \cup {NoInode}]
          /\ blocking \in [Procs -> BOOLEAN]
          /\ rounds \in [Procs -> 0..MaxRounds]
          /\ litter \in BOOLEAN

Init == /\ path = NoInode
        /\ owner = [i \in Inodes |-> NoProc]
        /\ pid = [i \in Inodes |-> NoProc]
        /\ pc = [p \in Procs |-> "idle"]
        /\ fd = [p \in Procs |-> NoInode]
        /\ blocking = [p \in Procs |-> FALSE]
        /\ rounds = [p \in Procs |-> 0]
        /\ litter = FALSE

Free(i) == i # path /\ \A q \in Procs : fd[q] # i

(* Mutant: open(lock_path, "w") truncates the file of the current holder. *)
OpenTruncate(p) ==
  \/ /\ path # NoInode
     /\ fd' = [fd EXCEPT ![p] = path]
     /\ pid' = [pid EXCEPT ![path] = NoProc]
     /\ UNCHANGED path
  \/ /\ path = NoInode
     /\ \E i \in Inodes : /\ Free(i)
                          /\ path' = i
                          /\ fd' = [fd EXCEPT ![p] = i]
                          /\ pid' = [pid EXCEPT ![i] = NoProc]

(* open(lock_path, "a+"): opens the file at the path, creating it when     *)
(* there is none; an existing file keeps its contents.                     *)
OpenAppend(p) ==
  \/ /\ path # NoInode
     /\ fd' = [fd EXCEPT ![p] = path]
     /\ UNCHANGED <<path, pid>>
  \/ /\ path = NoInode
     /\ \E i \in Inodes : /\ Free(i)
                          /\ path' = i
                          /\ fd' = [fd EXCEPT ![p] = i]
                          /\ pid' = [pid EXCEPT ![i] = NoProc]

(* The owner map once p has dropped its lock, if it has one. *)
Unlocked(p) == [i \in Inodes |-> IF owner[i] = p THEN NoProc ELSE owner[i]]

(* The descriptor is closed, with the lock on it, and the call is over. *)
Exit(p) == /\ owner' = Unlocked(p)
           /\ fd' = [fd EXCEPT ![p] = NoInode]
           /\ pc' = [pc EXCEPT ![p] = "idle"]
           /\ blocking' = [blocking EXCEPT ![p] = FALSE]
           /\ rounds' = [rounds EXCEPT ![p] = 0]

(* The call starts: `blocking` is the caller's choice. *)
Call(p, b) ==
  /\ pc[p] = "idle"
  /\ OpenAppend(p)
  /\ pc' = [pc EXCEPT ![p] = "opened"]
  /\ blocking' = [blocking EXCEPT ![p] = b]
  /\ UNCHANGED <<owner, rounds, litter>>

(* flock succeeds.  After MaxRounds failed comparisons the loop is over    *)
(* and its else branch gives the lock up without comparing again.          *)
Flock(p) ==
  /\ pc[p] = "opened"
  /\ owner[fd[p]] = NoProc
  /\ owner' = [owner EXCEPT ![fd[p]] = p]
  /\ pc' = [pc EXCEPT ![p] = IF rounds[p] < MaxRounds THEN "compare" ELSE "giveup"]
  /\ UNCHANGED <<path, pid, fd, blocking, rounds, litter>>

(* Mutant: a loser removes the lock file on its way out. *)
RefusedUnlinks(p) ==
  /\ pc[p] = "opened"
  /\ ~blocking[p]
  /\ owner[fd[p]] # NoProc
  /\ path' = NoInode
  /\ Exit(p)
  /\ UNCHANGED <<pid, litter>>

(* LOCK_NB and the inode is locked: BlockingIOError, the call yields False. *)
Refused(p) ==
  /\ pc[p] = "opened"
  /\ ~blocking[p]
  /\ owner[fd[p]] # NoProc
  /\ Exit(p)
  /\ UNCHANGED <<path, pid, litter>>

(* Mutant: the comparison is missing, any lock that was won is good. *)
SameFileUnchecked(p) ==
  /\ pc[p] = "compare"
  /\ pc' = [pc EXCEPT ![p] = "locked"]
  /\ UNCHANGED <<path, owner, pid, fd, blocking, rounds, litter>>

(* fstat(fd) and stat(lock_path) name the same inode: the lock is good. *)
SameFile(p) ==
  /\ pc[p] = "compare"
  /\ path = fd[p]
  /\ pc' = [pc EXCEPT ![p] = "locked"]
  /\ UNCHANGED <<path, owner, pid, fd, blocking, rounds, litter>>

(* They differ, or the path is gone: LOCK_UN, close. *)
OtherFile(p) ==
  /\ pc[p] = "compare"
  /\ path # fd[p]
  /\ owner' = Unlocked(p)
  /\ fd' = [fd EXCEPT ![p] = NoInode]
  /\ rounds' = [rounds EXCEPT ![p] = @ + 1]
  /\ pc' = [pc EXCEPT ![p] = "reopen"]
  /\ UNCHANGED <<path, pid, blocking, litter>>

Reopen(p) ==
  /\ pc[p] = "reopen"
  /\ OpenAppend(p)
  /\ pc' = [pc EXCEPT ![p] = "opened"]
  /\ UNCHANGED <<owner, blocking, rounds, litter>>

(* The for loop ran out: LOCK_UN, close, yield False.  The file this call  *)
(* may have created stays.                                                 *)
GiveUp(p) ==
  /\ pc[p] = "giveup"
  /\ Exit(p)
  /\ litter' = TRUE
  /\ UNCHANGED <<path, pid>>

(* seek(0), truncate(), write the PID, flush; then the call yields True. *)
WritePid(p) ==
  /\ pc[p] = "locked"
  /\ pid' = [pid EXCEPT ![fd[p]] = p]
  /\ pc' = [pc EXCEPT ![p] = "held"]
  /\ UNCHANGED <<path, owner, fd, blocking, rounds, litter>>

(* Mutant: the release forgets the file. *)
UnlinkForgotten(p) ==
  /\ pc[p] = "held"
  /\ pc' = [pc EXCEPT ![p] = "unlinked"]
  /\ litter' = FALSE
  /\ UNCHANGED <<path, owner, pid, fd, blocking, rounds>>

(* finally: the path is unlinked first ... *)
Unlink(p) ==
  /\ pc[p] = "held"
  /\ path' = NoInode
  /\ pc' = [pc EXCEPT ![p] = "unlinked"]
  /\ litter' = FALSE
  /\ UNCHANGED <<owner, pid, fd, blocking, rounds>>

(* Mutant: neither LOCK_UN nor close happens. *)
UnlockForgotten(p) ==
  /\ pc[p] = "unlinked"
  /\ pc' = [pc EXCEPT ![p] = "idle"]
  /\ UNCHANGED <<path, owner, pid, fd, blocking, rounds, litter>>

(* ... then LOCK_UN wakes the waiters, and close. *)
Unlock(p) ==
  /\ pc[p] = "unlinked"
  /\ Exit(p)
  /\ UNCHANGED <<path, pid, litter>>

(* The process is killed: the kernel closes the descriptor, which releases *)
(* the flock; the lock file stays with whatever PID it contains.           *)
Killed(p) ==
  /\ pc[p] # "idle"
  /\ Exit(p)
  /\ litter' = TRUE
  /\ UNCHANGED <<path, pid>>

Step(p) == \/ Flock(p) \/ Refused(p) \/ SameFile(p) \/ OtherFile(p) \/ Reopen(p)
           \/ GiveUp(p) \/ WritePid(p) \/ Unlink(p) \/ Unlock(p)

Next == \E p \in Procs : \/ \E b \in BOOLEAN : Call(p, b)
                         \/ Step(p)
                         \/ Killed(p)

Spec == Init /\ [][Next]_vars

(* A process that runs keeps running; the rebuild inside the lock ends (it *)
(* runs under _rebuild_timeout); the kernel grants a flock that is free    *)
(* again and again.  Nothing forces a call or a kill.                      *)
Fairness == \A p \in Procs : /\ WF_vars(Step(p))
                             /\ SF_vars(Flock(p))

FairSpec == Spec /\ Fairness

-----------------------------------------------------------------------------
(* Inside the with-block. *)
Inside == {p \in Procs : pc[p] \in {"locked", "held"}}

(* At most one process is inside a rebuild, whatever was unlinked, created *)
(* again, retried or killed on the way (watch.py:331-343).                 *)
MutualExclusion == \A p, q \in Inside : p = q

(* A poller that finds no lock file may take it that no rebuild is under   *)
(* way: the path always names the inode the process inside has locked.     *)
HolderIsVisible == \A p \in Inside : path = fd[p]

(* While the lock is held the file at the path contains the holder's PID,  *)
(* though others open the file, and dead holders leave theirs in it.       *)
PidNamesHolder == \A p \in Procs : pc[p] = "held" => /\ path # NoInode
                                                     /\ pid[path] = p

(* When nobody is in _rebuild_lock the file is gone, so a poller of its    *)
(* absence wakes up, unless a call was killed or gave up since the last    *)
(* release.  A non-blocking loser that created the file never leaves it.   *)
FileIsCleared == (\A p \in Procs : pc[p] = "idle") /\ ~litter => path = NoInode

(* A blocking caller always gets an answer: the lock, or False after       *)
(* MaxRounds retries (unless it is killed).                                *)
BlockingCallReturns ==
  \A p \in Procs : (blocking[p] /\ pc[p] = "opened") ~> (pc[p] \in {"held", "idle"})

(* The abstract lock this protocol implements. *)
Holder == IF Inside = {} THEN NoProc ELSE CHOOSE p \in Procs : p \in Inside

Mutex == INSTANCE RebuildMutex WITH holder <- Holder

(* Seen from the process inside, every step is an entry when nobody is     *)
(* inside, an exit of the one inside, or nothing at all.                   *)
ImplementsMutex == Mutex!Spec
=============================================================================
