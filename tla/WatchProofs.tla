---------------------------- MODULE WatchProofs ----------------------------
(***************************************************************************)
(* Theorems about watch.py's lock and watch.py's loop, two specifications  *)
(* that share no variable.                                                 *)
(*                                                                         *)
(* RebuildLock, for any number of processes, inodes and rounds.  The       *)
(* inductive invariant IInv adds to the type invariant                     *)
(*   - LockInv: which process owns which flock, read in both directions,   *)
(*   - PathInv: what the path says about the process inside, about one     *)
(*     that has unlinked it and about a file nobody has open.              *)
(* Mutual exclusion follows because the processes inside have all locked   *)
(* the inode at the path, and an inode has one owner.                      *)
(*                                                                         *)
(* WatchLoop, for any files of each kind and any number of changes.  The   *)
(* inductive invariant WatchInv says of every change where on its way it   *)
(* is: ConfigInv and OverrideInv of the overrides, FileInv and DocInv of   *)
(* the files that are always watched, RemappedInv of those of which the    *)
(* overrides decide.  Last, each step is mapped to one of RebuildLedger.   *)
(***************************************************************************)
EXTENDS RebuildLock, WatchLoop, TLAPS

Owning == {"compare", "giveup", "locked", "held", "unlinked"}

LockInv ==
  /\ \A p \in Procs : (fd[p] = NoInode) <=> (pc[p] \in {"idle", "reopen"})
  /\ \A p \in Procs : pc[p] \in Owning => owner[fd[p]] = p
  /\ \A i \in Inodes : \A p \in Procs : owner[i] = p => fd[p] = i /\ pc[p] \in Owning
  /\ \A p \in Procs : pc[p] = "compare" => rounds[p] < MaxRounds

PathInv ==
  /\ \A p \in Procs : pc[p] \in {"locked", "held"} => path = fd[p]
  /\ \A p \in Procs : pc[p] = "held" => pid[fd[p]] = p
  /\ \A p \in Procs : pc[p] = "unlinked" => path # fd[p]
  /\ path # NoInode /\ ~litter => \E p \in Procs : fd[p] = path

IInv == TypeOK /\ LockInv /\ PathInv

-----------------------------------------------------------------------------
(* The initial state: nothing is open, nothing is locked, no file. *)
LEMMA InitIInv == Init => IInv
<1> SUFFICES ASSUME Init PROVE IInv
  OBVIOUS
<1>1. TypeOK
  <2>1. rounds \in [Procs -> 0..MaxRounds]
    BY MaxRoundsAssumption DEF Init
  <2>2. pc \in [Procs -> Location] /\ blocking \in [Procs -> BOOLEAN]
    BY DEF Init, Location
  <2>3. QED
    BY <2>1, <2>2 DEF Init, TypeOK
<1>2. LockInv
  BY NoProcAssumption DEF Init, LockInv, Owning
<1>3. PathInv
  BY DEF Init, PathInv
<1>4. QED
  BY <1>1, <1>2, <1>3 DEF IInv

(* open("a+") leaves p with the inode at the path and nobody else disturbed. *)
LEMMA OpenAppendFacts ==
  ASSUME IInv, NEW p \in Procs, OpenAppend(p), fd[p] = NoInode
  PROVE  /\ path' \in Inodes
         /\ fd' = [fd EXCEPT ![p] = path']
         /\ pid' \in [Inodes -> Procs \cup {NoProc}]
         /\ \A q \in Procs : q # p /\ fd[q] # NoInode => pid'[fd[q]] = pid[fd[q]]
         /\ path # NoInode => path' = path
         /\ \A q \in Procs : q # p /\ path = NoInode => fd[q] # path'
<1>1. CASE path # NoInode
  BY <1>1, NoInodeAssumption DEF OpenAppend, IInv, TypeOK
<1>2. CASE path = NoInode
  <2>1. PICK i \in Inodes : /\ Free(i)
                            /\ path' = i
                            /\ fd' = [fd EXCEPT ![p] = i]
                            /\ pid' = [pid EXCEPT ![i] = NoProc]
    BY <1>2 DEF OpenAppend
  <2>2. \A q \in Procs : fd[q] # i
    BY <2>1 DEF Free
  <2>3. \A q \in Procs : q # p /\ fd[q] # NoInode => pid'[fd[q]] = pid[fd[q]]
    BY <2>1, <2>2 DEF IInv, TypeOK
  <2>4. QED
    BY <1>2, <2>1, <2>2, <2>3 DEF IInv, TypeOK
<1>3. QED
  BY <1>1, <1>2

(* Closing a descriptor gives up the lock on it and nobody else's. *)
LEMMA ExitFacts ==
  ASSUME IInv, NEW p \in Procs, Exit(p), path' \in Inodes \cup {NoInode},
         pid' = pid, litter' \in BOOLEAN
  PROVE  TypeOK' /\ LockInv'
<1> USE DEF IInv, TypeOK, Exit
<1>1. TypeOK'
  BY MaxRoundsAssumption DEF Unlocked, Location
<1>2. \A q \in Procs : (fd'[q] = NoInode) <=> (pc'[q] \in {"idle", "reopen"})
  BY DEF LockInv
<1>3. \A q \in Procs : pc'[q] \in Owning => owner'[fd'[q]] = q
  <2> SUFFICES ASSUME NEW q \in Procs, pc'[q] \in Owning
               PROVE  owner'[fd'[q]] = q
    OBVIOUS
  <2>1. q # p /\ pc[q] \in Owning /\ fd'[q] = fd[q]
    BY DEF Owning
  <2>2. fd[q] \in Inodes /\ owner[fd[q]] = q
    BY <2>1, NoInodeAssumption DEF LockInv, Owning
  <2>3. QED
    BY <2>1, <2>2 DEF Unlocked
<1>4. \A i \in Inodes : \A q \in Procs : owner'[i] = q => fd'[q] = i /\ pc'[q] \in Owning
  <2> SUFFICES ASSUME NEW i \in Inodes, NEW q \in Procs, owner'[i] = q
               PROVE  fd'[q] = i /\ pc'[q] \in Owning
    OBVIOUS
  <2>1. owner[i] = q /\ q # p
    BY NoProcAssumption DEF Unlocked
  <2>2. QED
    BY <2>1 DEF LockInv
<1>5. \A q \in Procs : pc'[q] = "compare" => rounds'[q] < MaxRounds
  BY DEF LockInv
<1>6. QED
  BY <1>1, <1>2, <1>3, <1>4, <1>5 DEF LockInv

(* After p has closed its descriptor PathInv holds again, provided the     *)
(* file at the path, if p was one of those who had it open, is still open  *)
(* somewhere or accounted for as litter.                                   *)
LEMMA ExitPath ==
  ASSUME IInv, NEW p \in Procs, Exit(p), UNCHANGED <<path, pid>>,
         \/ litter' = TRUE
         \/ litter' = litter /\ (path # NoInode => \/ fd[p] # path
                                                   \/ \E q \in Procs : q # p /\ fd[q] = path)
  PROVE  PathInv'
<1> USE DEF IInv, TypeOK, Exit
<1>1. \A q \in Procs : pc'[q] # "idle" => q # p /\ pc'[q] = pc[q] /\ fd'[q] = fd[q]
  OBVIOUS
<1>2. path' # NoInode /\ ~litter' => \E q \in Procs : fd'[q] = path'
  BY DEF PathInv
<1>3. QED
  BY <1>1, <1>2 DEF PathInv

-----------------------------------------------------------------------------
(* Each step of Next preserves the inductive invariant. *)
LEMMA CallIInv == ASSUME IInv, NEW p \in Procs, NEW b \in BOOLEAN, Call(p, b)
                  PROVE  IInv'
<1>0. fd[p] = NoInode /\ OpenAppend(p) /\ pc[p] = "idle"
  BY DEF Call, IInv, LockInv
<1>1. /\ path' \in Inodes
      /\ fd' = [fd EXCEPT ![p] = path']
      /\ pid' \in [Inodes -> Procs \cup {NoProc}]
      /\ \A q \in Procs : q # p /\ fd[q] # NoInode => pid'[fd[q]] = pid[fd[q]]
      /\ path # NoInode => path' = path
      /\ \A q \in Procs : q # p /\ path = NoInode => fd[q] # path'
  BY <1>0, OpenAppendFacts
<1> USE DEF IInv, TypeOK, Call
<1>2. TypeOK'
  BY <1>1 DEF Location
<1>3. LockInv'
  BY <1>0, <1>1, NoInodeAssumption, NoProcAssumption DEF LockInv, Owning
<1>4. PathInv'
  <2>1. \A q \in Procs : pc'[q] \in {"locked", "held"} => path' = fd'[q]
    BY <1>1, NoInodeAssumption DEF PathInv, LockInv
  <2>2. \A q \in Procs : pc'[q] = "held" => pid'[fd'[q]] = q
    BY <1>1 DEF PathInv, LockInv
  <2>3. \A q \in Procs : pc'[q] = "unlinked" => path' # fd'[q]
    BY <1>1 DEF PathInv
  <2>4. fd'[p] = path'
    BY <1>1
  <2>5. QED
    BY <2>1, <2>2, <2>3, <2>4 DEF PathInv
<1>5. QED
  BY <1>2, <1>3, <1>4

(* A retry opens the file at the path, or creates it under a free inode. *)
LEMMA ReopenIInv == ASSUME IInv, NEW p \in Procs, Reopen(p)
                    PROVE  IInv'
<1>0. fd[p] = NoInode /\ OpenAppend(p) /\ pc[p] = "reopen"
  BY DEF Reopen, IInv, LockInv
<1>1. /\ path' \in Inodes
      /\ fd' = [fd EXCEPT ![p] = path']
      /\ pid' \in [Inodes -> Procs \cup {NoProc}]
      /\ \A q \in Procs : q # p /\ fd[q] # NoInode => pid'[fd[q]] = pid[fd[q]]
      /\ path # NoInode => path' = path
      /\ \A q \in Procs : q # p /\ path = NoInode => fd[q] # path'
  BY <1>0, OpenAppendFacts
<1> USE DEF IInv, TypeOK, Reopen
<1>2. TypeOK'
  BY <1>1 DEF Location
<1>3. LockInv'
  BY <1>0, <1>1, NoInodeAssumption, NoProcAssumption DEF LockInv, Owning
<1>4. PathInv'
  <2>1. \A q \in Procs : pc'[q] \in {"locked", "held"} => path' = fd'[q]
    BY <1>1, NoInodeAssumption DEF PathInv, LockInv
  <2>2. \A q \in Procs : pc'[q] = "held" => pid'[fd'[q]] = q
    BY <1>1 DEF PathInv, LockInv
  <2>3. \A q \in Procs : pc'[q] = "unlinked" => path' # fd'[q]
    BY <1>1 DEF PathInv
  <2>4. fd'[p] = path'
    BY <1>1
  <2>5. QED
    BY <2>1, <2>2, <2>3, <2>4 DEF PathInv
<1>5. QED
  BY <1>2, <1>3, <1>4

(* A lock that is won is won on an inode nobody owned. *)
LEMMA FlockIInv == ASSUME IInv, NEW p \in Procs, Flock(p)
                   PROVE  IInv'
<1> USE DEF IInv, TypeOK, Flock
<1>1. fd[p] \in Inodes
  BY DEF LockInv
<1>2. TypeOK'
  BY <1>1 DEF Location
<1>3. LockInv'
  BY <1>1, NoProcAssumption, NoInodeAssumption, MaxRoundsAssumption DEF LockInv, Owning
<1>4. PathInv'
  BY DEF PathInv
<1>5. QED
  BY <1>2, <1>3, <1>4

(* A refused caller leaves the owner of the inode behind, which has it open. *)
LEMMA RefusedIInv == ASSUME IInv, NEW p \in Procs, Refused(p)
                     PROVE  IInv'
<1> USE DEF IInv, TypeOK
<1>1. fd[p] \in Inodes /\ owner[fd[p]] \in Procs
  BY DEF Refused, LockInv
<1>2. owner[fd[p]] # p /\ fd[owner[fd[p]]] = fd[p]
  BY <1>1 DEF Refused, LockInv, Owning
<1>3. PathInv'
  BY <1>1, <1>2, ExitPath DEF Refused
<1>4. TypeOK' /\ LockInv'
  BY ExitFacts DEF Refused
<1>5. QED
  BY <1>3, <1>4

(* Whoever passes the comparison owns the inode at the path: it is alone. *)
LEMMA SameFileIInv == ASSUME IInv, NEW p \in Procs, SameFile(p)
                      PROVE  IInv'
<1> USE DEF IInv, TypeOK, SameFile
<1>1. TypeOK'
  BY DEF Location
<1>2. LockInv'
  BY DEF LockInv, Owning
<1>3. PathInv'
  BY DEF PathInv
<1>4. QED
  BY <1>1, <1>2, <1>3

(* A failed comparison gives up an inode that is not at the path. *)
LEMMA OtherFileIInv == ASSUME IInv, NEW p \in Procs, OtherFile(p)
                       PROVE  IInv'
<1> USE DEF IInv, TypeOK, OtherFile
<1>1. rounds[p] + 1 \in 0..MaxRounds
  BY MaxRoundsAssumption DEF LockInv
<1>2. TypeOK'
  BY <1>1 DEF Location, Unlocked
<1>3. LockInv'
  <2>1. \A q \in Procs : (fd'[q] = NoInode) <=> (pc'[q] \in {"idle", "reopen"})
    BY DEF LockInv
  <2>2. \A q \in Procs : pc'[q] \in Owning => owner'[fd'[q]] = q
    <3> SUFFICES ASSUME NEW q \in Procs, pc'[q] \in Owning
                 PROVE  owner'[fd'[q]] = q
      OBVIOUS
    <3>1. q # p /\ pc[q] \in Owning /\ fd'[q] = fd[q]
      BY DEF Owning
    <3>2. fd[q] \in Inodes /\ owner[fd[q]] = q
      BY <3>1, NoInodeAssumption DEF LockInv, Owning
    <3>3. QED
      BY <3>1, <3>2 DEF Unlocked
  <2>3. \A i \in Inodes : \A q \in Procs : owner'[i] = q => fd'[q] = i /\ pc'[q] \in Owning
    <3> SUFFICES ASSUME NEW i \in Inodes, NEW q \in Procs, owner'[i] = q
                 PROVE  fd'[q] = i /\ pc'[q] \in Owning
      OBVIOUS
    <3>1. owner[i] = q /\ q # p
      BY NoProcAssumption DEF Unlocked
    <3>2. QED
      BY <3>1 DEF LockInv
  <2>4. \A q \in Procs : pc'[q] = "compare" => rounds'[q] < MaxRounds
    BY DEF LockInv
  <2>5. QED
    BY <2>1, <2>2, <2>3, <2>4 DEF LockInv
<1>4. PathInv'
  BY DEF PathInv
<1>5. QED
  BY <1>2, <1>3, <1>4

(* Giving up leaves the lock as OtherFile does. *)
LEMMA GiveUpIInv == ASSUME IInv, NEW p \in Procs, GiveUp(p)
                    PROVE  IInv'
<1>1. TypeOK' /\ LockInv'
  BY ExitFacts DEF GiveUp, IInv, TypeOK
<1>2. PathInv'
  BY ExitPath DEF GiveUp
<1>3. QED
  BY <1>1, <1>2 DEF IInv

(* The PID goes into the file at the path. *)
LEMMA WritePidIInv == ASSUME IInv, NEW p \in Procs, WritePid(p)
                      PROVE  IInv'
<1> USE DEF IInv, TypeOK, WritePid
<1>1. fd[p] \in Inodes
  BY DEF LockInv
<1>2. TypeOK'
  BY <1>1 DEF Location
<1>3. LockInv'
  BY DEF LockInv, Owning
<1>4. PathInv'
  <2>1. \A q \in Procs : pc'[q] = "held" => pid'[fd'[q]] = q
    <3> SUFFICES ASSUME NEW q \in Procs, pc'[q] = "held", q # p
                 PROVE  pid'[fd[q]] = q
      BY <1>1
    <3>1. owner[fd[q]] = q /\ owner[fd[p]] = p
      BY DEF LockInv, Owning
    <3>2. fd[q] # fd[p] /\ pid[fd[q]] = q
      BY <3>1 DEF PathInv
    <3>3. QED
      BY <3>2
  <2>2. QED
    BY <2>1 DEF PathInv
<1>5. QED
  BY <1>2, <1>3, <1>4

(* Only the holder of the inode at the path unlinks, so nobody else can be inside. *)
LEMMA UnlinkIInv == ASSUME IInv, NEW p \in Procs, Unlink(p)
                    PROVE  IInv'
<1> USE DEF IInv, TypeOK, Unlink
<1>1. TypeOK'
  BY DEF Location
<1>2. LockInv'
  BY DEF LockInv, Owning
<1>3. PathInv'
  <2>1. ASSUME NEW q \in Procs, pc[q] \in {"locked", "held"}
        PROVE  q = p
    <3>1. owner[fd[q]] = q /\ owner[fd[p]] = p
      BY <2>1 DEF LockInv, Owning
    <3>2. fd[q] = fd[p]
      BY <2>1 DEF PathInv
    <3>3. QED
      BY <3>1, <3>2
  <2>2. fd[p] # NoInode
    BY DEF LockInv
  <2>3. \A q \in Procs : pc'[q] \notin {"locked", "held"}
    BY <2>1
  <2>4. \A q \in Procs : pc'[q] = "unlinked" => path' # fd'[q]
    BY <2>2 DEF LockInv
  <2>5. QED
    BY <2>3, <2>4 DEF PathInv
<1>4. QED
  BY <1>1, <1>2, <1>3

(* The unlocked inode has left the path already. *)
LEMMA UnlockIInv == ASSUME IInv, NEW p \in Procs, Unlock(p)
                    PROVE  IInv'
<1>1. TypeOK' /\ LockInv'
  BY ExitFacts DEF Unlock, IInv, TypeOK
<1>2. fd[p] # path
  BY DEF Unlock, IInv, PathInv
<1>3. PathInv'
  BY <1>2, ExitPath DEF Unlock
<1>4. QED
  BY <1>1, <1>3 DEF IInv

(* A killed process drops its own lock only. *)
LEMMA KilledIInv == ASSUME IInv, NEW p \in Procs, Killed(p)
                    PROVE  IInv'
<1>1. TypeOK' /\ LockInv'
  BY ExitFacts DEF Killed, IInv, TypeOK
<1>2. PathInv'
  BY ExitPath DEF Killed
<1>3. QED
  BY <1>1, <1>2 DEF IInv

(* Nothing changes. *)
LEMMA StutterIInv == IInv /\ UNCHANGED vars => IInv'
  BY DEF IInv, TypeOK, LockInv, PathInv, vars

(* Every step keeps the invariant. *)
LEMMA NextIInv == IInv /\ [Next]_vars => IInv'
<1> SUFFICES ASSUME IInv, [Next]_vars PROVE IInv'
  OBVIOUS
<1>1. CASE Next
  <2>1. PICK p \in Procs : \/ \E b \in BOOLEAN : Call(p, b)
                           \/ Step(p)
                           \/ Killed(p)
    BY <1>1 DEF Next
  <2>2. QED
    BY <2>1, CallIInv, ReopenIInv, FlockIInv, RefusedIInv, SameFileIInv, OtherFileIInv,
       GiveUpIInv, WritePidIInv, UnlinkIInv, UnlockIInv, KilledIInv DEF Step
<1>2. CASE UNCHANGED vars
  BY <1>2, StutterIInv
<1>3. QED
  BY <1>1, <1>2

(* The inductive invariant holds in every reachable state of watch.py      *)
(* _rebuild_lock, for every number of processes.                           *)
THEOREM Invariance == Spec => []IInv
  BY InitIInv, NextIInv, PTL DEF Spec

(* Two processes inside have both locked the inode at the path. *)
LEMMA OneInside == IInv => MutualExclusion
<1> SUFFICES ASSUME IInv, NEW p \in Inside, NEW q \in Inside
             PROVE  p = q
  BY DEF MutualExclusion
<1>1. /\ p \in Procs /\ pc[p] \in {"locked", "held"}
      /\ q \in Procs /\ pc[q] \in {"locked", "held"}
  BY DEF Inside
<1>2. fd[p] = path /\ fd[q] = path
  BY <1>1 DEF IInv, PathInv
<1>3. owner[fd[p]] = p /\ owner[fd[q]] = q
  BY <1>1 DEF IInv, LockInv, Owning
<1>4. QED
  BY <1>2, <1>3

(* The variables of _rebuild_lock keep their types. *)
THEOREM TypeCorrect == Spec => []TypeOK
<1>1. IInv => TypeOK
  BY DEF IInv
<1>2. QED
  BY <1>1, Invariance, PTL

(* Never two rebuilds at once, despite the unlinking of a locked file. *)
THEOREM MutualExclusionHolds == Spec => []MutualExclusion
  BY OneInside, Invariance, PTL

(* While a process is inside, .rebuild.lock exists and is the file it locked. *)
THEOREM HolderIsVisibleHolds == Spec => []HolderIsVisible
<1>1. IInv => HolderIsVisible
  BY DEF IInv, PathInv, HolderIsVisible, Inside
<1>2. QED
  BY <1>1, Invariance, PTL

(* While the lock is held, .rebuild.lock contains the PID of the holder. *)
THEOREM PidNamesHolderHolds == Spec => []PidNamesHolder
<1>1. IInv => PidNamesHolder
  BY NoInodeAssumption DEF IInv, PathInv, LockInv, PidNamesHolder
<1>2. QED
  BY <1>1, Invariance, PTL

(* With nobody in _rebuild_lock the file is gone, unless a killed call or  *)
(* one that gave up left it.                                               *)
THEOREM FileIsClearedHolds == Spec => []FileIsCleared
<1>1. IInv => FileIsCleared
  BY DEF IInv, PathInv, LockInv, FileIsCleared
<1>2. QED
  BY <1>1, Invariance, PTL

-----------------------------------------------------------------------------
(* Refinement: the process inside is the holder of the abstract lock.      *)

HolderIsTheOneInside ==
  /\ \A p \in Procs : Holder = p <=> pc[p] \in {"locked", "held"}
  /\ Holder = NoProc <=> Inside = {}

(* The holder of the refinement is the process inside, if there is one. *)
LEMMA HolderFacts == IInv => HolderIsTheOneInside
<1> SUFFICES ASSUME IInv PROVE HolderIsTheOneInside
  OBVIOUS
<1> USE DEF HolderIsTheOneInside
<1>1. CASE Inside = {}
  BY <1>1, NoProcAssumption DEF Holder, Inside
<1>2. CASE Inside # {}
  <2>1. PICK p \in Inside : TRUE
    BY <1>2
  <2>2. p \in Procs /\ pc[p] \in {"locked", "held"}
    BY <2>1 DEF Inside
  <2>3. Holder \in Inside
    BY <1>2, <2>1, <2>2 DEF Holder
  <2>4. Holder = p
    BY <2>1, <2>3, OneInside DEF MutualExclusion
  <2>5. \A q \in Procs : pc[q] \in {"locked", "held"} => q = p
    BY <2>1, OneInside DEF MutualExclusion, Inside
  <2>6. QED
    BY <1>2, <2>2, <2>4, <2>5, NoProcAssumption
<1>3. QED
  BY <1>1, <1>2

(* A step that takes nobody in or out leaves the abstract lock alone. *)
LEMMA HolderStutters ==
  ASSUME \A p \in Procs : pc[p] \in {"locked", "held"} <=> pc'[p] \in {"locked", "held"}
  PROVE  Holder' = Holder
<1>1. Inside' = Inside
  BY DEF Inside
<1>2. QED
  BY <1>1 DEF Holder

(* Every step of Next is a step of the abstract lock or a stutter. *)
LEMMA StepSimulation == IInv /\ IInv' /\ [Next]_vars => [Mutex!Next]_Holder
<1> SUFFICES ASSUME IInv, IInv', [Next]_vars PROVE [Mutex!Next]_Holder
  OBVIOUS
<1>a. HolderIsTheOneInside
  BY HolderFacts
<1>b. HolderIsTheOneInside'
  BY HolderFacts, PTL
<1> USE DEF HolderIsTheOneInside
<1>1. ASSUME NEW p \in Procs, SameFile(p)
      PROVE  Mutex!Enter(p)
  <2>1. pc[p] = "compare" /\ pc' = [pc EXCEPT ![p] = "locked"] /\ path = fd[p]
    BY <1>1 DEF SameFile
  <2>2. pc'[p] \in {"locked", "held"}
    BY <2>1 DEF IInv, TypeOK
  <2>3. \A q \in Procs : pc[q] \notin {"locked", "held"}
    <3> SUFFICES ASSUME NEW q \in Procs, pc[q] \in {"locked", "held"} PROVE FALSE
      OBVIOUS
    <3>1. owner[fd[q]] = q /\ owner[fd[p]] = p
      BY <2>1 DEF IInv, LockInv, Owning
    <3>2. fd[q] = fd[p]
      BY <2>1 DEF IInv, PathInv
    <3>3. QED
      BY <2>1, <3>1, <3>2
  <2>4. Holder = NoProc
    BY <2>3, <1>a DEF Inside
  <2>5. (Holder = p)'
    BY <2>2, <1>b
  <2>6. QED
    BY <2>4, <2>5 DEF Mutex!Enter
<1>2. ASSUME NEW p \in Procs, Unlink(p) \/ Killed(p), pc[p] \in {"locked", "held"}
      PROVE  Mutex!Leave(p)
  <2>1. Holder = p
    BY <1>2, <1>a
  <2>2. \A q \in Procs : pc[q] \in {"locked", "held"} => q = p
    BY <1>2, OneInside DEF MutualExclusion, Inside
  <2>3. \A q \in Procs : pc'[q] \notin {"locked", "held"}
    BY <1>2, <2>2 DEF Unlink, Killed, Exit, IInv, TypeOK
  <2>4. (Holder = NoProc)'
    BY <2>3, <1>b DEF Inside
  <2>5. QED
    BY <2>1, <2>4 DEF Mutex!Leave
<1>3. ASSUME NEW p \in Procs, Killed(p), pc[p] \notin {"locked", "held"}
      PROVE  Holder' = Holder
  BY <1>3, HolderStutters DEF Killed, Exit, IInv, TypeOK
<1>4. ASSUME NEW p \in Procs, NEW b \in BOOLEAN, Call(p, b)
      PROVE  Holder' = Holder
  BY <1>4, HolderStutters DEF Call, IInv, TypeOK
<1>5. ASSUME NEW p \in Procs, Flock(p) \/ OtherFile(p) \/ Reopen(p) \/ WritePid(p)
      PROVE  Holder' = Holder
  BY <1>5, HolderStutters DEF Flock, OtherFile, Reopen, WritePid, IInv, TypeOK
<1>6. ASSUME NEW p \in Procs, Refused(p) \/ GiveUp(p) \/ Unlock(p)
      PROVE  Holder' = Holder
  BY <1>6, HolderStutters DEF Refused, GiveUp, Unlock, Exit, IInv, TypeOK
<1>7. ASSUME UNCHANGED vars
      PROVE  Holder' = Holder
  BY <1>7, HolderStutters DEF vars
<1>8. ASSUME NEW p \in Procs, Unlink(p)
      PROVE  Mutex!Leave(p)
  BY <1>2, <1>8 DEF Unlink
<1>9. QED
  BY <1>1, <1>2, <1>3, <1>4, <1>5, <1>6, <1>7, <1>8 DEF Next, Step, Mutex!Next

(* _rebuild_lock implements the abstract lock RebuildMutex: entries and    *)
(* exits alternate, and a kill inside counts as an exit.                   *)
THEOREM LockImplementsMutex == Spec => ImplementsMutex
<1>1. Init => Mutex!Init
  BY DEF Init, Mutex!Init, Holder, Inside
<1>2. QED
  BY <1>1, StepSimulation, Invariance, PTL DEF Spec, ImplementsMutex, Mutex!Spec

-----------------------------------------------------------------------------
(***************************************************************************)
(* WatchLoop: what is said of each change, of a file or the overrides.     *)
(***************************************************************************)

(* Versions count changes. *)
CountInv == /\ config <= changes
            /\ \A f \in Files : disk[f] <= changes

(* What was extracted is no newer than the files, nor older than the graph.*)
AgeInv ==
  /\ graphConfig <= config
  /\ \A f \in Files : graph[f] <= disk[f]
  /\ dpc = "publish" => /\ graphConfig <= seenConfig /\ seenConfig <= config
                        /\ \A f \in Files : graph[f] <= seen[f] /\ seen[f] <= disk[f]

(* Which branch of the handler an event is in. *)
EventInv ==
  /\ opc # "idle" => event \in Events
  /\ opc \in {"override", "flag"} => AboutConfig(event)
  /\ opc \in {"trigger", "pend"} => AboutConfig(event) \/ event.src \in Files
  /\ opc = "add" => event.src \in Files

ConfigQueued == \E i \in DOMAIN inbox : AboutConfig(inbox[i])

Queued(f) == \E i \in DOMAIN inbox : f \in Names(inbox[i])

(* The observer reads the overrides again when they have changed. *)
OverrideInv == override_snapshot # config => ConfigQueued \/ opc = "override"

(* A change of the overrides is on its way at any point between the file   *)
(* and the graph: `config_changed` alone will do as long as `pending` is   *)
(* set, or will be.                                                        *)
ConfigInv == StaleConfig =>
  \/ RC \in missed
  \/ ConfigQueued \/ opc \in {"override", "flag"}
  \/ config_changed /\ \/ pending \/ dpc \in {"fire", "list", "clear", "ask"}
                       \/ opc \in {"trigger", "pend"} /\ AboutConfig(event)
  \/ config_event /\ dpc \in {"unset", "decide"}
  \/ dpc = "extract" \/ (dpc = "publish" /\ seenConfig = config)

(* So is a change of code, and the deletion of a document. *)
Due(f) == f \in Code \/ f \notin present

FileInv == \A f \in (Code \cup Docs) \ missed :
  Due(f) /\ graph[f] # disk[f] =>
    Reported(f) \/ Held(f) \/ dpc = "extract" \/ (dpc = "publish" /\ seen[f] = disk[f])

(* Of a remapped file it depends on the overrides whether its event counts:*)
(* those after the last change of the overrides do, once it is read.       *)
LastQueued(f) ==
  \E i \in DOMAIN inbox : /\ f \in Names(inbox[i])
                          /\ \A j \in DOMAIN inbox : AboutConfig(inbox[j]) => j < i

Expected(f) == \/ LastQueued(f)
               \/ opc # "idle" /\ f = event.src /\ ~ConfigQueued
               \/ Held(f) /\ override_snapshot = config

RemappedInv == Mapped(config) => \A f \in Remapped \ missed :
  /\ ~StaleConfig /\ graph[f] # disk[f] =>
        Expected(f) \/ dpc = "extract" \/ (dpc = "publish" /\ seen[f] = disk[f])
  /\ dpc = "publish" /\ seenConfig = config /\ seen[f] # disk[f] => Expected(f)

(* A document that has changed is flagged, or on its way to the flag. *)
DocInv == \A f \in (Docs \cap present) \ missed :
  \/ disk[f] = 0
  \/ needsUpdate
  \/ Reported(f)
  \/ Held(f)
  \/ f \in batch /\ dpc \in {"extract", "publish", "notify"}

WatchInv == /\ WatchTypeOK /\ CountInv /\ AgeInv /\ EventInv
            /\ OverrideInv /\ ConfigInv
            /\ FileInv /\ RemappedInv /\ DocInv
-----------------------------------------------------------------------------
(* A change of the overrides names no watched file. *)
LEMMA EventIs ==
  ASSUME NEW e \in Events
  PROVE  /\ e.src \in Files \cup {RC, Temp} /\ e.dest \in Files \cup {RC, NoFile}
         /\ e.src # Out /\ ~ReadOnly(e) /\ Names(e) = {e.src, e.dest}
         /\ AboutConfig(e) => e.src \notin Files /\ e.dest \notin Files
  BY FilesAssumption DEF Events, Changed, AboutConfig, Names, ReadOnly

(* What the loop hears of its own work names no watched file, does not     *)
(* concern the overrides and is not heeded.                                *)
LEMMA EchoIs ==
  ASSUME NEW e \in Echoes
  PROVE  /\ Names(e) \subseteq {Out, NoFile} /\ e.dest = NoFile
         /\ ~AboutConfig(e) /\ ~Heeded(e)
  BY FilesAssumption
  DEF Echoes, Changed, Opened, Names, ReadOnly, AboutConfig, Heeded, Watched, Files

(* The three things said of the inbox hold as long as it stays the same... *)
LEMMA InboxStays ==
  ASSUME UNCHANGED inbox
  PROVE  /\ ConfigQueued' <=> ConfigQueued
         /\ \A f : (Queued(f)' <=> Queued(f)) /\ (LastQueued(f)' <=> LastQueued(f))
  BY DEF ConfigQueued, Queued, LastQueued

(* ... hold of an event that comes, and of the others but for the last...  *)
LEMMA InboxGrows ==
  ASSUME inbox \in Seq(Events \cup Echoes), NEW e \in Events \cup Echoes,
         inbox' = Append(inbox, e)
  PROVE  /\ ConfigQueued' <=> ConfigQueued \/ AboutConfig(e)
         /\ \A f : Queued(f)' <=> Queued(f) \/ f \in Names(e)
         /\ ~AboutConfig(e) =>
              \A f : LastQueued(f) \/ f \in Names(e) => LastQueued(f)'
  <1>1. /\ Len(inbox) \in Nat /\ DOMAIN inbox = 1..Len(inbox)
        /\ DOMAIN inbox' = 1..(Len(inbox) + 1)
        /\ \A i \in DOMAIN inbox : inbox'[i] = inbox[i]
        /\ inbox'[Len(inbox) + 1] = e
    OBVIOUS
  <1>2. ConfigQueued' <=> ConfigQueued \/ AboutConfig(e)
    BY DEF ConfigQueued
  <1>3. \A f : Queued(f)' <=> Queued(f) \/ f \in Names(e)
    BY <1>1 DEF Queued
  <1>4. ASSUME ~AboutConfig(e), NEW f, LastQueued(f) PROVE LastQueued(f)'
    <2>1. PICK i \in DOMAIN inbox :
            /\ f \in Names(inbox[i])
            /\ \A j \in DOMAIN inbox : AboutConfig(inbox[j]) => j < i
      BY <1>4 DEF LastQueued
    <2>2. i \in DOMAIN inbox' /\ f \in Names(inbox'[i])
      BY <1>1, <2>1
    <2>3. \A j \in DOMAIN inbox' : AboutConfig(inbox'[j]) => j < i
      BY <1>4, <2>1
    <2>. QED BY <2>2, <2>3 DEF LastQueued
  <1>5. ASSUME ~AboutConfig(e), NEW f, f \in Names(e) PROVE LastQueued(f)'
    <2> DEFINE n == Len(inbox) + 1
    <2>1. n \in DOMAIN inbox' /\ f \in Names(inbox'[n])
      BY <1>1, <1>5
    <2>2. \A j \in DOMAIN inbox' : AboutConfig(inbox'[j]) => j < n
      BY <1>5
    <2>. QED BY <2>1, <2>2 DEF LastQueued
  <1>. QED BY <1>2, <1>3, <1>4, <1>5

(* ... hold whatever the loop hears of its own work...                     *)
LEMMA HearKeeps ==
  ASSUME inbox \in Seq(Events \cup Echoes), NEW e \in Echoes, Hear(e)
  PROVE  /\ inbox' \in Seq(Events \cup Echoes)
         /\ ConfigQueued' <=> ConfigQueued
         /\ \A f \in Files : (Queued(f)' <=> Queued(f)) /\ (LastQueued(f) => LastQueued(f)')
  <1>1. ~AboutConfig(e) /\ \A f \in Files : f \notin Names(e)
    BY EchoIs, FilesAssumption
  <1>2. CASE inbox' = Append(inbox, e)
    BY <1>1, <1>2, InboxGrows
  <1>3. CASE inbox' = inbox
    BY <1>3, InboxStays
  <1>. QED BY <1>2, <1>3 DEF Hear

(* ... and of the one that is taken, if no other one has them left.        *)
LEMMA InboxShrinks ==
  ASSUME inbox \in Seq(Events \cup Echoes), inbox # <<>>, inbox' = Tail(inbox)
  PROVE  /\ Head(inbox) \in Events \cup Echoes
         /\ ConfigQueued => ConfigQueued' \/ AboutConfig(Head(inbox))
         /\ ConfigQueued' => ConfigQueued
         /\ \A f : Queued(f) <=> Queued(f)' \/ f \in Names(Head(inbox))
         /\ \A f : LastQueued(f) =>
                    \/ LastQueued(f)'
                    \/ f \in Names(Head(inbox)) /\ ~ConfigQueued
  <1>1. /\ Len(inbox) \in Nat \ {0} /\ DOMAIN inbox = 1..Len(inbox)
        /\ DOMAIN inbox' = 1..(Len(inbox) - 1)
        /\ Head(inbox) = inbox[1] /\ inbox[1] \in Events \cup Echoes
        /\ \A i \in DOMAIN inbox' : inbox'[i] = inbox[i + 1]
    OBVIOUS
  <1>2. \A i \in DOMAIN inbox : i = 1 \/ (i - 1 \in DOMAIN inbox' /\ inbox'[i - 1] = inbox[i])
    BY <1>1
  <1>3. ConfigQueued => ConfigQueued' \/ AboutConfig(Head(inbox))
    BY <1>1, <1>2 DEF ConfigQueued
  <1>4. ConfigQueued' => ConfigQueued
    <2>1. \A i \in DOMAIN inbox' : i + 1 \in DOMAIN inbox
      BY <1>1
    <2>. QED BY DEF ConfigQueued
  <1>5. \A f : Queued(f) <=> Queued(f)' \/ f \in Names(Head(inbox))
    <2>1. \A i \in DOMAIN inbox' : i + 1 \in DOMAIN inbox
      BY <1>1
    <2>2. 1 \in DOMAIN inbox /\ Head(inbox) = inbox[1]
      BY <1>1
    <2>. QED BY <1>1, <1>2, <2>1, <2>2 DEF Queued
  <1>6. ASSUME NEW f, LastQueued(f)
        PROVE  LastQueued(f)' \/ (f \in Names(Head(inbox)) /\ ~ConfigQueued)
    <2>1. PICK i \in DOMAIN inbox :
            /\ f \in Names(inbox[i])
            /\ \A j \in DOMAIN inbox : AboutConfig(inbox[j]) => j < i
      BY <1>6 DEF LastQueued
    <2>2. CASE i = 1
      BY <2>1, <2>2 DEF ConfigQueued
    <2>3. CASE i # 1
      <3>1. i - 1 \in DOMAIN inbox' /\ inbox'[i - 1] = inbox[i]
        BY <1>2, <2>3
      <3>2. \A j \in DOMAIN inbox' : AboutConfig(inbox'[j]) => j < i - 1
        BY <2>1
      <3>. QED BY <2>1, <3>1, <3>2 DEF LastQueued
    <2>. QED BY <2>2, <2>3
  <1>. QED BY <1>3, <1>4, <1>5, <1>6
-----------------------------------------------------------------------------
(* From here on the observer uses the present overrides. *)
LEMMA WatchOverrideKeeps == ASSUME WatchInv, Override PROVE WatchInv'
  <1>1. /\ inbox' \in Seq(Events \cup Echoes)
        /\ ConfigQueued' <=> ConfigQueued
        /\ \A f \in Files : (Queued(f)' <=> Queued(f)) /\ (LastQueued(f) => LastQueued(f)')
    BY HearKeeps DEF Override, Echoes, WatchInv, WatchTypeOK
  <1>r. \A f \in Files : Reported(f) => Reported(f)'
    BY <1>1 DEF Override, Observe, Queued, Reported
  <1>2. WatchTypeOK'
    BY <1>1 DEF WatchInv, WatchTypeOK, Override, Observe, files, outputs, dispatch
  <1>3. CountInv' /\ AgeInv'
    BY DEF WatchInv, CountInv, AgeInv, Override, Observe, files, outputs, dispatch
  <1>4. EventInv' /\ OverrideInv'
    BY <1>1 DEF WatchInv, EventInv, OverrideInv, Override, Observe, files
  <1>5. ConfigInv'
    BY DEF ConfigInv, Override, Observe
  <1>6. FileInv'
    BY <1>r DEF WatchInv, FileInv, Due, Files, Held, Override, Observe, files, outputs,
           dispatch
  <1>7. RemappedInv'
    BY <1>1
    DEF WatchInv, RemappedInv, Files, StaleConfig, Expected, Held, Override, Observe,
        files, outputs, dispatch
  <1>8. DocInv'
    BY <1>r DEF WatchInv, DocInv, Files, Held, Override, Observe, files, outputs, dispatch
  <1>. QED BY <1>2, <1>3, <1>4, <1>5, <1>6, <1>7, <1>8 DEF WatchInv

(* config_changed stays set until a batch takes it. *)
LEMMA WatchFlagKeeps == ASSUME WatchInv, Flag PROVE WatchInv'
  <1>1. /\ ConfigQueued' <=> ConfigQueued
        /\ \A f : (Queued(f)' <=> Queued(f)) /\ (LastQueued(f)' <=> LastQueued(f))
    BY InboxStays DEF Flag
  <1>2. WatchTypeOK'
    BY DEF WatchInv, WatchTypeOK, Flag, Observe, files, outputs, dispatch
  <1>3. CountInv' /\ AgeInv'
    BY DEF WatchInv, CountInv, AgeInv, Flag, Observe, files, outputs, dispatch
  <1>4. EventInv' /\ OverrideInv'
    BY <1>1 DEF WatchInv, EventInv, OverrideInv, Flag, Observe, files
  <1>5. ConfigInv'
    BY DEF WatchInv, ConfigInv, EventInv, Flag, Observe
  <1>6. FileInv'
    BY DEF WatchInv, FileInv, Due, Reported, Held, Flag, Observe, files, outputs,
           dispatch
  <1>7. RemappedInv'
    BY <1>1
    DEF WatchInv, RemappedInv, StaleConfig, Expected, Held, Flag, Observe, files,
        outputs, dispatch
  <1>8. DocInv'
    BY DEF WatchInv, DocInv, Reported, Held, Flag, Observe, files, outputs, dispatch
  <1>. QED BY <1>2, <1>3, <1>4, <1>5, <1>6, <1>7, <1>8 DEF WatchInv

(* The debounce time starts anew. *)
LEMMA WatchTriggerKeeps == ASSUME WatchInv, Trigger PROVE WatchInv'
  <1>1. /\ ConfigQueued' <=> ConfigQueued
        /\ \A f : (Queued(f)' <=> Queued(f)) /\ (LastQueued(f)' <=> LastQueued(f))
    BY InboxStays DEF Trigger
  <1>2. WatchTypeOK'
    BY DEF WatchInv, WatchTypeOK, Trigger, Observe, files, outputs, dispatch
  <1>3. CountInv' /\ AgeInv'
    BY DEF WatchInv, CountInv, AgeInv, Trigger, Observe, files, outputs, dispatch
  <1>4. EventInv' /\ OverrideInv'
    BY <1>1 DEF WatchInv, EventInv, OverrideInv, Trigger, Observe, files
  <1>5. ConfigInv'
    BY <1>1
    DEF WatchInv, ConfigInv, StaleConfig, Trigger, Observe, files, outputs,
        dispatch
  <1>6. FileInv'
    BY DEF WatchInv, FileInv, Due, Reported, Held, Trigger, Observe, files, outputs,
           dispatch
  <1>7. RemappedInv'
    BY <1>1
    DEF WatchInv, RemappedInv, StaleConfig, Expected, Held, Trigger, Observe,
        files, outputs, dispatch
  <1>8. DocInv'
    BY DEF WatchInv, DocInv, Reported, Held, Trigger, Observe, files, outputs, dispatch
  <1>. QED BY <1>2, <1>3, <1>4, <1>5, <1>6, <1>7, <1>8 DEF WatchInv

(* A change of the overrides is complete; a path has yet to be added. *)
LEMMA WatchPendKeeps == ASSUME WatchInv, Pend PROVE WatchInv'
  <1>1. /\ ConfigQueued' <=> ConfigQueued
        /\ \A f : (Queued(f)' <=> Queued(f)) /\ (LastQueued(f)' <=> LastQueued(f))
    BY InboxStays DEF Pend
  <1>2. WatchTypeOK'
    BY DEF WatchInv, WatchTypeOK, Pend, Observe, files, outputs, dispatch
  <1>3. CountInv' /\ AgeInv'
    BY DEF WatchInv, CountInv, AgeInv, Pend, Observe, files, outputs, dispatch
  <1>4. EventInv' /\ OverrideInv'
    BY <1>1 DEF WatchInv, EventInv, OverrideInv, Pend, Observe, files
  <1>5. ConfigInv'
    BY <1>1
    DEF WatchInv, ConfigInv, StaleConfig, Pend, Observe, files, outputs, dispatch
  <1>6. FileInv'
    <2>1. AboutConfig(event) => event.src \notin Files
      BY EventIs DEF WatchInv, EventInv, Pend
    <2>. QED BY <2>1
             DEF WatchInv, FileInv, Due, Reported, Held, Files, Pend, Observe,
                 files, outputs, dispatch
  <1>7. RemappedInv'
    <2>1. AboutConfig(event) => event.src \notin Files
      BY EventIs DEF WatchInv, EventInv, Pend
    <2>. QED BY <1>1, <2>1
             DEF WatchInv, RemappedInv, StaleConfig, Expected, Held, Files, Pend,
                 Observe, files, outputs, dispatch
  <1>8. DocInv'
    <2>1. AboutConfig(event) => event.src \notin Files
      BY EventIs DEF WatchInv, EventInv, Pend
    <2>. QED BY <2>1
             DEF WatchInv, DocInv, Reported, Held, Files, Pend, Observe, files,
                 outputs, dispatch
  <1>. QED BY <1>2, <1>3, <1>4, <1>5, <1>6, <1>7, <1>8 DEF WatchInv

(* The path is in the set; whether anything wakes the dispatcher is in     *)
(* `missed`.                                                               *)
LEMMA WatchAddKeeps == ASSUME WatchInv, Add PROVE WatchInv'
  <1>1. /\ ConfigQueued' <=> ConfigQueued
        /\ \A f : (Queued(f)' <=> Queued(f)) /\ (LastQueued(f)' <=> LastQueued(f))
    BY InboxStays DEF Add
  <1>2. WatchTypeOK'
    BY DEF WatchInv, WatchTypeOK, EventInv, Add, Observe, files, outputs, dispatch
  <1>3. CountInv' /\ AgeInv'
    BY DEF WatchInv, CountInv, AgeInv, Add, Observe, files, outputs, dispatch
  <1>4. EventInv' /\ OverrideInv'
    BY <1>1 DEF WatchInv, EventInv, OverrideInv, Add, Observe, files
  <1>5. ConfigInv'
    BY <1>1 DEF WatchInv, ConfigInv, StaleConfig, Add, Observe, files, outputs, dispatch
  <1>6. FileInv'
    BY DEF WatchInv, FileInv, Due, Reported, Held, Add, Observe, files, outputs,
           dispatch
  <1>7. RemappedInv'
    BY <1>1
    DEF WatchInv, RemappedInv, OverrideInv, StaleConfig, Expected, Held, Add,
        Observe, files, outputs, dispatch
  <1>8. DocInv'
    BY DEF WatchInv, DocInv, Reported, Held, Add, Observe, files, outputs, dispatch
  <1>. QED BY <1>2, <1>3, <1>4, <1>5, <1>6, <1>7, <1>8 DEF WatchInv

(* Only `quiet` changes. *)
LEMMA WatchTickKeeps == ASSUME WatchInv, Tick PROVE WatchInv'
  <1>1. /\ ConfigQueued' <=> ConfigQueued
        /\ \A f : (Queued(f)' <=> Queued(f)) /\ (LastQueued(f)' <=> LastQueued(f))
    BY InboxStays DEF Tick, observer
  <1>2. WatchTypeOK'
    BY DEF WatchInv, WatchTypeOK, Tick, files, outputs, observer, dispatch
  <1>3. CountInv' /\ AgeInv'
    BY DEF WatchInv, CountInv, AgeInv, Tick, files, outputs, observer, dispatch
  <1>4. EventInv' /\ OverrideInv'
    BY <1>1 DEF WatchInv, EventInv, OverrideInv, Tick, files, observer
  <1>5. ConfigInv'
    BY <1>1
    DEF WatchInv, ConfigInv, StaleConfig, Tick, files, outputs, observer,
        dispatch
  <1>6. FileInv'
    BY DEF WatchInv, FileInv, Due, Reported, Held, Tick, files, outputs, observer,
           dispatch
  <1>7. RemappedInv'
    BY <1>1
    DEF WatchInv, RemappedInv, StaleConfig, Expected, Held, Tick, files, outputs,
        observer, dispatch
  <1>8. DocInv'
    BY DEF WatchInv, DocInv, Reported, Held, Tick, files, outputs, observer, dispatch
  <1>. QED BY <1>2, <1>3, <1>4, <1>5, <1>6, <1>7, <1>8 DEF WatchInv

(* pending is set, so that what was held stays held. *)
LEMMA WatchWakeKeeps == ASSUME WatchInv, Wake PROVE WatchInv'
  <1>1. /\ ConfigQueued' <=> ConfigQueued
        /\ \A f : (Queued(f)' <=> Queued(f)) /\ (LastQueued(f)' <=> LastQueued(f))
    BY InboxStays DEF Wake, Dispatch, observer
  <1>2. WatchTypeOK'
    BY DEF WatchInv, WatchTypeOK, Wake, Dispatch, files, observer, outputs, shared
  <1>3. CountInv' /\ AgeInv'
    BY DEF WatchInv, CountInv, AgeInv, Wake, Dispatch, files, observer, outputs
  <1>4. EventInv' /\ OverrideInv'
    BY <1>1 DEF WatchInv, EventInv, OverrideInv, Wake, Dispatch, files, observer, shared
  <1>5. ConfigInv'
    BY <1>1
    DEF WatchInv, ConfigInv, StaleConfig, Wake, Dispatch, files, observer,
        outputs, shared
  <1>6. FileInv'
    BY DEF WatchInv, FileInv, Due, Reported, Held, Wake, Dispatch, files, observer,
           outputs, shared
  <1>7. RemappedInv'
    BY <1>1
    DEF WatchInv, RemappedInv, StaleConfig, Expected, Held, Wake, Dispatch,
        files, observer, outputs, shared
  <1>8. DocInv'
    BY DEF WatchInv, DocInv, Reported, Held, Wake, Dispatch, files, observer,
           outputs, shared
  <1>. QED BY <1>2, <1>3, <1>4, <1>5, <1>6, <1>7, <1>8 DEF WatchInv

(* pending goes, but the batch is yet to be listed. *)
LEMMA WatchFireKeeps == ASSUME WatchInv, Fire PROVE WatchInv'
  <1>1. /\ ConfigQueued' <=> ConfigQueued
        /\ \A f : (Queued(f)' <=> Queued(f)) /\ (LastQueued(f)' <=> LastQueued(f))
    BY InboxStays DEF Fire, Dispatch, observer
  <1>2. WatchTypeOK'
    BY DEF WatchInv, WatchTypeOK, Fire, Dispatch, files, observer, outputs
  <1>3. CountInv' /\ AgeInv'
    BY DEF WatchInv, CountInv, AgeInv, Fire, Dispatch, files, observer, outputs
  <1>4. EventInv' /\ OverrideInv'
    BY <1>1 DEF WatchInv, EventInv, OverrideInv, Fire, Dispatch, files, observer
  <1>5. ConfigInv'
    BY <1>1
    DEF WatchInv, ConfigInv, StaleConfig, Fire, Dispatch, files, observer,
        outputs
  <1>6. FileInv'
    BY DEF WatchInv, FileInv, Due, Reported, Held, Fire, Dispatch, files, observer,
           outputs
  <1>7. RemappedInv'
    BY <1>1
    DEF WatchInv, RemappedInv, StaleConfig, Expected, Held, Fire, Dispatch,
        files, observer, outputs
  <1>8. DocInv'
    BY DEF WatchInv, DocInv, Reported, Held, Fire, Dispatch, files, observer, outputs
  <1>. QED BY <1>2, <1>3, <1>4, <1>5, <1>6, <1>7, <1>8 DEF WatchInv

(* The batch has what there was. *)
LEMMA WatchListKeeps == ASSUME WatchInv, List PROVE WatchInv'
  <1>1. /\ ConfigQueued' <=> ConfigQueued
        /\ \A f : (Queued(f)' <=> Queued(f)) /\ (LastQueued(f)' <=> LastQueued(f))
    BY InboxStays DEF List, Dispatch, observer
  <1>2. WatchTypeOK'
    BY DEF WatchInv, WatchTypeOK, List, Dispatch, files, observer, outputs, shared
  <1>3. CountInv' /\ AgeInv'
    BY DEF WatchInv, CountInv, AgeInv, List, Dispatch, files, observer, outputs
  <1>4. EventInv' /\ OverrideInv'
    BY <1>1 DEF WatchInv, EventInv, OverrideInv, List, Dispatch, files, observer, shared
  <1>5. ConfigInv'
    BY <1>1
    DEF WatchInv, ConfigInv, StaleConfig, List, Dispatch, files, observer,
        outputs, shared
  <1>6. FileInv'
    BY DEF WatchInv, FileInv, Due, Reported, Held, List, Dispatch, files, observer,
           outputs
  <1>7. RemappedInv'
    BY <1>1
    DEF WatchInv, RemappedInv, StaleConfig, Expected, Held, List, Dispatch,
        files, observer, outputs, shared
  <1>8. DocInv'
    BY DEF WatchInv, DocInv, Reported, Held, List, Dispatch, files, observer, outputs
  <1>. QED BY <1>2, <1>3, <1>4, <1>5, <1>6, <1>7, <1>8 DEF WatchInv

(* What came after the list was made is missed. *)
LEMMA WatchClearKeeps == ASSUME WatchInv, Clear PROVE WatchInv'
  <1>1. /\ ConfigQueued' <=> ConfigQueued
        /\ \A f : (Queued(f)' <=> Queued(f)) /\ (LastQueued(f)' <=> LastQueued(f))
    BY InboxStays DEF Clear, Dispatch, observer
  <1>2. WatchTypeOK'
    BY DEF WatchInv, WatchTypeOK, Clear, Dispatch, files, observer, outputs
  <1>3. CountInv' /\ AgeInv'
    BY DEF WatchInv, CountInv, AgeInv, Clear, Dispatch, files, observer, outputs
  <1>4. EventInv' /\ OverrideInv'
    BY <1>1 DEF WatchInv, EventInv, OverrideInv, Clear, Dispatch, files, observer
  <1>5. ConfigInv'
    BY <1>1
    DEF WatchInv, ConfigInv, StaleConfig, Clear, Dispatch, files, observer,
        outputs
  <1>6. FileInv'
    BY DEF WatchInv, FileInv, Due, Reported, Held, Clear, Dispatch, files, observer,
           outputs
  <1>7. RemappedInv'
    BY <1>1
    DEF WatchInv, RemappedInv, StaleConfig, Expected, Held, Clear, Dispatch,
        files, observer, outputs
  <1>8. DocInv'
    BY DEF WatchInv, DocInv, Reported, Held, Clear, Dispatch, files, observer, outputs
  <1>. QED BY <1>2, <1>3, <1>4, <1>5, <1>6, <1>7, <1>8 DEF WatchInv

(* The load: config_event says what config_changed said. *)
LEMMA WatchAskKeeps == ASSUME WatchInv, Ask PROVE WatchInv'
  <1>1. /\ ConfigQueued' <=> ConfigQueued
        /\ \A f : (Queued(f)' <=> Queued(f)) /\ (LastQueued(f)' <=> LastQueued(f))
    BY InboxStays DEF Ask, Dispatch, observer
  <1>2. WatchTypeOK'
    BY DEF WatchInv, WatchTypeOK, Ask, Dispatch, files, observer, outputs, shared
  <1>3. CountInv' /\ AgeInv'
    BY DEF WatchInv, CountInv, AgeInv, Ask, Dispatch, files, observer, outputs
  <1>4. EventInv' /\ OverrideInv'
    BY <1>1 DEF WatchInv, EventInv, OverrideInv, Ask, Dispatch, files, observer, shared
  <1>5. ConfigInv'
    BY <1>1
    DEF WatchInv, ConfigInv, StaleConfig, Ask, Dispatch, files, observer, outputs
  <1>6. FileInv'
    BY DEF WatchInv, FileInv, Due, Reported, Held, Ask, Dispatch, files, observer,
           outputs, shared
  <1>7. RemappedInv'
    BY <1>1
    DEF WatchInv, RemappedInv, StaleConfig, Expected, Held, Ask, Dispatch, files,
        observer, outputs, shared
  <1>8. DocInv'
    BY DEF WatchInv, DocInv, Reported, Held, Ask, Dispatch, files, observer, outputs,
           shared
  <1>. QED BY <1>2, <1>3, <1>4, <1>5, <1>6, <1>7, <1>8 DEF WatchInv

(* The store: what was set in between is missed. *)
LEMMA WatchUnsetKeeps == ASSUME WatchInv, Unset PROVE WatchInv'
  <1>1. /\ ConfigQueued' <=> ConfigQueued
        /\ \A f : (Queued(f)' <=> Queued(f)) /\ (LastQueued(f)' <=> LastQueued(f))
    BY InboxStays DEF Unset, Dispatch, observer
  <1>2. WatchTypeOK'
    BY DEF WatchInv, WatchTypeOK, Unset, Dispatch, files, observer, outputs
  <1>3. CountInv' /\ AgeInv'
    BY DEF WatchInv, CountInv, AgeInv, Unset, Dispatch, files, observer, outputs
  <1>4. EventInv' /\ OverrideInv'
    BY <1>1 DEF WatchInv, EventInv, OverrideInv, Unset, Dispatch, files, observer
  <1>5. ConfigInv'
    BY <1>1
    DEF WatchInv, ConfigInv, StaleConfig, Unset, Dispatch, files, observer,
        outputs
  <1>6. FileInv'
    BY DEF WatchInv, FileInv, Due, Reported, Held, Unset, Dispatch, files, observer,
           outputs
  <1>7. RemappedInv'
    BY <1>1
    DEF WatchInv, RemappedInv, StaleConfig, Expected, Held, Unset, Dispatch,
        files, observer, outputs
  <1>8. DocInv'
    BY DEF WatchInv, DocInv, Reported, Held, Unset, Dispatch, files, observer, outputs
  <1>. QED BY <1>2, <1>3, <1>4, <1>5, <1>6, <1>7, <1>8 DEF WatchInv

(* A batch with anything due, or an event of the config, is rebuilt. *)
LEMMA WatchDecideKeeps == ASSUME WatchInv, Decide PROVE WatchInv'
  <1>1. /\ ConfigQueued' <=> ConfigQueued
        /\ \A f : (Queued(f)' <=> Queued(f)) /\ (LastQueued(f)' <=> LastQueued(f))
    BY InboxStays DEF Decide, Dispatch, observer
  <1>2. WatchTypeOK'
    BY DEF WatchInv, WatchTypeOK, Decide, Dispatch, files, observer, outputs, shared
  <1>3. CountInv' /\ AgeInv'
    BY DEF WatchInv, CountInv, AgeInv, Decide, Dispatch, files, observer, outputs
  <1>4. EventInv' /\ OverrideInv'
    BY <1>1
    DEF WatchInv, EventInv, OverrideInv, Decide, Dispatch, files, observer,
        shared
  <1>5. ConfigInv'
    BY <1>1
    DEF WatchInv, ConfigInv, StaleConfig, Decide, Dispatch, files, observer,
        outputs, shared
  <1>6. FileInv'
    <2>1. \A f \in batch : Due(f) => dpc' = "extract"
      BY DEF Decide, Dispatch, TriggersRebuild, IsCode, Due
    <2>. QED BY <2>1
             DEF WatchInv, FileInv, Due, Reported, Held, Decide, Dispatch, files,
                 observer, outputs, shared
  <1>7. RemappedInv'
    <2>1. \A f \in batch \cap Remapped : Mapped(override_snapshot) => dpc' = "extract"
      BY DEF Decide, Dispatch, TriggersRebuild, IsCode
    <2>. QED BY <1>1, <2>1 DEF WatchInv, RemappedInv, StaleConfig, Expected, Held, Decide, Dispatch, files, observer, outputs, shared
  <1>8. DocInv'
    BY DEF WatchInv, DocInv, Reported, Held, Decide, Dispatch, files, observer,
           outputs, shared
  <1>. QED BY <1>2, <1>3, <1>4, <1>5, <1>6, <1>7, <1>8 DEF WatchInv

(* The rebuild reads the files as they are. *)
LEMMA WatchExtractKeeps == ASSUME WatchInv, Extract PROVE WatchInv'
  <1>1. /\ inbox' \in Seq(Events \cup Echoes)
        /\ ConfigQueued' <=> ConfigQueued
        /\ \A f \in Files : (Queued(f)' <=> Queued(f)) /\ (LastQueued(f) => LastQueued(f)')
    BY HearKeeps DEF Extract, DispatchAloud, Echoes, WatchInv, WatchTypeOK
  <1>r. \A f \in Files : Reported(f)' <=> Reported(f)
    BY <1>1 DEF Extract, DispatchAloud, Queued, Reported
  <1>2. WatchTypeOK'
    BY <1>1 DEF WatchInv, WatchTypeOK, Extract, DispatchAloud, files, observer, outputs, shared
  <1>3. CountInv' /\ AgeInv'
    <2>1. config \in Nat /\ graphConfig \in Nat /\ disk \in Versions /\ graph \in Versions
      BY DEF WatchInv, WatchTypeOK
    <2>2. \A f \in Files : disk[f] \in Nat /\ graph[f] \in Nat
      BY <2>1 DEF Versions
    <2>. QED BY <2>1, <2>2
             DEF WatchInv, CountInv, AgeInv, Extract, DispatchAloud, files, observer,
                 outputs
  <1>4. EventInv' /\ OverrideInv'
    BY <1>1
    DEF WatchInv, EventInv, OverrideInv, Extract, DispatchAloud, files, observer,
        shared
  <1>5. ConfigInv'
    BY DEF ConfigInv, Extract, DispatchAloud, files
  <1>6. FileInv'
    BY DEF FileInv, Extract, DispatchAloud, files
  <1>7. RemappedInv'
    BY DEF RemappedInv, Extract, DispatchAloud, files
  <1>8. DocInv'
    BY <1>r DEF WatchInv, DocInv, Files, Held, Extract, DispatchAloud, files, observer,
           outputs, shared
  <1>. QED BY <1>2, <1>3, <1>4, <1>5, <1>6, <1>7, <1>8 DEF WatchInv

(* What has changed since the rebuild read it is held or reported. *)
LEMMA WatchPublishKeeps == ASSUME WatchInv, Publish PROVE WatchInv'
  <1>1. /\ inbox' \in Seq(Events \cup Echoes)
        /\ ConfigQueued' <=> ConfigQueued
        /\ \A f \in Files : (Queued(f)' <=> Queued(f)) /\ (LastQueued(f) => LastQueued(f)')
    BY HearKeeps DEF Publish, DispatchAloud, Echoes, WatchInv, WatchTypeOK
  <1>r. \A f \in Files : Reported(f)' <=> Reported(f)
    BY <1>1 DEF Publish, DispatchAloud, Queued, Reported
  <1>2. WatchTypeOK'
    BY <1>1 DEF WatchInv, WatchTypeOK, Publish, DispatchAloud, files, observer, shared
  <1>3. CountInv' /\ AgeInv'
    BY DEF WatchInv, CountInv, AgeInv, Publish, DispatchAloud, files, observer
  <1>4. EventInv' /\ OverrideInv'
    BY <1>1
    DEF WatchInv, EventInv, OverrideInv, Publish, DispatchAloud, files, observer,
        shared
  <1>5. ConfigInv'
    <2>1. RC \in missed => RC \in missed' \/ seenConfig = config
      BY FilesAssumption DEF Publish
    <2>2. seenConfig # config => StaleConfig
      <3>1. graphConfig \in Int /\ seenConfig \in Int /\ config \in Int
        BY DEF WatchInv, WatchTypeOK
      <3>. QED BY <3>1 DEF WatchInv, AgeInv, StaleConfig, Publish
    <2>. QED BY <1>1, <2>1, <2>2
             DEF WatchInv, ConfigInv, StaleConfig, Publish, DispatchAloud, files,
                 observer, shared
  <1>6. FileInv'
    <2> SUFFICES ASSUME NEW f \in (Code \cup Docs) \ missed', Due(f), seen[f] # disk[f]
                 PROVE  Reported(f) \/ Held(f)
      BY <1>r DEF FileInv, Due, Files, Held, Publish, DispatchAloud, files, observer, shared
    <2>1. f \in Files /\ f \notin missed
      BY FilesAssumption DEF Publish, Files
    <2>2. graph[f] # disk[f]
      <3>1. graph[f] \in Int /\ seen[f] \in Int /\ disk[f] \in Int
        BY <2>1 DEF WatchInv, WatchTypeOK, Versions
      <3>. QED BY <2>1, <3>1 DEF WatchInv, AgeInv, Publish
    <2>. QED BY <2>1, <2>2 DEF WatchInv, FileInv, Publish
  <1>7. RemappedInv'
    <2> SUFFICES ASSUME Mapped(config), NEW f \in Remapped \ missed', seenConfig = config,
                        seen[f] # disk[f]
                 PROVE  Expected(f)
      BY <1>1
      DEF RemappedInv, StaleConfig, Files, Expected, Held, Publish, DispatchAloud, files,
          observer, shared
    <2>1. f \notin missed
      BY FilesAssumption DEF Publish, Files
    <2>. QED BY <2>1 DEF WatchInv, RemappedInv, Publish
  <1>8. DocInv'
    <2>1. \A f \in Docs \cap present : f \notin missed' => f \notin missed
      BY FilesAssumption DEF Publish, Files
    <2>. QED BY <1>r, <2>1
             DEF WatchInv, DocInv, Files, Held, Publish, DispatchAloud, files,
                 observer, shared
  <1>. QED BY <1>2, <1>3, <1>4, <1>5, <1>6, <1>7, <1>8 DEF WatchInv

(* Everything due counts as missed. *)
LEMMA WatchFailKeeps == ASSUME WatchInv, Fail PROVE WatchInv'
  <1>1. /\ inbox' \in Seq(Events \cup Echoes)
        /\ ConfigQueued' <=> ConfigQueued
        /\ \A f \in Files : (Queued(f)' <=> Queued(f)) /\ (LastQueued(f) => LastQueued(f)')
    BY HearKeeps DEF Fail, DispatchAloud, Echoes, WatchInv, WatchTypeOK
  <1>r. \A f \in Files : Reported(f)' <=> Reported(f)
    BY <1>1 DEF Fail, DispatchAloud, Queued, Reported
  <1>2. WatchTypeOK'
    <2>1. Stale \subseteq Files
      BY DEF Stale, Lacks, Files
    <2>. QED BY <1>1, <2>1 DEF WatchInv, WatchTypeOK, Fail, DispatchAloud, files, observer, outputs, shared
  <1>3. CountInv' /\ AgeInv'
    BY DEF WatchInv, CountInv, AgeInv, Fail, DispatchAloud, files, observer, outputs
  <1>4. EventInv' /\ OverrideInv'
    BY <1>1 DEF WatchInv, EventInv, OverrideInv, Fail, DispatchAloud, files, observer, shared
  <1>5. ConfigInv'
    BY DEF ConfigInv, StaleConfig, Fail, DispatchAloud, files, outputs
  <1>6. FileInv'
    <2>1. \A f \in Code \cup Docs : Due(f) /\ graph[f] # disk[f] => f \in missed'
      BY DEF Due, Stale, Lacks, Fail
    <2>. QED BY <2>1 DEF FileInv, Due, Fail, DispatchAloud, files, outputs
  <1>7. RemappedInv'
    <2>1. Mapped(config) => \A f \in Remapped : graph[f] # disk[f] => f \in missed'
      BY DEF Stale, Lacks, Fail
    <2>. QED BY <2>1 DEF RemappedInv, Fail, DispatchAloud, files, outputs
  <1>8. DocInv'
    BY <1>r DEF WatchInv, DocInv, Files, Held, Fail, DispatchAloud, files, observer,
           outputs, shared
  <1>. QED BY <1>2, <1>3, <1>4, <1>5, <1>6, <1>7, <1>8 DEF WatchInv

(* The documents of the batch are flagged. *)
LEMMA WatchNotifyKeeps == ASSUME WatchInv, Notify PROVE WatchInv'
  <1>1. /\ ConfigQueued' <=> ConfigQueued
        /\ \A f : (Queued(f)' <=> Queued(f)) /\ (LastQueued(f)' <=> LastQueued(f))
    BY InboxStays DEF Notify, Dispatch, observer
  <1>2. WatchTypeOK'
    BY DEF WatchInv, WatchTypeOK, Notify, Dispatch, files, observer, shared
  <1>3. CountInv' /\ AgeInv'
    BY DEF WatchInv, CountInv, AgeInv, Notify, Dispatch, files, observer
  <1>4. EventInv' /\ OverrideInv'
    BY <1>1
    DEF WatchInv, EventInv, OverrideInv, Notify, Dispatch, files, observer,
        shared
  <1>5. ConfigInv'
    BY <1>1
    DEF WatchInv, ConfigInv, StaleConfig, Notify, Dispatch, files, observer,
        shared
  <1>6. FileInv'
    BY DEF WatchInv, FileInv, Due, Reported, Held, Notify, Dispatch, files, observer,
           shared
  <1>7. RemappedInv'
    BY <1>1
    DEF WatchInv, RemappedInv, StaleConfig, Expected, Held, Notify, Dispatch,
        files, observer, shared
  <1>8. DocInv'
    <2>1. \A f \in Docs \cap present : f \in batch => needsUpdate'
      <3>1. \A f \in Docs : ~IsCode(f, overrides)
        BY FilesAssumption DEF IsCode
      <3>. QED BY <3>1 DEF Notify, NeedsFlag
    <2>2. needsUpdate => needsUpdate'
      BY DEF Notify
    <2>. QED BY <2>1
             DEF WatchInv, DocInv, Reported, Held, Notify, Dispatch, files,
                 observer, shared
  <1>. QED BY <1>2, <1>3, <1>4, <1>5, <1>6, <1>7, <1>8 DEF WatchInv

(* Nothing has changed yet. *)
LEMMA WatchInitially == WatchInit => WatchInv
  <1> SUFFICES ASSUME WatchInit PROVE WatchInv
    OBVIOUS
  <1>1. 0 \in 0..MaxChanges
    BY BoundsAssumption
  <1>2. WatchTypeOK
    <2>1. [f \in Files |-> 0] \in Versions
      BY <1>1 DEF Versions
    <2>2. inbox \in Seq(Events \cup Echoes)
      BY DEF WatchInit
    <2>3. disk \in Versions /\ graph \in Versions /\ seen \in Versions
      BY <2>1 DEF WatchInit
    <2>4. event \in Events \cup {NoEvent}
      BY DEF WatchInit
    <2>5. {changes, config, graphConfig, seenConfig, override_snapshot, overrides}
            \subseteq 0..MaxChanges
      BY <1>1 DEF WatchInit
    <2>6. {needsUpdate, quiet, pending, config_changed, config_event} \subseteq BOOLEAN
      BY DEF WatchInit
    <2>7. /\ changed = {} /\ batch = {} /\ missed = {} /\ present \in SUBSET Files
          /\ opc = "idle" /\ dpc = "sleep"
      BY DEF WatchInit
    <2>. QED BY <2>2, <2>3, <2>4, <2>5, <2>6, <2>7, BoundsAssumption DEF WatchTypeOK
  <1>3. CountInv /\ AgeInv /\ EventInv /\ OverrideInv /\ ConfigInv
    BY DEF WatchInit, CountInv, AgeInv, EventInv, OverrideInv, ConfigInv, StaleConfig
  <1>4. FileInv /\ RemappedInv /\ DocInv
    BY DEF WatchInit, FileInv, RemappedInv, DocInv
  <1>. QED BY <1>2, <1>3, <1>4 DEF WatchInv

(* An event is dropped only if the overrides say so, and if they are not   *)
(* the present ones another event will rebuild.                            *)
LEMMA WatchTakeKeeps == ASSUME WatchInv, Take PROVE WatchInv'
  <1> DEFINE e == Head(inbox)
  <1>1. /\ e \in Events \cup Echoes
        /\ ConfigQueued => ConfigQueued' \/ AboutConfig(e)
        /\ ConfigQueued' => ConfigQueued
        /\ \A f : Queued(f) => Queued(f)' \/ f \in Names(e)
        /\ \A f : LastQueued(f) =>
             LastQueued(f)' \/ (f \in Names(e) /\ ~ConfigQueued)
    BY InboxShrinks DEF Take, WatchInv, WatchTypeOK
  <1>2. /\ AboutConfig(e) \/ Heeded(e) => e \in Events
        /\ Names(e) \cap Files \subseteq {e.src, e.dest}
        /\ AboutConfig(e) => Names(e) \cap Files = {}
        /\ \A f \in Names(e) \cap Files : f = e.src \/ f = e.dest
        /\ \A f \in Names(e) \cap Files : ~ReadOnly(e) /\ f # Out
    BY <1>1, EventIs, EchoIs, FilesAssumption
  <1>3. UNCHANGED <<files, outputs, dispatch, shared>>
    BY DEF Take, Observe
  <1>4. /\ opc = "idle" /\ missed' = missed \cup ({e.dest} \cap Files)
        /\ \/ AboutConfig(e) /\ event' = e /\ opc' = "override"
           \/ ~AboutConfig(e) /\ Heeded(e) /\ event' = e /\ opc' = "trigger"
           \/ ~AboutConfig(e) /\ ~Heeded(e) /\ event' = event /\ opc' = "idle"
    BY DEF Take, Observe
  <1>5. WatchTypeOK' /\ CountInv'
    <2>1. inbox' \in Seq(Events \cup Echoes)
      BY DEF Take, WatchInv, WatchTypeOK
    <2>3. WatchTypeOK'
      BY <1>2, <1>3, <1>4, <2>1
      DEF WatchInv, WatchTypeOK, files, outputs, dispatch, shared
    <2>4. CountInv'
      BY <1>3 DEF WatchInv, CountInv, files
    <2>. QED BY <2>3, <2>4
  <1>6. AgeInv'
    BY <1>3 DEF WatchInv, AgeInv, files, outputs, dispatch
  <1>7. EventInv'
    <2>1. Heeded(e) => e.src \in Files
      BY DEF Heeded, Watched, WatchedSuffix, Files
    <2>. QED BY <1>2, <1>4, <2>1 DEF EventInv
  <1>8. OverrideInv' /\ ConfigInv'
    BY <1>1, <1>3, <1>4
    DEF WatchInv, OverrideInv, ConfigInv, StaleConfig, files, outputs, dispatch,
        shared
  <1>9. FileInv' /\ DocInv'
    <2>1. \A f \in (Code \cup Docs) \ missed' : Reported(f) => Reported(f)'
      <3>1. \A f \in Code \cup Docs : WatchedSuffix(f, override_snapshot) /\ f \in Files
        BY DEF WatchedSuffix, Files
      <3>2. \A f \in Code \cup Docs : f \in Names(e) /\ f = e.src => Heeded(e)
        BY <1>2, <3>1 DEF Heeded, Watched
      <3>. QED BY <1>1, <1>2, <1>4, <3>1, <3>2 DEF Reported, Queued
    <2>. QED BY <1>3, <1>4, <2>1 DEF WatchInv, FileInv, DocInv, Due, Held,
       files, outputs, dispatch, shared
  <1>10. RemappedInv'
    <2>1. ASSUME Mapped(config), NEW f \in Remapped \ missed', Expected(f)
          PROVE  Expected(f)'
      <3>1. f \in Files
        BY DEF Files
      <3>2. override_snapshot = config => WatchedSuffix(f, override_snapshot)
        BY <2>1 DEF WatchedSuffix
      <3>3. CASE LastQueued(f)'
        BY <3>3 DEF Expected
      <3>4. CASE f \in Names(e) /\ ~ConfigQueued
        <4>1. override_snapshot = config
          BY <1>4, <3>4 DEF WatchInv, OverrideInv
        <4>2. f = e.src /\ ~AboutConfig(e)
          BY <1>2, <1>4, <3>1, <3>4
        <4>3. Heeded(e)
          BY <1>2, <3>1, <3>2, <3>4, <4>1, <4>2 DEF Heeded, Watched
        <4>. QED BY <1>1, <1>4, <3>4, <4>2, <4>3 DEF Expected
      <3>5. CASE Held(f) /\ override_snapshot = config
        BY <1>3, <3>5 DEF Expected, Held, files, dispatch, shared
      <3>. QED BY <1>1, <1>4, <2>1, <3>4, <3>5 DEF Expected
    <2>. QED BY <1>3, <1>4, <2>1
             DEF WatchInv, RemappedInv, StaleConfig, files, outputs, dispatch
  <1>. QED BY <1>5, <1>6, <1>7, <1>8, <1>9, <1>10 DEF WatchInv

(* A change of files S, or of the overrides, reported by e. *)
LEMMA WatchReportKeeps ==
  ASSUME WatchInv, NEW e \in Events, Report(e), NEW S \in SUBSET Files, Touched(S),
         S \subseteq Names(e),
         config' = IF AboutConfig(e) THEN config + 1 ELSE config,
         present' \in SUBSET Files,
         \A f \in Files \ S : f \in present' <=> f \in present
  PROVE  WatchInv'
  <1>1. /\ ConfigQueued' <=> ConfigQueued \/ AboutConfig(e)
        /\ \A f : Queued(f)' <=> Queued(f) \/ f \in Names(e)
        /\ ~AboutConfig(e) =>
             \A f : LastQueued(f) \/ f \in Names(e) => LastQueued(f)'
    BY InboxGrows DEF Report, WatchInv, WatchTypeOK
  <1>2. UNCHANGED <<outputs, shared, event, opc, dispatch, missed>>
    BY DEF Report
  <1>3. /\ changes \in 0..MaxChanges /\ changes' = changes + 1 /\ changes' \in 0..MaxChanges
        /\ config \in Nat /\ graphConfig \in Nat /\ seenConfig \in Nat
        /\ \A f \in Files : disk[f] \in Nat /\ graph[f] \in Nat /\ seen[f] \in Nat
    BY BoundsAssumption DEF Report, WatchInv, WatchTypeOK, Versions
  <1>4. \A f \in Files : disk'[f] = IF f \in S THEN disk[f] + 1 ELSE disk[f]
    BY DEF Touched
  <1>5. CountInv'
    BY <1>3, <1>4 DEF WatchInv, CountInv
  <1>6. WatchTypeOK'
    <2>1. inbox' \in Seq(Events \cup Echoes)
      BY DEF Report, WatchInv, WatchTypeOK
    <2>2. config' \in 0..MaxChanges
      BY <1>3, <1>5, BoundsAssumption DEF CountInv
    <2>3. disk' \in Versions
      <3>1. \A f \in Files : disk'[f] \in 0..MaxChanges
        BY <1>3, <1>4, <1>5, BoundsAssumption DEF CountInv
      <3>. QED BY <3>1 DEF Versions, Touched
    <2>. QED BY <1>2, <1>3, <2>1, <2>2, <2>3
         DEF WatchInv, WatchTypeOK, outputs, shared, dispatch
  <1>7. AgeInv'
    BY <1>2, <1>3, <1>4 DEF WatchInv, AgeInv, outputs, dispatch
  <1>8. EventInv' /\ OverrideInv'
    BY <1>1, <1>2 DEF WatchInv, EventInv, OverrideInv, shared
  <1>9. ConfigInv'
    BY <1>1, <1>2 DEF WatchInv, ConfigInv, StaleConfig, outputs, shared, dispatch
  <1>10. FileInv' /\ DocInv'
    <2>1. \A f : Reported(f) \/ f \in S => Reported(f)'
      BY <1>1, <1>2 DEF Reported, Queued
    <2>2. \A f \in Files \ S : disk'[f] = disk[f]
      BY <1>4
    <2>. QED BY <1>2, <2>1, <2>2 DEF WatchInv, FileInv, DocInv, Due, Held, Files,
         outputs, shared, dispatch
  <1>11. RemappedInv'
    <2>1. CASE AboutConfig(e)
      <3>1. StaleConfig' /\ (dpc' = "publish" => seenConfig' # config')
        BY <1>2, <1>3, <2>1 DEF WatchInv, AgeInv, StaleConfig, outputs, dispatch
      <3>. QED BY <3>1 DEF RemappedInv
    <2>2. CASE ~AboutConfig(e)
      <3>1. \A f : Expected(f) \/ f \in S => Expected(f)'
        BY <1>1, <1>2, <2>2 DEF Expected, Held, shared, dispatch
      <3>2. \A f \in Files \ S : disk'[f] = disk[f]
        BY <1>4
      <3>. QED BY <1>2, <2>2, <3>1, <3>2
               DEF WatchInv, RemappedInv, StaleConfig, Files, outputs, dispatch
    <2>. QED BY <2>1, <2>2
  <1>. QED BY <1>5, <1>6, <1>7, <1>8, <1>9, <1>10, <1>11 DEF WatchInv

(* Every change is such a change. *)
LEMMA WatchChangeKeeps == ASSUME WatchInv, Change PROVE WatchInv'
  <1>0. present \in SUBSET Files
    BY DEF WatchInv, WatchTypeOK
  <1>1. ASSUME NEW f \in Files, Write(f) \/ Delete(f) PROVE WatchInv'
    <2> DEFINE e == Changed(f, NoFile)
    <2>1. e \in Events /\ ~AboutConfig(e) /\ {f} \subseteq Names(e)
      BY FilesAssumption DEF Events, AboutConfig, Names, ReadOnly, Changed
    <2>2. Report(e) /\ Touched({f}) /\ config' = config
      BY <1>1 DEF Write, Delete
    <2>3. present' \in SUBSET Files /\ \A g \in Files \ {f} : g \in present' <=> g \in present
      BY <1>0, <1>1 DEF Write, Delete
    <2>. HIDE DEF e
    <2>. QED BY <2>1, <2>2, <2>3, WatchReportKeeps
  <1>2. ASSUME NEW f \in Files, Replace(f) PROVE WatchInv'
    <2> DEFINE e == Changed(Temp, f)
    <2>1. e \in Events /\ ~AboutConfig(e) /\ {f} \subseteq Names(e)
      BY FilesAssumption DEF Events, AboutConfig, Names, ReadOnly, Changed
    <2>2. Report(e) /\ Touched({f}) /\ config' = config
      BY <1>2 DEF Replace
    <2>3. present' \in SUBSET Files /\ \A g \in Files \ {f} : g \in present' <=> g \in present
      BY <1>0, <1>2 DEF Replace
    <2>. HIDE DEF e
    <2>. QED BY <2>1, <2>2, <2>3, WatchReportKeeps
  <1>3. ASSUME NEW f \in Files, NEW g \in Files, Move(f, g) PROVE WatchInv'
    <2> DEFINE e == Changed(f, g)
    <2>1. e \in Events /\ ~AboutConfig(e) /\ {f, g} \subseteq Names(e)
      BY FilesAssumption DEF Events, AboutConfig, Names, ReadOnly, Changed
    <2>2. Report(e) /\ Touched({f, g}) /\ config' = config
      BY <1>3 DEF Move
    <2>3. /\ present' \in SUBSET Files
          /\ \A h \in Files \ {f, g} : h \in present' <=> h \in present
      BY <1>0, <1>3 DEF Move
    <2>. HIDE DEF e
    <2>. QED BY <2>1, <2>2, <2>3, WatchReportKeeps
  <1>4. ASSUME NEW e \in {Changed(RC, NoFile), Changed(Temp, RC)},
               Configure(e)
        PROVE  WatchInv'
    <2>1. e \in Events /\ AboutConfig(e) /\ {} \subseteq Names(e)
      BY DEF Events, AboutConfig, Names, ReadOnly, Changed
    <2>2. Report(e) /\ config' = config + 1 /\ UNCHANGED <<disk, present>>
      BY <1>4 DEF Configure
    <2>3. Touched({})
      BY <2>2 DEF Touched, WatchInv, WatchTypeOK, Versions
    <2>. QED BY <1>0, <2>1, <2>2, <2>3, WatchReportKeeps
  <1>. QED BY <1>1, <1>2, <1>3, <1>4 DEF Change

(* Nothing else happens. *)
LEMMA WatchNextInv == WatchInv /\ [WatchNext]_watchVars => WatchInv'
  <1> SUFFICES ASSUME WatchInv, [WatchNext]_watchVars PROVE WatchInv'
    OBVIOUS
  <1>1. CASE Change \/ Tick
    BY <1>1, WatchChangeKeeps, WatchTickKeeps
  <1>2. CASE Observer
    BY <1>2, WatchTakeKeeps, WatchOverrideKeeps, WatchFlagKeeps, WatchTriggerKeeps,
       WatchPendKeeps, WatchAddKeeps DEF Observer
  <1>3. CASE Dispatcher \/ Fail
    BY <1>3, WatchWakeKeeps, WatchFireKeeps, WatchListKeeps, WatchClearKeeps, WatchAskKeeps,
       WatchUnsetKeeps, WatchDecideKeeps, WatchExtractKeeps, WatchPublishKeeps,
       WatchFailKeeps, WatchNotifyKeeps DEF Dispatcher
  <1>4. CASE UNCHANGED watchVars
    <2>1. /\ ConfigQueued' <=> ConfigQueued
          /\ \A f : (Queued(f)' <=> Queued(f)) /\ (LastQueued(f)' <=> LastQueued(f))
      BY <1>4, InboxStays DEF watchVars, observer
    <2>2. WatchTypeOK' /\ CountInv' /\ AgeInv' /\ EventInv'
      BY <1>4
      DEF WatchInv, WatchTypeOK, CountInv, AgeInv, EventInv, watchVars, files,
          outputs, shared, observer, dispatch
    <2>3. OverrideInv' /\ ConfigInv'
      BY <1>4, <2>1
      DEF WatchInv, OverrideInv, ConfigInv, StaleConfig, watchVars, files,
          outputs, shared, observer, dispatch
    <2>4. FileInv' /\ RemappedInv' /\ DocInv'
      BY <1>4, <2>1
      DEF WatchInv, FileInv, RemappedInv, DocInv, StaleConfig, Due, Expected,
          Reported, Held, watchVars, files, outputs, shared, observer, dispatch
    <2>. QED BY <2>2, <2>3, <2>4 DEF WatchInv
  <1>. QED BY <1>1, <1>2, <1>3, <1>4 DEF WatchNext

-----------------------------------------------------------------------------
(* The inductive invariant of watch() holds of every reachable state. *)
THEOREM WatchInvariance == WatchSpec => []WatchInv
  BY WatchInitially, WatchNextInv, PTL DEF WatchSpec

(* Every variable keeps its type. *)
THEOREM WatchTypeCorrect == WatchSpec => []WatchTypeOK
  <1>1. WatchInv => WatchTypeOK
    BY DEF WatchInv
  <1>. QED BY WatchInvariance, <1>1, PTL

(* OnlyKnownMisses: whatever the two threads of watch() interleave, every  *)
(* change that graph.json lacks is reported, collected or being rebuilt,   *)
(* or is one of the known misses; for any files, events and changes of the *)
(* overrides.                                                              *)
THEOREM OnlyKnownMissesHolds == WatchSpec => []OnlyKnownMisses
  <1> SUFFICES ASSUME WatchInv PROVE OnlyKnownMisses
    BY WatchInvariance, PTL
  <1>1. ConfigQueued \/ opc \in {"override", "flag"} => ConfigReported
    BY DEF ConfigQueued, ConfigReported, WatchInv, EventInv
  <1>2. \A f : LastQueued(f) => Reported(f)
    BY DEF LastQueued, Reported
  <1>3. ASSUME NEW f \in Stale \ missed
        PROVE  \/ Reported(f) \/ Held(f) \/ Rebuilding(f)
               \/ f \in Remapped /\ (RC \in missed \/ ConfigReported \/ ConfigHeld)
    <2>1. CASE f \in Code \cup Docs
      <3>1. f \notin Remapped
        BY <2>1, FilesAssumption
      <3>2. Due(f) /\ graph[f] # disk[f]
        BY <3>1 DEF Due, Stale, Lacks
      <3>3. seen[f] = disk[f] => f \notin Lacks(seen, seenConfig)
        BY <3>1 DEF Lacks
      <3>. QED BY <2>1, <3>2, <3>3 DEF WatchInv, FileInv, Rebuilding
    <2>2. CASE f \in Remapped
      <3>1. f \notin Code \cup Docs
        BY <2>2, FilesAssumption
      <3>2. CASE StaleConfig
        <4>1. \/ RC \in missed \/ ConfigReported \/ ConfigHeld \/ dpc = "extract"
              \/ (dpc = "publish" /\ seenConfig = config)
          BY <1>1, <3>2 DEF WatchInv, ConfigInv, ConfigReported, ConfigHeld
        <4>2. CASE dpc = "publish" /\ seenConfig = config
          <5>1. CASE Mapped(config) /\ seen[f] # disk[f]
            BY <1>2, <2>2, <4>2, <5>1 DEF WatchInv, RemappedInv, Expected, Reported
          <5>2. CASE ~(Mapped(config) /\ seen[f] # disk[f])
            BY <3>1, <4>2, <5>2 DEF Lacks, Rebuilding
          <5>. QED BY <5>1, <5>2
        <4>. QED BY <2>2, <4>1, <4>2 DEF Rebuilding
      <3>3. CASE ~StaleConfig
        <4>1. Mapped(config) /\ graph[f] # disk[f]
          BY <3>1, <3>3 DEF Stale, Lacks, StaleConfig
        <4>2. Expected(f) => Reported(f) \/ Held(f)
          BY <1>2 DEF Expected, Reported
        <4>3. dpc = "publish" => seenConfig = config
          <5>1. graphConfig \in Int /\ seenConfig \in Int /\ config \in Int
            BY DEF WatchInv, WatchTypeOK
          <5>. QED BY <3>3, <5>1 DEF WatchInv, AgeInv, StaleConfig
        <4>4. dpc = "publish" /\ seen[f] = disk[f] => Rebuilding(f)
          BY <4>3 DEF Lacks, Rebuilding
        <4>. QED BY <2>2, <3>3, <4>1, <4>2, <4>4 DEF WatchInv, RemappedInv, Rebuilding
      <3>. QED BY <3>2, <3>3
    <2>. QED BY <2>1, <2>2 DEF Stale, Lacks
  <1>. QED BY <1>3 DEF OnlyKnownMisses, WatchInv, DocInv

-----------------------------------------------------------------------------
(* The loop implements RebuildLedger for the code it watches.  What is owed*)
(* is a matter of Coming, and for code Coming is the following.            *)
CodeComing(f) == \/ Queued(f) \/ (opc # "idle" /\ f = event.src)
                 \/ Held(f) \/ dpc = "extract" \/ (dpc = "publish" /\ seen[f] = disk[f])

LEMMA ComingIs == \A f \in Code : Coming(f) <=> CodeComing(f)
  <1>1. \A f \in Code : f \notin Docs /\ f \notin Remapped
    BY FilesAssumption
  <1>2. \A f \in Code : f \in Lacks(seen, seenConfig) <=> seen[f] # disk[f]
    BY <1>1 DEF Lacks
  <1>. QED BY <1>2 DEF Coming, CodeComing, Reported, Queued, Rebuilding

LEMMA ComingIsNext == \A f \in Code : Coming(f)' <=> CodeComing(f)'
  <1>1. \A f \in Code : f \notin Docs /\ f \notin Remapped
    BY FilesAssumption
  <1>2. \A f \in Code : f \in Lacks(seen, seenConfig)' <=> seen'[f] # disk'[f]
    BY <1>1 DEF Lacks
  <1>. QED BY <1>2 DEF Coming, CodeComing, Reported, Queued, Rebuilding

(* What WatchInv says of the code files. *)
LEMMA CodeIsFile ==
  ASSUME WatchInv
  PROVE  \A f \in Code : /\ f \in Files /\ f # RC
                         /\ disk[f] \in Nat /\ graph[f] \in Nat /\ seen[f] \in Nat
                         /\ graph[f] <= disk[f]
                         /\ dpc = "publish" => graph[f] <= seen[f] /\ seen[f] <= disk[f]
  BY FilesAssumption DEF WatchInv, WatchTypeOK, Versions, AgeInv, Files

(* A step that leaves the ledger alone ...                                 *)
LEMMA CodeStutters ==
  ASSUME UNCHANGED <<disk, graph>>, missed' \cap Code = missed \cap Code,
         \A f \in Code : CodeComing(f)' <=> CodeComing(f)
  PROVE  UNCHANGED CodeLedger!ledger
  BY ComingIs, ComingIsNext DEF CodeLedger!ledger

(* ... one that takes the files in C up ...                                *)
LEMMA CodeIsTakenUp ==
  ASSUME UNCHANGED <<disk, graph>>, missed' \cap Code = missed \cap Code,
         NEW C \in SUBSET Code,
         \A f \in Code : CodeComing(f)' <=> CodeComing(f) \/ f \in C
  PROVE  CodeLedger!Next
  <1>1. CodeLedger!TakeUp(C)
    BY ComingIs, ComingIsNext DEF CodeLedger!TakeUp, CodeLedger!Behind
  <1>. QED BY <1>1 DEF CodeLedger!Next

(* ... and one that may lose those in L.                                   *)
LEMMA CodeIsLost ==
  ASSUME WatchInv, UNCHANGED <<disk, graph>>, NEW L \in SUBSET Code,
         missed' \cap Code = (missed \cap Code) \cup L,
         \A f \in Code : CodeComing(f)' => CodeComing(f),
         \A f \in Code \ L : graph[f] < disk[f] /\ CodeComing(f) => CodeComing(f)'
  PROVE  CodeLedger!Next
  <1>1. CodeLedger!Advance
    BY CodeIsFile DEF CodeLedger!Advance
  <1>2. CodeLedger!Lose(L)
    BY <1>1, ComingIs, ComingIsNext DEF CodeLedger!Lose, CodeLedger!Behind
  <1>. QED BY <1>2 DEF CodeLedger!Next

(* A change of the files S, reported by e, is a request for them.          *)
LEMMA ReportRefines ==
  ASSUME WatchInv, NEW e \in Events, Report(e), NEW S \in SUBSET Files, Touched(S),
         S = Names(e) \cap Files
  PROVE  CodeLedger!Next
  <1> DEFINE C == S \cap Code
  <1>1. \A f \in Code : f \in C <=> f \in Names(e)
    BY DEF Files
  <1>2. \A f : Queued(f)' <=> Queued(f) \/ f \in Names(e)
    BY InboxGrows DEF Report, WatchInv, WatchTypeOK
  <1>3. UNCHANGED <<outputs, shared, event, opc, dispatch, missed>>
    BY DEF Report
  <1>4. \A f \in Code : disk'[f] = IF f \in C THEN disk[f] + 1 ELSE disk[f]
    BY DEF Touched, Files
  <1>5. \A f \in Code : CodeComing(f)' <=> CodeComing(f) \/ f \in C
    BY <1>1, <1>2, <1>3, <1>4 DEF CodeComing, Held, shared, dispatch
  <1>6. \A f \in Code : Coming(f)' <=> Coming(f) \/ f \in C
    BY <1>5, ComingIs, ComingIsNext
  <1>7. UNCHANGED <<graph, missed>>
    BY <1>3 DEF outputs
  <1>8. {f \in Code : graph'[f] < disk'[f] /\ Coming(f)'}
          = {f \in Code : graph[f] < disk[f] /\ Coming(f)}
            \cup (C \cap {f \in Code : graph'[f] < disk'[f]})
    BY <1>4, <1>6, <1>7, CodeIsFile
  <1>9. CodeLedger!Request(C, C)
    BY <1>4, <1>7, <1>8 DEF CodeLedger!Request, CodeLedger!Behind
  <1>. QED BY <1>9 DEF CodeLedger!Next

(* Every change is such a change. *)
LEMMA ChangeRefines == ASSUME WatchInv, Change PROVE CodeLedger!Next
  <1>1. ASSUME NEW f \in Files, Write(f) \/ Delete(f) PROVE CodeLedger!Next
    <2> DEFINE e == Changed(f, NoFile)
    <2>1. e \in Events
      BY DEF Events
    <2>0. Names(e) = {f, NoFile}
      BY DEF Names, ReadOnly, Changed
    <2>2. {f} = Names(e) \cap Files
      BY <2>0, FilesAssumption
    <2>3. Report(e) /\ Touched({f})
      BY <1>1 DEF Write, Delete
    <2>. HIDE DEF e
    <2>. QED BY <2>1, <2>2, <2>3, ReportRefines
  <1>2. ASSUME NEW f \in Files, Replace(f) PROVE CodeLedger!Next
    <2> DEFINE e == Changed(Temp, f)
    <2>1. e \in Events /\ {f} = Names(e) \cap Files
      BY FilesAssumption DEF Events, Names, ReadOnly, Changed
    <2>2. Report(e) /\ Touched({f})
      BY <1>2 DEF Replace
    <2>. HIDE DEF e
    <2>. QED BY <2>1, <2>2, ReportRefines
  <1>3. ASSUME NEW f \in Files, NEW g \in Files, Move(f, g) PROVE CodeLedger!Next
    <2> DEFINE e == Changed(f, g)
    <2>1. e \in Events /\ {f, g} = Names(e) \cap Files
      BY DEF Events, Names, ReadOnly, Changed
    <2>2. Report(e) /\ Touched({f, g})
      BY <1>3 DEF Move
    <2>. HIDE DEF e
    <2>. QED BY <2>1, <2>2, ReportRefines
  <1>4. ASSUME NEW e \in {Changed(RC, NoFile), Changed(Temp, RC)},
               Configure(e)
        PROVE  CodeLedger!Next
    <2>1. e \in Events /\ {} = Names(e) \cap Files
      BY FilesAssumption DEF Events, Names, ReadOnly, Changed
    <2>2. Report(e) /\ UNCHANGED disk
      BY <1>4 DEF Configure
    <2>3. Touched({})
      BY <2>2 DEF Touched, WatchInv, WatchTypeOK, Versions
    <2>. QED BY <2>1, <2>2, <2>3, ReportRefines
  <1>. QED BY <1>1, <1>2, <1>3, <1>4 DEF Change

(* The observer loses what an event is renamed to, and a path it adds when *)
(* nobody is going to look; that `pending` is set brings back what was     *)
(* added before.                                                           *)
LEMMA ObserverRefines ==
  ASSUME WatchInv, Observer PROVE CodeLedger!Next \/ UNCHANGED CodeLedger!ledger
  <1>0. UNCHANGED <<disk, graph, dpc, batch, seen>>
    BY DEF Observer, Take, Override, Flag, Trigger, Pend, Add, Observe, files, outputs, dispatch
  <1>1. CASE Take
    <2> DEFINE e == Head(inbox)
               L == {e.dest} \cap Code
    <2>1. e \in Events \cup Echoes /\ \A f : Queued(f) <=> Queued(f)' \/ f \in Names(e)
      BY <1>1, InboxShrinks DEF Take, WatchInv, WatchTypeOK
    <2>2. /\ AboutConfig(e) => e.src \notin Files /\ Names(e) \cap Files = {}
          /\ Heeded(e) => e.src \in Names(e)
          /\ \A f \in Names(e) \cap Files : /\ f = e.src \/ f = e.dest
                                          /\ ~ReadOnly(e) /\ f # Out
      BY <2>1, EventIs, EchoIs, FilesAssumption
    <2>3. /\ opc = "idle" /\ missed' = missed \cup ({e.dest} \cap Files)
          /\ \/ AboutConfig(e) /\ event' = e /\ opc' = "override"
             \/ ~AboutConfig(e) /\ Heeded(e) /\ event' = e /\ opc' = "trigger"
             \/ ~Heeded(e) /\ event' = event /\ opc' = "idle"
      BY <1>1 DEF Take, Observe
    <2>4. \A f \in Code : f \in Files /\ (f \in Names(e) /\ f = e.src => Heeded(e))
      BY <2>2 DEF Heeded, Watched, WatchedSuffix, Files
    <2>5. \A f : Held(f)' <=> Held(f)
      BY <1>0, <1>1 DEF Take, Held, shared
    <2>6. missed' \cap Code = (missed \cap Code) \cup L
      BY <2>3, <2>4
    <2>. HIDE DEF e
    <2>7. \A f \in Code : CodeComing(f)' => CodeComing(f)
      <3>1. \A f \in Code : Queued(f)' \/ (opc' # "idle" /\ f = event'.src)
                           => Queued(f) \/ (opc # "idle" /\ f = event.src)
        BY <2>1, <2>2, <2>3, <2>4
      <3>. QED BY <1>0, <2>5, <3>1 DEF CodeComing
    <2>8. \A f \in Code \ L : CodeComing(f) => CodeComing(f)'
      BY <1>0, <2>1, <2>2, <2>3, <2>4, <2>5 DEF CodeComing
    <2>. QED BY <1>0, <2>6, <2>7, <2>8, CodeIsLost
  <1>2. CASE Override \/ Flag \/ Trigger
    <2>1. \A f \in Code : CodeComing(f)' <=> CodeComing(f)
      <3>1. \A f \in Code : Queued(f)' <=> Queued(f)
        <4>1. CASE Override
          BY <4>1, HearKeeps, CodeIsFile DEF Override, Echoes, WatchInv, WatchTypeOK
        <4>. QED BY <1>2, <4>1, InboxStays DEF Flag, Trigger
      <3>. QED BY <1>0, <1>2, <3>1 DEF Override, Flag, Trigger, Observe, CodeComing, Held
    <2>2. missed' = missed
      BY <1>2 DEF Override, Flag, Trigger
    <2>. QED BY <1>0, <2>1, <2>2, CodeStutters
  <1>3. CASE Pend
    <2>1. event \in Events
      BY <1>3 DEF Pend, WatchInv, EventInv
    <2>2. AboutConfig(event) => \A f \in Code : f # event.src
      BY <2>1, EventIs DEF Files
    <2>3. /\ opc = "pend" /\ UNCHANGED inbox
          /\ IF AboutConfig(event) THEN opc' = "idle" ELSE opc' = "add" /\ event' = event
      BY <1>3 DEF Pend, Observe
    <2>4. \A f \in Code : Held(f)' <=> Held(f) \/ f \in changed \cap Code
      BY <1>0, <1>3 DEF Pend, Held
    <2>5. \A f \in Code : CodeComing(f)' <=> CodeComing(f) \/ f \in changed \cap Code
      <3>1. \A f : Queued(f)' <=> Queued(f)
        BY <2>3, InboxStays
      <3>2. CASE AboutConfig(event)
        BY <1>0, <2>2, <2>3, <2>4, <3>1, <3>2 DEF CodeComing
      <3>3. CASE ~AboutConfig(event)
        BY <1>0, <2>3, <2>4, <3>1, <3>3 DEF CodeComing
      <3>. QED BY <3>2, <3>3
    <2>6. missed' = missed
      BY <1>3 DEF Pend
    <2>. QED BY <1>0, <2>5, <2>6, CodeIsTakenUp
  <1>4. CASE Add
    <2> DEFINE L == {f \in {event.src} \cap Code : ~pending /\ dpc \notin {"fire", "list"}}
    <2>1. /\ opc = "add" /\ opc' = "idle" /\ changed' = changed \cup {event.src}
          /\ UNCHANGED <<inbox, pending>>
      BY <1>4 DEF Add, Observe
    <2>2. missed' \cap Code = (missed \cap Code) \cup L
      BY <1>4 DEF Add
    <2>3. \A f \in Code : CodeComing(f)' => CodeComing(f)
      BY <1>0, <2>1, InboxStays DEF CodeComing, Held
    <2>4. \A f \in Code \ L : CodeComing(f) => CodeComing(f)'
      BY <1>0, <2>1, InboxStays DEF CodeComing, Held
    <2>. QED BY <1>0, <2>2, <2>3, <2>4, CodeIsLost
  <1>. QED BY <1>1, <1>2, <1>3, <1>4 DEF Observer

(* The dispatch thread loses what was added between list(changed) and      *)
(* changed.clear(), and what a rebuild that fails was to bring; a rebuild  *)
(* that anything sets off takes all the code along.                        *)
LEMMA DispatcherRefines ==
  ASSUME WatchInv, Dispatcher \/ Fail
  PROVE  CodeLedger!Next \/ UNCHANGED CodeLedger!ledger
  <1>0. /\ UNCHANGED <<disk, opc, event>>
        /\ \A f \in Code : Queued(f)' <=> Queued(f)
    <2>1. UNCHANGED <<disk, opc, event>>
      BY DEF Dispatcher, Wake, Fire, List, Clear, Ask, Unset, Decide, Extract, Publish,
         Notify, Fail, Dispatch, DispatchAloud, files, observer
    <2>2. CASE Extract \/ Publish \/ Fail
      <3>1. \E e \in Echoes : Hear(e)
        BY <2>2 DEF Extract, Publish, Fail, DispatchAloud, Echoes, WatchInv, WatchTypeOK
      <3>. QED BY <2>1, <3>1, HearKeeps, CodeIsFile DEF WatchInv, WatchTypeOK
    <2>3. CASE UNCHANGED inbox
      BY <2>1, <2>3, InboxStays
    <2>. QED BY <2>2, <2>3
         DEF Dispatcher, Wake, Fire, List, Clear, Ask, Unset, Decide, Notify, Dispatch, observer
  <1>1. CASE Wake \/ Fire \/ List \/ Ask \/ Notify
    <2>1. \A f \in Code : CodeComing(f)' <=> CodeComing(f)
      BY <1>0, <1>1
      DEF Wake, Fire, List, Ask, Notify, Dispatch, CodeComing, Held, shared
    <2>2. UNCHANGED <<graph, missed>>
      BY <1>1 DEF Wake, Fire, List, Ask, Notify, outputs
    <2>. QED BY <1>0, <2>1, <2>2, CodeStutters
  <1>2. CASE Unset
    <2>1. \A f \in Code : CodeComing(f)' <=> CodeComing(f)
      BY <1>0, <1>2 DEF Unset, Dispatch, CodeComing, Held
    <2>2. graph' = graph /\ missed' \cap Code = missed \cap Code
      BY <1>2, CodeIsFile DEF Unset, outputs
    <2>. QED BY <1>0, <2>1, <2>2, CodeStutters
  <1>3. CASE Extract
    <2>1. \A f \in Code : CodeComing(f)' <=> CodeComing(f)
      BY <1>0, <1>3 DEF Extract, DispatchAloud, CodeComing, Held, shared
    <2>2. UNCHANGED <<graph, missed>>
      BY <1>3 DEF Extract, outputs
    <2>. QED BY <1>0, <2>1, <2>2, CodeStutters
  <1>4. CASE Clear
    <2> DEFINE L == (changed \ batch) \cap Code
    <2>1. graph' = graph /\ missed' \cap Code = (missed \cap Code) \cup L
      BY <1>4 DEF Clear, outputs
    <2>2. \A f \in Code : CodeComing(f)' => CodeComing(f)
      BY <1>0, <1>4 DEF Clear, Dispatch, CodeComing, Held
    <2>3. \A f \in Code \ L : CodeComing(f) => CodeComing(f)'
      BY <1>0, <1>4 DEF Clear, Dispatch, CodeComing, Held
    <2>. QED BY <1>0, <2>1, <2>2, <2>3, CodeIsLost
  <1>5. CASE Decide
    <2>1. UNCHANGED <<graph, missed, changed, pending, batch>>
      BY <1>5 DEF Decide, outputs, shared
    <2>2. CASE config_event \/ TriggersRebuild(override_snapshot)
      <3>1. \A f \in Code : CodeComing(f)' <=> CodeComing(f) \/ f \in Code
        BY <1>5, <2>2 DEF Decide, Dispatch, CodeComing
      <3>. QED BY <1>0, <2>1, <3>1, CodeIsTakenUp
    <2>3. CASE ~(config_event \/ TriggersRebuild(override_snapshot))
      <3>1. dpc = "decide" /\ dpc' = "notify"
        BY <1>5, <2>3 DEF Decide, Dispatch
      <3>2. \A f \in Code : f \notin batch
        BY <2>3 DEF TriggersRebuild, IsCode
      <3>3. \A f \in Code : CodeComing(f)' <=> CodeComing(f)
        BY <1>0, <2>1, <3>1, <3>2 DEF CodeComing, Held
      <3>. QED BY <1>0, <2>1, <3>3, CodeStutters
    <2>. QED BY <2>2, <2>3
  <1>6. CASE Publish
    <2>1. /\ dpc = "publish" /\ dpc' = "notify" /\ graph' = seen
          /\ UNCHANGED <<changed, pending>>
      BY <1>6 DEF Publish, DispatchAloud, shared
    <2>2. \A f \in Code : seen[f] # disk[f] => (CodeComing(f)' <=> CodeComing(f))
      BY <1>0, <2>1 DEF CodeComing, Held
    <2>3. \A f \in Code : seen[f] # disk[f] => (Coming(f)' <=> Coming(f))
      BY <2>2, ComingIs, ComingIsNext
    <2>4. \A f \in Code : seen[f] < disk[f] => seen[f] # disk[f] /\ graph[f] < disk[f]
      BY <2>1, CodeIsFile
    <2>5. CodeLedger!Advance
      BY <1>0, <2>1, CodeIsFile DEF CodeLedger!Advance
    <2>6. {f \in Code : graph'[f] < disk'[f] /\ Coming(f)'}
            = {f \in Code : graph[f] < disk[f] /\ Coming(f)}
              \cap {f \in Code : graph'[f] < disk'[f]}
      BY <1>0, <2>1, <2>3, <2>4
    <2>7. /\ missed' \subseteq missed
          /\ \A f \in missed \cap Code : f \in missed' \/ seen[f] = disk[f]
      BY <1>6, CodeIsFile DEF Publish
    <2>8. CodeLedger!Rebuild
      BY <1>0, <2>1, <2>4, <2>5, <2>6, <2>7 DEF CodeLedger!Rebuild, CodeLedger!Behind
    <2>. QED BY <2>8 DEF CodeLedger!Next
  <1>7. CASE Fail
    <2> DEFINE L == Stale \cap Code
    <2>1. graph' = graph /\ missed' \cap Code = (missed \cap Code) \cup L
      BY <1>7, CodeIsFile DEF Fail, outputs
    <2>2. \A f \in Code : CodeComing(f)' => CodeComing(f)
      BY <1>0, <1>7 DEF Fail, DispatchAloud, CodeComing, Held, shared
    <2>3. \A f \in Code \ L : ~(graph[f] < disk[f])
      BY CodeIsFile DEF Stale, Lacks
    <2>. QED BY <1>0, <2>1, <2>2, <2>3, CodeIsLost
  <1>. QED BY <1>1, <1>2, <1>3, <1>4, <1>5, <1>6, <1>7 DEF Dispatcher

LEMMA CodeLedgerInit == WatchInit => CodeLedger!Init
  <1> SUFFICES ASSUME WatchInit PROVE CodeLedger!Init
    OBVIOUS
  <1>1. \A f \in Code : f \in Files
    BY DEF Files
  <1>. QED BY <1>1 DEF WatchInit, CodeLedger!Init

LEMMA CodeLedgerNext ==
  WatchInv /\ [WatchNext]_watchVars => [CodeLedger!Next]_(CodeLedger!ledger)
  <1> SUFFICES ASSUME WatchInv, [WatchNext]_watchVars
               PROVE  CodeLedger!Next \/ UNCHANGED CodeLedger!ledger
    OBVIOUS
  <1>1. CASE Tick \/ UNCHANGED watchVars
    <2>1. UNCHANGED <<disk, graph, missed, inbox, event, opc, dpc, batch, seen, changed, pending>>
      BY <1>1 DEF Tick, watchVars, files, outputs, shared, observer, dispatch
    <2>2. \A f \in Code : CodeComing(f)' <=> CodeComing(f)
      BY <2>1, InboxStays DEF CodeComing, Held
    <2>. QED BY <2>1, <2>2, CodeStutters
  <1>2. CASE Change
    BY <1>2, ChangeRefines
  <1>3. CASE Observer
    BY <1>3, ObserverRefines
  <1>4. CASE Dispatcher \/ Fail
    BY <1>4, DispatcherRefines
  <1>. QED BY <1>1, <1>2, <1>3, <1>4 DEF WatchNext

(* ImplementsCodeLedger: for any files and changes, every step of the two  *)
(* threads is a request, a rebuild, a loss written down or nothing to the  *)
(* ledger of the code files.                                               *)
THEOREM ImplementsCodeLedgerHolds == WatchSpec => ImplementsCodeLedger
  BY WatchInvariance, CodeLedgerInit, CodeLedgerNext, PTL
     DEF WatchSpec, ImplementsCodeLedger, CodeLedger!Spec

(* What the ledger promises, the loop keeps: code that the graph is behind *)
(* on is coming, or written down as lost.                                  *)
THEOREM NoCodeIsForgotten == WatchSpec => []CodeLedger!NothingForgotten
  <1> DEFINE LedgerInv == /\ \A f \in Code : graph[f] \in Nat /\ disk[f] \in Nat
                          /\ CodeLedger!NothingForgotten
  <1>1. WatchInit => LedgerInv
    <2>1. \A f \in Code : f \in Files
      BY DEF Files
    <2>. QED BY <2>1 DEF WatchInit, CodeLedger!NothingForgotten, CodeLedger!Behind
  <1>2. LedgerInv /\ WatchInv' /\ [CodeLedger!Next]_(CodeLedger!ledger) => LedgerInv'
    <2> SUFFICES ASSUME LedgerInv, WatchInv', [CodeLedger!Next]_(CodeLedger!ledger)
                 PROVE  LedgerInv'
      OBVIOUS
    <2> USE DEF CodeLedger!NothingForgotten, CodeLedger!Behind
    <2>0. \A f \in Code : graph'[f] \in Nat /\ disk'[f] \in Nat
      BY DEF WatchInv, WatchTypeOK, Versions, Files
    <2>1. ASSUME NEW C \in SUBSET Code, NEW S \in SUBSET C, CodeLedger!Request(S, C)
          PROVE  LedgerInv'
      BY <2>0, <2>1 DEF CodeLedger!Request
    <2>2. ASSUME NEW C \in SUBSET Code, CodeLedger!TakeUp(C) PROVE LedgerInv'
      BY <2>0, <2>2 DEF CodeLedger!TakeUp
    <2>3. CASE CodeLedger!Rebuild
      <3>1. \A f \in Code : disk'[f] = disk[f] /\ graph[f] <= graph'[f]
        BY <2>3 DEF CodeLedger!Rebuild, CodeLedger!Advance
      <3>2. \A f \in Code : graph'[f] < disk'[f] => graph[f] < disk[f]
        BY <2>0, <3>1
      <3>. QED BY <2>0, <2>3, <3>2 DEF CodeLedger!Rebuild
    <2>4. ASSUME NEW L \in SUBSET Code, CodeLedger!Lose(L) PROVE LedgerInv'
      BY <2>0, <2>4 DEF CodeLedger!Lose, CodeLedger!Advance
    <2>5. CASE UNCHANGED CodeLedger!ledger
      BY <2>0, <2>5 DEF CodeLedger!ledger
    <2>. QED BY <2>1, <2>2, <2>3, <2>4, <2>5 DEF CodeLedger!Next
  <1>. QED BY <1>1, <1>2, WatchInvariance, CodeLedgerNext, PTL DEF WatchSpec
=============================================================================
