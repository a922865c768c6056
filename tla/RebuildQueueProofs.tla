------------------------- MODULE RebuildQueueProofs -------------------------
(***************************************************************************)
(* Theorems about RebuildQueue for any processes, files and bounds.        *)
(*   - HolderInv: only the holder of the lock drains, extracts or writes.  *)
(*   - VersionInv: what the holder has extracted is at least as new as the *)
(*     graph and not newer than the disk; it needs HolderInv, since a      *)
(*     second writer between extraction and publication would break it.    *)
(*   - OnlyKnownLosses is inductive as it stands.                          *)
(***************************************************************************)
EXTENDS RebuildQueue, TLAPS

InLock == {"drainFull", "read", "unlink", "extract", "publish", "release"}

HolderInv == \A p \in Procs : pc[p] \in InLock <=> holder = p

VersionInv ==
  /\ \A c \in Paths : graph[c] <= disk[c]
  /\ \A p \in Procs : pc[p] = "publish" =>
        \A c \in todo[p] : graph[c] <= seen[p][c] /\ seen[p][c] <= disk[c]

IInv == TypeOK /\ HolderInv /\ VersionInv

-----------------------------------------------------------------------------
(* Nobody holds the lock. *)
LEMMA InitIInv == Init => IInv
<1> SUFFICES ASSUME Init PROVE IInv
  OBVIOUS
<1>1. Nothing \in Versions
  BY BoundsAssumption DEF Nothing, Versions
<1>2. TypeOK
  <2>1. passes \in [Procs -> 0..MaxPasses]
    BY BoundsAssumption DEF Init
  <2>2. pc \in [Procs -> Location] /\ alarm \in [Procs -> {"off", "armed", "fired"}]
    BY DEF Init, Location
  <2>3. QED
    BY <1>1, <2>1, <2>2 DEF Init, TypeOK, Lock!Init, Lock!TypeOK
<1>3. HolderInv
  BY NoProcAssumption DEF Init, HolderInv, InLock, Lock!Init
<1>4. VersionInv
  BY DEF Init, VersionInv, Nothing
<1>5. QED
  BY <1>2, <1>3, <1>4 DEF IInv

(* The files a process has just written have a newer version. *)
LEMMA EditedFacts ==
  ASSUME TypeOK, NEW S \in SUBSET Paths, Edited(S)
  PROVE  /\ disk' \in Versions
         /\ dropped' \in SUBSET Paths
         /\ \A c \in Paths : disk[c] <= disk'[c]
         /\ \A c \in Paths : c \notin S => disk'[c] = disk[c]
  BY BoundsAssumption DEF TypeOK, Edited, Versions

(* A request changes the disk and where its caller is. *)
LEMMA StartIInv ==
  ASSUME IInv, NEW p \in Procs, NEW S \in SUBSET Paths, NEW cover \in SUBSET Paths,
         NEW block \in BOOLEAN, NEW at \in {"queue", "queueFull", "acquire"},
         Start(p, S, cover, block, at)
  PROVE  IInv'
<1> USE DEF IInv, Start, Goto
<1>1. /\ disk' \in Versions
      /\ dropped' \in SUBSET Paths
      /\ \A c \in Paths : disk[c] <= disk'[c]
  BY EditedFacts
<1>2. TypeOK'
  BY <1>1 DEF TypeOK, Lock!TypeOK, Location
<1>3. HolderInv'
  BY DEF HolderInv, InLock, TypeOK
<1>4. VersionInv'
  BY <1>1, BoundsAssumption DEF VersionInv, TypeOK, Versions
<1>5. QED
  BY <1>2, <1>3, <1>4

(* Steps that move one process between locations outside the lock, or      *)
(* within it, without touching the versions.                               *)
LEMMA QuietIInv ==
  ASSUME IInv, NEW p \in Procs,
         \/ Queue(p) \/ QueueFull(p) \/ DrainFull(p) \/ ReadPending(p) \/ UnlinkPending(p)
  PROVE  IInv'
<1> USE DEF IInv, Queue, QueueFull, DrainFull, ReadPending, UnlinkPending, Goto
<1>1. TypeOK'
  <2>1. pc' \in [Procs -> Location]
    BY DEF TypeOK, Location
  <2>2. todo' \in [Procs -> SUBSET Paths] /\ queued' \in SUBSET Paths
    BY DEF TypeOK
  <2>3. queuedFull' \in BOOLEAN /\ dropped' \in SUBSET Paths
    BY DEF TypeOK
  <2>4. QED
    BY <2>1, <2>2, <2>3 DEF TypeOK, Lock!TypeOK
<1>2. HolderInv'
  BY DEF HolderInv, InLock, TypeOK
<1>3. VersionInv'
  BY DEF VersionInv, TypeOK
<1>4. QED
  BY <1>1, <1>2, <1>3

(* After an alarm outside a pass only the release is left. *)
LEMMA AlarmIInv == ASSUME IInv, NEW p \in Procs, AlarmOutside(p)
                   PROVE  IInv'
<1> USE DEF IInv, AlarmOutside, Goto
<1>1. Carried(p) \in SUBSET Paths
  BY DEF Carried, TypeOK
<1>2. TypeOK'
  BY <1>1 DEF TypeOK, Lock!TypeOK, Location
<1>3. HolderInv'
  BY DEF HolderInv, InLock, TypeOK
<1>4. VersionInv'
  BY DEF VersionInv, TypeOK
<1>5. QED
  BY <1>2, <1>3, <1>4

(* What a caller that has returned leaves behind. *)
LEMMA ReturnFacts ==
  ASSUME TypeOK, NEW p \in Procs, Return(p)
  PROVE  /\ pc' = [pc EXCEPT ![p] = "idle"]
         /\ pc' \in [Procs -> Location]
         /\ todo' \in [Procs -> SUBSET Paths]
         /\ seen' \in [Procs -> Versions]
         /\ passes' \in [Procs -> 0..MaxPasses]
         /\ blocking' \in [Procs -> BOOLEAN]
         /\ alarm' \in [Procs -> {"off", "armed", "fired"}]
         /\ \A q \in Procs : q # p => todo'[q] = todo[q] /\ seen'[q] = seen[q]
<1>1. Nothing \in Versions
  BY BoundsAssumption DEF Nothing, Versions
<1>2. QED
  BY <1>1, BoundsAssumption DEF Return, Goto, TypeOK, Location

(* The lock is taken when it is free, and left by its holder. *)
LEMMA EnterLeaveIInv ==
  ASSUME IInv, NEW p \in Procs, \/ Enter(p) \/ Release(p)
  PROVE  IInv'
<1> USE DEF IInv, Enter, Release, Goto, Lock!Enter, Lock!Leave
<1>1. TypeOK'
  BY DEF TypeOK, Lock!TypeOK, Location
<1>2. HolderInv'
  BY NoProcAssumption DEF HolderInv, InLock, TypeOK
<1>3. VersionInv'
  BY DEF VersionInv, TypeOK
<1>4. QED
  BY <1>1, <1>2, <1>3

(* Refused, unlocked and killed callers. *)
LEMMA ReturnIInv ==
  ASSUME IInv, NEW p \in Procs, \/ Refused(p) \/ Unlock(p) \/ Killed(p)
  PROVE  IInv'
<1> USE DEF IInv, Refused, Unlock, Killed, Lock!Leave
<1>0. /\ pc' = [pc EXCEPT ![p] = "idle"]
      /\ pc' \in [Procs -> Location]
      /\ todo' \in [Procs -> SUBSET Paths]
      /\ seen' \in [Procs -> Versions]
      /\ passes' \in [Procs -> 0..MaxPasses]
      /\ blocking' \in [Procs -> BOOLEAN]
      /\ alarm' \in [Procs -> {"off", "armed", "fired"}]
      /\ \A q \in Procs : q # p => todo'[q] = todo[q] /\ seen'[q] = seen[q]
  BY ReturnFacts
<1>1. Carried(p) \in SUBSET Paths
  BY DEF Carried, TypeOK
<1>2. TypeOK'
  BY <1>0, <1>1 DEF TypeOK, Lock!TypeOK
<1>3. HolderInv'
  BY <1>0, NoProcAssumption DEF HolderInv, InLock, TypeOK
<1>4. VersionInv'
  BY <1>0 DEF VersionInv, TypeOK
<1>5. QED
  BY <1>2, <1>3, <1>4

(* What is extracted is between the graph and the disk. *)
LEMMA ExtractIInv == ASSUME IInv, NEW p \in Procs, Extract(p)
                     PROVE  IInv'
<1> USE DEF IInv, Extract, Goto
<1>1. [c \in Paths |-> IF c \in todo[p] THEN disk[c] ELSE 0] \in Versions
  BY BoundsAssumption DEF TypeOK, Versions
<1>2. TypeOK'
  BY <1>1 DEF TypeOK, Lock!TypeOK, Location
<1>3. HolderInv'
  BY DEF HolderInv, InLock, TypeOK
<1>4. VersionInv'
  BY BoundsAssumption DEF VersionInv, TypeOK, Versions
<1>5. QED
  BY <1>2, <1>3, <1>4

(* Where a pass that has ended continues. *)
LEMMA NextPassFacts ==
  ASSUME TypeOK, NEW p \in Procs, NextPass(p)
  PROVE  /\ pc' \in [Procs -> Location]
         /\ pc' = [pc EXCEPT ![p] = pc'[p]] /\ pc'[p] \in {"drainFull", "release"}
         /\ todo' \in [Procs -> SUBSET Paths]
         /\ seen' \in [Procs -> Versions]
         /\ passes' \in [Procs -> 0..MaxPasses]
         /\ \A q \in Procs : q # p => todo'[q] = todo[q] /\ seen'[q] = seen[q]
<1>1. Nothing \in Versions
  BY BoundsAssumption DEF Nothing, Versions
<1>2. passes' \in [Procs -> 0..MaxPasses]
  BY BoundsAssumption DEF NextPass, TypeOK
<1>3. QED
  BY <1>1, <1>2 DEF NextPass, Goto, TypeOK, Location

(* Replacing the graph by what p extracted never takes a file back. *)
LEMMA ReplaceGraphFacts ==
  ASSUME IInv, NEW p \in Procs, pc[p] = "publish", ReplaceGraph(p)
  PROVE  /\ graph' \in Versions
         /\ \A c \in Paths : graph[c] <= graph'[c] /\ graph'[c] <= disk[c]
  BY BoundsAssumption DEF IInv, TypeOK, Versions, VersionInv, ReplaceGraph

(* A pass publishes what it extracted under the lock, or fails. *)
LEMMA PassIInv ==
  ASSUME IInv, NEW p \in Procs, \/ Publish(p) \/ FailPass(p)
  PROVE  IInv'
<1> USE DEF IInv, Publish, FailPass
<1>0. /\ pc' \in [Procs -> Location]
      /\ pc' = [pc EXCEPT ![p] = pc'[p]] /\ pc'[p] \in {"drainFull", "release"}
      /\ todo' \in [Procs -> SUBSET Paths]
      /\ seen' \in [Procs -> Versions]
      /\ passes' \in [Procs -> 0..MaxPasses]
      /\ \A q \in Procs : q # p => todo'[q] = todo[q] /\ seen'[q] = seen[q]
  BY NextPassFacts
<1>1. /\ graph' \in Versions
      /\ \A c \in Paths : graph'[c] <= disk[c]
  BY ReplaceGraphFacts DEF TypeOK, VersionInv
<1>2. Carried(p) \in SUBSET Paths
  BY DEF Carried, TypeOK
<1>3. TypeOK'
  BY <1>0, <1>1, <1>2 DEF TypeOK, Lock!TypeOK
<1>4. HolderInv'
  BY <1>0 DEF HolderInv, InLock, TypeOK
<1>5. VersionInv'
  <2>1. \A q \in Procs : pc'[q] # "publish"
    BY <1>0 DEF HolderInv, InLock, TypeOK
  <2>2. QED
    BY <1>1, <2>1 DEF VersionInv
<1>6. QED
  BY <1>3, <1>4, <1>5

(* Nothing changes. *)
LEMMA StutterIInv == IInv /\ UNCHANGED vars => IInv'
  BY DEF IInv, TypeOK, HolderInv, VersionInv, vars, Lock!TypeOK

(* Every step keeps the invariant. *)
LEMMA NextIInv == IInv /\ [Next]_vars => IInv'
<1> SUFFICES ASSUME IInv, [Next]_vars PROVE IInv'
  OBVIOUS
<1>1. CASE Next
  <2>1. PICK p \in Procs :
          \/ \E S \in SUBSET Paths : Commit(p, S) \/ Checkout(p, S) \/ Update(p, S)
          \/ Step(p)
          \/ FailPass(p) \/ AlarmOutside(p) \/ Killed(p)
    BY <1>1 DEF Next
  <2>2. ASSUME NEW S \in SUBSET Paths, Commit(p, S) \/ Checkout(p, S) \/ Update(p, S)
        PROVE  IInv'
    <3>1. Paths \in SUBSET Paths /\ TRUE \in BOOLEAN /\ FALSE \in BOOLEAN
      OBVIOUS
    <3>2. CASE Commit(p, S)
      BY <3>1, <3>2, StartIInv DEF Commit
    <3>3. CASE Checkout(p, S)
      BY <3>1, <3>3, StartIInv DEF Checkout
    <3>4. CASE Update(p, S)
      BY <3>1, <3>4, StartIInv DEF Update
    <3>5. QED
      BY <2>2, <3>2, <3>3, <3>4
  <2>3. QED
    BY <2>1, <2>2, QuietIInv, AlarmIInv, EnterLeaveIInv, ReturnIInv, ExtractIInv, PassIInv
       DEF Step
<1>2. CASE UNCHANGED vars
  BY <1>2, StutterIInv
<1>3. QED
  BY <1>1, <1>2

(* The inductive invariant holds in every reachable state of the queue. *)
THEOREM Invariance == Spec => []IInv
  BY InitIInv, NextIInv, PTL DEF Spec

(* The state of the queue and of the rebuilding processes keeps its type. *)
THEOREM TypeCorrect == Spec => []TypeOK
<1>1. IInv => TypeOK
  BY DEF IInv
<1>2. QED
  BY <1>1, Invariance, PTL

(* A rebuild never takes a file of the graph back to an older version: it  *)
(* alone is inside the lock, and it read the disk after entering.          *)
THEOREM GraphNeverGoesBackHolds == Spec => GraphNeverGoesBack
<1>1. IInv /\ [Next]_vars => [\A c \in Paths : graph'[c] >= graph[c]]_vars
  <2> SUFFICES ASSUME IInv, [Next]_vars, NEW c \in Paths
               PROVE  graph'[c] >= graph[c]
    OBVIOUS
  <2>1. graph[c] \in Nat
    BY BoundsAssumption DEF IInv, TypeOK, Versions
  <2>2. CASE graph' = graph
    BY <2>1, <2>2
  <2>3. CASE \E p \in Procs : pc[p] = "publish" /\ ReplaceGraph(p)
    <3>1. graph[c] <= graph'[c] /\ graph'[c] \in Nat
      BY <2>3, ReplaceGraphFacts, BoundsAssumption DEF Versions
    <3>2. QED
      BY <2>1, <3>1
  <2>4. graph' = graph \/ \E p \in Procs : pc[p] = "publish" /\ ReplaceGraph(p)
    BY DEF Next, Step, Commit, Checkout, Update, Start, Queue, QueueFull, Enter, Refused,
           Release, Unlock, DrainFull, ReadPending, UnlinkPending, Extract, Publish,
           FailPass, AlarmOutside, Killed, vars
  <2>5. QED
    BY <2>2, <2>3, <2>4
<1>2. QED
  BY <1>1, Invariance, PTL DEF Spec, GraphNeverGoesBack

-----------------------------------------------------------------------------
(* OnlyKnownLosses, spelled out file by file. *)
Accounted(c) == \/ c \in queued
                \/ queuedFull
                \/ \E p \in Procs : c \in Carried(p)
                \/ c \in dropped

LossInv == \A c \in Paths : graph[c] < disk[c] => Accounted(c)

(* LossInv is OnlyKnownLosses, file by file. *)
LEMMA LossInvIsOnlyKnownLosses == LossInv <=> OnlyKnownLosses
  BY DEF LossInv, Accounted, OnlyKnownLosses, Stale, Remembered

(* What another process carries it still carries. *)
LEMMA OthersCarry ==
  ASSUME IInv, NEW p \in Procs, UNCHANGED disk, NEW q \in Procs, q # p,
         pc'[q] = pc[q], todo'[q] = todo[q], seen'[q] = seen[q], blocking'[q] = blocking[q]
  PROVE  Carried(q)' = Carried(q)
  BY DEF Carried

(* A request is carried by its caller until it is queued. *)
LEMMA LossStart ==
  ASSUME IInv, LossInv, NEW p \in Procs, NEW S \in SUBSET Paths, NEW cover \in SUBSET Paths,
         NEW block \in BOOLEAN, NEW at \in {"queue", "queueFull", "acquire"},
         at = "acquire" => block, S \subseteq cover,
         Start(p, S, cover, block, at)
  PROVE  LossInv'
<1> SUFFICES ASSUME NEW c \in Paths, graph'[c] < disk'[c]
             PROVE  Accounted(c)'
  BY DEF LossInv
<1> USE DEF IInv, TypeOK
<1>1. Carried(p)' = cover
  BY DEF Start, Goto, Carried
<1>2. CASE c \in S
  BY <1>1, <1>2 DEF Accounted
<1>3. CASE c \notin S
  <2>1. disk'[c] = disk[c] /\ graph' = graph
    BY <1>3 DEF Start, Edited
  <2>2. Accounted(c)
    BY <2>1 DEF LossInv
  <2>3. ASSUME NEW q \in Procs, c \in Carried(q)
        PROVE  c \in Carried(q)'
    <3>1. q # p
      BY <2>3 DEF Carried, Start
    <3>2. pc'[q] = pc[q] /\ todo'[q] = todo[q] /\ seen'[q] = seen[q] /\ blocking'[q] = blocking[q]
      BY <3>1 DEF Start, Goto
    <3>3. QED
      BY <2>1, <2>3, <3>2 DEF Carried
  <2>4. c \in dropped => c \in dropped'
    BY <1>3 DEF Start, Edited
  <2>5. QED
    BY <2>2, <2>3, <2>4 DEF Accounted, Start
<1>4. QED
  BY <1>2, <1>3

(* A step of p that leaves the versions and the other processes alone: it  *)
(* is enough to say where the queue and p's own request go.                *)
LEMMA LossLocal ==
  ASSUME IInv, LossInv, NEW p \in Procs, UNCHANGED <<disk, graph>>,
         \A q \in Procs : q # p => /\ pc'[q] = pc[q] /\ todo'[q] = todo[q]
                                   /\ seen'[q] = seen[q] /\ blocking'[q] = blocking[q],
         \A c \in queued : c \in queued' \/ c \in Carried(p)' \/ c \in dropped',
         queuedFull => queuedFull' \/ \A c \in Paths : c \in Carried(p)',
         \A c \in Carried(p) : \/ c \in Carried(p)' \/ c \in queued'
                               \/ queuedFull' \/ c \in dropped',
         dropped \subseteq dropped'
  PROVE  LossInv'
<1> SUFFICES ASSUME NEW c \in Paths, graph'[c] < disk'[c]
             PROVE  Accounted(c)'
  BY DEF LossInv
<1>1. Accounted(c)
  BY DEF LossInv
<1>2. ASSUME NEW q \in Procs, q # p
      PROVE  Carried(q)' = Carried(q)
  BY <1>2, OthersCarry
<1>3. ASSUME NEW q \in Procs, c \in Carried(q)
      PROVE  Accounted(c)'
  <2>1. CASE q = p
    BY <1>3, <2>1 DEF Accounted
  <2>2. CASE q # p
    BY <1>2, <1>3, <2>2 DEF Accounted
  <2>3. QED
    BY <2>1, <2>2
<1>4. QED
  BY <1>1, <1>3 DEF Accounted

(* A queued request is in the queue. *)
LEMMA LossQueue == ASSUME IInv, LossInv, NEW p \in Procs, Queue(p) \/ QueueFull(p)
                   PROVE  LossInv'
<1> USE DEF IInv, TypeOK
<1>1. \A q \in Procs : q # p => /\ pc'[q] = pc[q] /\ todo'[q] = todo[q]
                                /\ seen'[q] = seen[q] /\ blocking'[q] = blocking[q]
  BY DEF Queue, QueueFull, Goto
<1>2. \A c \in Carried(p) : c \in queued' \/ queuedFull'
  BY DEF Queue, QueueFull, Carried
<1>3. QED
  BY <1>1, <1>2, LossLocal DEF Queue, QueueFull

(* A drained request is carried by the holder. *)
LEMMA LossDrain ==
  ASSUME IInv, LossInv, NEW p \in Procs, DrainFull(p) \/ ReadPending(p) \/ UnlinkPending(p)
  PROVE  LossInv'
<1> USE DEF IInv, TypeOK, DrainFull, ReadPending, UnlinkPending, Goto
<1>1. \A q \in Procs : q # p => /\ pc'[q] = pc[q] /\ todo'[q] = todo[q]
                                /\ seen'[q] = seen[q] /\ blocking'[q] = blocking[q]
  OBVIOUS
<1>2. pc[p] \in {"drainFull", "read", "unlink"} /\ Carried(p) = todo[p]
  BY DEF Carried
<1>3. \A c \in todo[p] : c \in Carried(p)'
  BY DEF Carried
<1>4. \A c \in queued : c \in queued' \/ c \in Carried(p)' \/ c \in dropped'
  BY DEF Carried
<1>5. queuedFull => queuedFull' \/ \A c \in Paths : c \in Carried(p)'
  BY DEF Carried
<1>6. QED
  BY <1>1, <1>2, <1>3, <1>4, <1>5, LossLocal

(* Entering and releasing lose nothing. *)
LEMMA LossLock ==
  ASSUME IInv, LossInv, NEW p \in Procs, Enter(p) \/ Release(p)
  PROVE  LossInv'
<1> USE DEF IInv, TypeOK, Enter, Release, Goto
<1>1. \A q \in Procs : q # p => /\ pc'[q] = pc[q] /\ todo'[q] = todo[q]
                                /\ seen'[q] = seen[q] /\ blocking'[q] = blocking[q]
  OBVIOUS
<1>2. \A c \in Carried(p) : c \in Carried(p)'
  BY DEF Carried
<1>3. QED
  BY <1>1, <1>2, LossLocal

(* What a returning caller still carries is recorded as dropped. *)
LEMMA LossReturn ==
  ASSUME IInv, LossInv, NEW p \in Procs, Refused(p) \/ Unlock(p) \/ Killed(p)
  PROVE  LossInv'
<1> USE DEF IInv, TypeOK, Refused, Unlock, Killed, Return, Goto
<1>1. \A q \in Procs : q # p => /\ pc'[q] = pc[q] /\ todo'[q] = todo[q]
                                /\ seen'[q] = seen[q] /\ blocking'[q] = blocking[q]
  OBVIOUS
<1>2. \A c \in Carried(p) : c \in dropped'
  BY DEF Carried
<1>3. QED
  BY <1>1, <1>2, LossLocal

(* What an alarm cuts short is recorded as dropped. *)
LEMMA LossAlarm == ASSUME IInv, LossInv, NEW p \in Procs, AlarmOutside(p)
                   PROVE  LossInv'
<1> USE DEF IInv, TypeOK, AlarmOutside, Goto
<1>1. \A q \in Procs : q # p => /\ pc'[q] = pc[q] /\ todo'[q] = todo[q]
                                /\ seen'[q] = seen[q] /\ blocking'[q] = blocking[q]
  OBVIOUS
<1>2. QED
  BY <1>1, LossLocal

(* Right after the extraction everything in the pass is up to date. *)
LEMMA LossExtract == ASSUME IInv, LossInv, NEW p \in Procs, Extract(p)
                     PROVE  LossInv'
<1> USE DEF IInv, TypeOK, Extract, Goto
<1>1. \A q \in Procs : q # p => /\ pc'[q] = pc[q] /\ todo'[q] = todo[q]
                                /\ seen'[q] = seen[q] /\ blocking'[q] = blocking[q]
  OBVIOUS
<1>2. \A c \in Carried(p) : c \in Carried(p)'
  BY DEF Carried
<1>3. QED
  BY <1>1, <1>2, LossLocal

(* What the pass brought up to date needs no account any more; what it did *)
(* not, or a failed pass, is accounted for elsewhere.                      *)
LEMMA LossPass == ASSUME IInv, LossInv, NEW p \in Procs, Publish(p) \/ FailPass(p)
                  PROVE  LossInv'
<1> SUFFICES ASSUME NEW c \in Paths, graph'[c] < disk'[c]
             PROVE  Accounted(c)'
  BY DEF LossInv
<1> USE DEF IInv, TypeOK
<1>1. disk' = disk /\ queued' = queued /\ queuedFull' = queuedFull
  BY DEF Publish, FailPass
<1>2. graph[c] \in Nat /\ graph'[c] \in Nat /\ disk[c] \in Nat /\ graph[c] <= graph'[c]
  <2>1. CASE graph' = graph
    BY <2>1, BoundsAssumption DEF Versions
  <2>2. CASE pc[p] = "publish" /\ ReplaceGraph(p)
    BY <2>2, ReplaceGraphFacts, BoundsAssumption DEF Versions
  <2>3. QED
    BY <2>1, <2>2 DEF Publish, FailPass
<1>3. Accounted(c)
  BY <1>1, <1>2 DEF LossInv
<1>4. dropped \subseteq dropped'
  BY DEF Publish, FailPass
<1>5. ASSUME NEW q \in Procs, c \in Carried(q), q # p
      PROVE  c \in Carried(q)'
  <2>1. pc'[q] = pc[q] /\ todo'[q] = todo[q] /\ seen'[q] = seen[q] /\ blocking'[q] = blocking[q]
    BY <1>5 DEF Publish, FailPass, NextPass, Goto
  <2>2. QED
    BY <1>1, <1>5, <2>1, OthersCarry
<1>6. ASSUME c \in Carried(p)
      PROVE  c \in dropped'
  <2>1. CASE FailPass(p)
    BY <1>6, <2>1 DEF FailPass
  <2>2. CASE Publish(p)
    <3>1. seen[p][c] = disk[c] /\ c \in todo[p]
      BY <1>6, <2>2 DEF Publish, Carried
    <3>2. graph'[c] = disk'[c]
      BY <1>1, <2>2, <3>1 DEF Publish, ReplaceGraph
    <3>3. QED
      BY <1>1, <1>2, <3>2
  <2>3. QED
    BY <2>1, <2>2
<1>7. QED
  BY <1>1, <1>3, <1>4, <1>5, <1>6 DEF Accounted

(* Nothing changes. *)
LEMMA LossStutter == LossInv /\ UNCHANGED vars => LossInv'
  BY DEF LossInv, Accounted, Carried, vars

(* Every step keeps the account. *)
LEMMA LossNext == IInv /\ LossInv /\ [Next]_vars => LossInv'
<1> SUFFICES ASSUME IInv, LossInv, [Next]_vars PROVE LossInv'
  OBVIOUS
<1>1. CASE Next
  <2>1. PICK p \in Procs :
          \/ \E S \in SUBSET Paths : Commit(p, S) \/ Checkout(p, S) \/ Update(p, S)
          \/ Step(p)
          \/ FailPass(p) \/ AlarmOutside(p) \/ Killed(p)
    BY <1>1 DEF Next
  <2>2. ASSUME NEW S \in SUBSET Paths, Commit(p, S) \/ Checkout(p, S) \/ Update(p, S)
        PROVE  LossInv'
    <3>1. CASE Commit(p, S)
      BY <3>1, LossStart DEF Commit
    <3>2. CASE Checkout(p, S)
      BY <3>2, LossStart DEF Checkout
    <3>3. CASE Update(p, S)
      BY <3>3, LossStart DEF Update
    <3>4. QED
      BY <2>2, <3>1, <3>2, <3>3
  <2>3. QED
    BY <2>1, <2>2, LossQueue, LossDrain, LossLock, LossReturn, LossAlarm, LossExtract, LossPass
       DEF Step
<1>2. CASE UNCHANGED vars
  BY <1>2, LossStutter
<1>3. QED
  BY <1>1, <1>2

(* A requested change is lost in the named ways only: in every other       *)
(* interleaving of hooks, watch loops and updates it is in the graph, in   *)
(* the queue, or with a process that will rebuild it.                      *)
THEOREM OnlyKnownLossesHolds == Spec => []OnlyKnownLosses
<1>1. Init => LossInv
  BY DEF Init, LossInv, Nothing
<1>2. Spec => []LossInv
  BY <1>1, LossNext, Invariance, PTL DEF Spec
<1>3. QED
  BY <1>2, LossInvIsOnlyKnownLosses, PTL

-----------------------------------------------------------------------------
(* The refinement: the queue files, the callers on their way to the lock   *)
(* and the passes under way implement the ledger.                          *)

(* Only a full request goes to the marker. *)
FullInv == \A p \in Procs : pc[p] = "queueFull" => todo[p] = Paths

LEMMA FullInvInit == Init => FullInv
  BY DEF Init, FullInv

(* A caller's request changes only when it starts, drains or returns. *)
LEMMA FullInvNext == IInv /\ FullInv /\ [Next]_vars => FullInv'
<1> SUFFICES ASSUME IInv, FullInv, [Next]_vars PROVE FullInv'
  OBVIOUS
<1> USE DEF IInv, TypeOK, FullInv, Goto
<1>1. CASE UNCHANGED vars
  BY <1>1 DEF vars
<1>2. ASSUME NEW p \in Procs, NEW S \in SUBSET Paths,
             Commit(p, S) \/ Checkout(p, S) \/ Update(p, S)
      PROVE  FullInv'
  BY <1>2 DEF Commit, Checkout, Update, Start
<1>3. ASSUME NEW p \in Procs, Queue(p) \/ QueueFull(p) \/ Enter(p) \/ Release(p) \/ Extract(p)
      PROVE  FullInv'
  BY <1>3 DEF Queue, QueueFull, Enter, Release, Extract
<1>4. ASSUME NEW p \in Procs, DrainFull(p) \/ ReadPending(p) \/ UnlinkPending(p) \/ AlarmOutside(p)
      PROVE  FullInv'
  BY <1>4 DEF DrainFull, ReadPending, UnlinkPending, AlarmOutside
<1>5. ASSUME NEW p \in Procs, Refused(p) \/ Unlock(p) \/ Killed(p)
      PROVE  FullInv'
  BY <1>5 DEF Refused, Unlock, Killed, Return
<1>6. ASSUME NEW p \in Procs, Publish(p) \/ FailPass(p)
      PROVE  FullInv'
  BY <1>6 DEF Publish, FailPass, NextPass
<1>7. QED
  BY <1>1, <1>2, <1>3, <1>4, <1>5, <1>6 DEF Next, Step

(* What the queue files and p hold, and what the other processes carry. *)
Held(c, p) == c \in queued \/ queuedFull \/ c \in Carried(p)

Elsewhere(p) == UNION {Carried(q) : q \in Procs \ {p}}

OthersStay(p) == \A q \in Procs : q # p => /\ pc'[q] = pc[q] /\ todo'[q] = todo[q]
                                          /\ seen'[q] = seen[q] /\ blocking'[q] = blocking[q]

LEMMA RememberedIs ==
  ASSUME NEW p \in Procs, NEW c \in Paths
  PROVE  /\ c \in Remembered <=> Held(c, p) \/ c \in Elsewhere(p)
         /\ c \in Remembered' <=> Held(c, p)' \/ c \in Elsewhere(p)'
  BY DEF Remembered, Held, Elsewhere

LEMMA ElsewhereStays ==
  ASSUME IInv, NEW p \in Procs, UNCHANGED disk, OthersStay(p)
  PROVE  Elsewhere(p)' = Elsewhere(p)
<1>1. \A q \in Procs \ {p} : Carried(q)' = Carried(q)
  BY OthersCarry DEF OthersStay
<1>2. QED
  BY <1>1 DEF Elsewhere

(* The ledger does not see how a request is handed on. *)
LEMMA HandedOn ==
  ASSUME IInv, NEW p \in Procs, UNCHANGED <<disk, graph, dropped>>, OthersStay(p),
         \A c \in Paths : Held(c, p)' <=> Held(c, p)
  PROVE  UNCHANGED Ledger!ledger
<1>1. \A c \in Paths : c \in Remembered' <=> c \in Remembered
  BY RememberedIs, ElsewhereStays
<1>2. (Stale \cap Remembered)' = Stale \cap Remembered
  BY <1>1 DEF Stale
<1>3. QED
  BY <1>2 DEF Ledger!ledger

(* A caller puts its request into the queue files, or the holder takes     *)
(* from them.                                                              *)
LEMMA QuietRefines ==
  ASSUME IInv, FullInv, NEW p \in Procs,
         \/ Queue(p) \/ QueueFull(p) \/ Release(p) \/ DrainFull(p) \/ ReadPending(p)
         \/ Extract(p) \/ Refused(p) \/ Unlock(p)
  PROVE  UNCHANGED Ledger!ledger
<1> USE DEF IInv, TypeOK, OthersStay, Held, Goto
<1>1. CASE Queue(p)
  <2>1. \A c \in Paths : Held(c, p)' <=> Held(c, p)
    BY <1>1 DEF Queue, Carried
  <2>2. QED
    BY <1>1, <2>1, HandedOn DEF Queue
<1>2. CASE QueueFull(p)
  <2>1. \A c \in Paths : Held(c, p)' <=> Held(c, p)
    BY <1>2 DEF QueueFull, Carried, FullInv
  <2>2. QED
    BY <1>2, <2>1, HandedOn DEF QueueFull
<1>3. CASE Release(p)
  <2>1. \A c \in Paths : Held(c, p)' <=> Held(c, p)
    BY <1>3 DEF Release, Carried
  <2>2. QED
    BY <1>3, <2>1, HandedOn DEF Release
<1>4. CASE DrainFull(p)
  <2>1. \A c \in Paths : Held(c, p)' <=> Held(c, p)
    BY <1>4 DEF DrainFull, Carried
  <2>2. QED
    BY <1>4, <2>1, HandedOn DEF DrainFull
<1>5. CASE ReadPending(p)
  <2>1. \A c \in Paths : Held(c, p)' <=> Held(c, p)
    BY <1>5 DEF ReadPending, Carried
  <2>2. QED
    BY <1>5, <2>1, HandedOn DEF ReadPending
<1>6. CASE Extract(p)
  <2>1. \A c \in Paths : Held(c, p)' <=> Held(c, p)
    BY <1>6 DEF Extract, Carried
  <2>2. QED
    BY <1>6, <2>1, HandedOn DEF Extract
<1>7. CASE Refused(p)
  <2>1. \A c \in Paths : Held(c, p)' <=> Held(c, p)
    BY <1>7 DEF Refused, Return, Carried
  <2>2. QED
    BY <1>7, <2>1, HandedOn DEF Refused, Return
<1>8. CASE Unlock(p)
  <2>1. \A c \in Paths : Held(c, p)' <=> Held(c, p)
    BY <1>8 DEF Unlock, Return, Carried
  <2>2. QED
    BY <1>8, <2>1, HandedOn DEF Unlock, Return
<1>9. QED
  BY <1>1, <1>2, <1>3, <1>4, <1>5, <1>6, <1>7, <1>8

(* A request of a commit, a checkout or an update is one of the ledger. *)
LEMMA StartRefines ==
  ASSUME IInv, NEW p \in Procs, NEW S \in SUBSET Paths, NEW cover \in SUBSET Paths,
         NEW block \in BOOLEAN, NEW at \in {"queue", "queueFull", "acquire"},
         at = "acquire" => block, S \subseteq cover,
         Start(p, S, cover, block, at)
  PROVE  Ledger!Request(S, cover)
<1> USE DEF IInv, TypeOK
<1>1. /\ disk' = [c \in Paths |-> IF c \in S THEN disk[c] + 1 ELSE disk[c]]
      /\ dropped' = dropped \ S
      /\ UNCHANGED <<graph, queued, queuedFull>>
  BY DEF Start, Edited
<1>2. Carried(p) = {} /\ Carried(p)' = cover
  BY DEF Start, Goto, Carried
<1>3. ASSUME NEW c \in Paths, c \notin S
      PROVE  c \in Elsewhere(p)' <=> c \in Elsewhere(p)
  <2>1. disk'[c] = disk[c]
    BY <1>1, <1>3
  <2>2. \A q \in Procs \ {p} : /\ pc'[q] = pc[q] /\ todo'[q] = todo[q]
                               /\ seen'[q] = seen[q] /\ blocking'[q] = blocking[q]
    BY DEF Start, Goto
  <2>3. \A q \in Procs \ {p} : c \in Carried(q)' <=> c \in Carried(q)
    BY <2>1, <2>2 DEF Carried
  <2>4. QED
    BY <2>3 DEF Elsewhere
<1>4. ASSUME NEW c \in Paths
      PROVE  c \in (Stale \cap Remembered)' <=> \/ c \in Stale \cap Remembered
                                                \/ c \in cover \cap Stale'
  <2>1. c \in Remembered' <=> Held(c, p)' \/ c \in Elsewhere(p)'
    BY RememberedIs
  <2>2. c \in Remembered <=> Held(c, p) \/ c \in Elsewhere(p)
    BY RememberedIs
  <2>3. Held(c, p)' <=> Held(c, p) \/ c \in cover
    BY <1>1, <1>2 DEF Held
  <2>4. CASE c \in S
    <3>1. disk'[c] = disk[c] + 1 /\ graph'[c] = graph[c] /\ disk[c] \in Nat /\ graph[c] \in Nat
      BY <1>1, <2>4, BoundsAssumption DEF Versions
    <3>2. c \in Stale' /\ c \in cover
      BY <2>4, <3>1 DEF VersionInv, Stale
    <3>3. QED
      BY <2>1, <2>3, <3>2
  <2>5. CASE c \notin S
    <3>1. disk'[c] = disk[c]
      BY <1>1, <2>5
    <3>2. c \in Stale' <=> c \in Stale
      BY <1>1, <3>1 DEF Stale
    <3>3. QED
      BY <1>3, <2>1, <2>2, <2>3, <2>5, <3>2
  <2>6. QED
    BY <2>4, <2>5
<1>5. (Stale \cap Remembered)' = (Stale \cap Remembered) \cup (cover \cap Stale')
  BY <1>4 DEF Stale
<1>6. QED
  BY <1>1, <1>5 DEF Ledger!Request, Ledger!Behind, Stale

(* A caller that waited holds what it waited for; another rebuild may have *)
(* served what a hook queued, and the hook rebuilds it again.              *)
LEMMA EnterRefines ==
  ASSUME IInv, NEW p \in Procs, Enter(p)
  PROVE  \E C \in SUBSET Paths : Ledger!TakeUp(C)
<1> USE DEF IInv, TypeOK
<1>1. UNCHANGED <<disk, graph, dropped>> /\ OthersStay(p)
  BY DEF Enter, Goto, OthersStay
<1>2. \A c \in Paths : Held(c, p)' <=> Held(c, p) \/ c \in todo[p]
  BY DEF Enter, Goto, Held, Carried
<1>3. \A c \in Paths : c \in Remembered' <=> c \in Remembered \/ c \in todo[p]
  BY <1>1, <1>2, RememberedIs, ElsewhereStays
<1>4. (Stale \cap Remembered)' = (Stale \cap Remembered) \cup (todo[p] \cap Stale)
  BY <1>1, <1>3 DEF Stale
<1>5. todo[p] \in SUBSET Paths
  OBVIOUS
<1>6. QED
  BY <1>1, <1>4, <1>5 DEF Ledger!TakeUp, Ledger!Behind, Stale

(* What gets off the ledger while it is behind is in L. *)
LEMMA WrittenDown ==
  ASSUME IInv, IInv', NEW p \in Procs, NEW L \in SUBSET Paths,
         UNCHANGED disk, OthersStay(p),
         \A c \in Paths : graph[c] <= graph'[c] /\ graph'[c] <= disk[c],
         dropped' = dropped \cup L,
         \A c \in Paths : Held(c, p)' => Held(c, p),
         \A c \in Paths : Held(c, p) => Held(c, p)' \/ c \in L
  PROVE  Ledger!Lose(L)
<1>1. \A c \in Paths : c \in Stale' => c \in Stale
  <2>1. \A c \in Paths : graph[c] \in Nat /\ graph'[c] \in Nat /\ disk[c] \in Nat
    BY BoundsAssumption DEF IInv, TypeOK, Versions
  <2>2. QED
    BY <2>1 DEF Stale
<1>2. \A c \in Paths : c \in Remembered' => c \in Remembered
  BY RememberedIs, ElsewhereStays
<1>3. \A c \in Paths : c \in Remembered => c \in Remembered' \/ c \in L
  BY RememberedIs, ElsewhereStays
<1>4. (Stale \cap Remembered)' \subseteq (Stale \cap Remembered) \cap Stale'
  BY <1>1, <1>2 DEF Stale
<1>5. ((Stale \cap Remembered) \cap Stale') \ L \subseteq (Stale \cap Remembered)'
  BY <1>3 DEF Stale
<1>6. graph' \in [Paths -> Nat]
  BY BoundsAssumption DEF IInv, TypeOK, Versions
<1>7. QED
  BY <1>4, <1>5, <1>6 DEF Ledger!Lose, Ledger!Advance, Ledger!Behind, Stale

(* The unlink, an alarm, a kill and a failed pass. *)
LEMMA LossRefines ==
  ASSUME IInv, IInv', NEW p \in Procs,
         UnlinkPending(p) \/ AlarmOutside(p) \/ Killed(p) \/ FailPass(p)
  PROVE  \E L \in SUBSET Paths : Ledger!Lose(L)
<1> USE DEF IInv, TypeOK, Held
<1>1. \A c \in Paths : graph[c] \in Nat /\ disk[c] \in Nat /\ graph[c] <= disk[c]
  BY BoundsAssumption DEF Versions, VersionInv
<1>2. Carried(p) \in SUBSET Paths
  BY DEF Carried
<1>3. CASE UnlinkPending(p)
  <2>1. /\ UNCHANGED <<disk, graph>> /\ OthersStay(p)
        /\ dropped' = dropped \cup (queued \ todo[p])
    BY <1>3 DEF UnlinkPending, Goto, OthersStay
  <2>2. \A c \in Paths : Held(c, p)' => Held(c, p)
    BY <1>3 DEF UnlinkPending, Goto, Carried
  <2>3. \A c \in Paths : Held(c, p) => Held(c, p)' \/ c \in queued \ todo[p]
    BY <1>3 DEF UnlinkPending, Goto, Carried
  <2>4. \A c \in Paths : graph[c] <= graph'[c] /\ graph'[c] <= disk[c]
    BY <1>1, <2>1
  <2>5. (queued \ todo[p]) \in SUBSET Paths
    OBVIOUS
  <2>6. Ledger!Lose(queued \ todo[p])
    BY <2>1, <2>2, <2>3, <2>4, <2>5, WrittenDown
  <2>7. QED
    BY <2>5, <2>6
<1>4. CASE AlarmOutside(p) \/ Killed(p)
  <2>1. /\ UNCHANGED <<disk, graph, queued, queuedFull>> /\ OthersStay(p)
        /\ dropped' = dropped \cup Carried(p)
        /\ Carried(p)' = {}
    BY <1>4 DEF AlarmOutside, Killed, Return, Goto, OthersStay, Carried
  <2>2. \A c \in Paths : Held(c, p)' => Held(c, p)
    BY <2>1
  <2>3. \A c \in Paths : Held(c, p) => Held(c, p)' \/ c \in Carried(p)
    BY <2>1
  <2>4. \A c \in Paths : graph[c] <= graph'[c] /\ graph'[c] <= disk[c]
    BY <1>1, <2>1
  <2>5. Ledger!Lose(Carried(p))
    BY <1>2, <2>1, <2>2, <2>3, <2>4, WrittenDown
  <2>6. QED
    BY <1>2, <2>5
<1>5. CASE FailPass(p)
  <2>1. /\ UNCHANGED <<disk, queued, queuedFull>> /\ OthersStay(p)
        /\ dropped' = dropped \cup Carried(p)
        /\ Carried(p)' = {}
    BY <1>5 DEF FailPass, NextPass, Goto, OthersStay, Carried
  <2>2. \A c \in Paths : Held(c, p)' => Held(c, p)
    BY <2>1
  <2>3. \A c \in Paths : Held(c, p) => Held(c, p)' \/ c \in Carried(p)
    BY <2>1
  <2>4. \A c \in Paths : graph[c] <= graph'[c] /\ graph'[c] <= disk[c]
    BY <1>1, <1>5, ReplaceGraphFacts DEF FailPass
  <2>5. Ledger!Lose(Carried(p))
    BY <1>2, <2>1, <2>2, <2>3, <2>4, WrittenDown
  <2>6. QED
    BY <1>2, <2>5
<1>6. QED
  BY <1>3, <1>4, <1>5

(* A pass that ends well takes off the ledger what it brought up to date:  *)
(* what it carried, and nothing that is still behind.                      *)
LEMMA PublishRefines ==
  ASSUME IInv, IInv', NEW p \in Procs, Publish(p)
  PROVE  Ledger!Rebuild
<1> USE DEF IInv, TypeOK
<1>1. UNCHANGED <<disk, queued, queuedFull, dropped>> /\ OthersStay(p) /\ Carried(p)' = {}
  BY DEF Publish, NextPass, Goto, OthersStay, Carried
<1>2. \A c \in Paths : graph[c] <= graph'[c] /\ graph'[c] <= disk[c]
  BY ReplaceGraphFacts DEF Publish
<1>3. \A c \in Paths : graph[c] \in Nat /\ graph'[c] \in Nat /\ disk[c] \in Nat
  BY BoundsAssumption DEF Versions
<1>4. \A c \in Carried(p) : c \notin Stale'
  <2>1. \A c \in Carried(p) : c \in Paths /\ graph'[c] = disk'[c]
    BY <1>1 DEF Publish, ReplaceGraph, Carried
  <2>2. QED
    BY <1>1, <1>3, <2>1 DEF Stale
<1>5. \A c \in Paths : c \in Stale' => c \in Stale
  BY <1>1, <1>2, <1>3 DEF Stale
<1>6. \A c \in Paths : c \in Stale' => (c \in Remembered' <=> c \in Remembered)
  <2>1. \A c \in Paths : c \in Stale' => (Held(c, p)' <=> Held(c, p))
    BY <1>1, <1>4 DEF Held
  <2>2. QED
    BY <1>1, <2>1, RememberedIs, ElsewhereStays
<1>7. (Stale \cap Remembered)' = (Stale \cap Remembered) \cap Stale'
  BY <1>5, <1>6 DEF Stale
<1>8. graph' \in [Paths -> Nat]
  BY BoundsAssumption DEF Versions
<1>9. QED
  BY <1>1, <1>2, <1>7, <1>8 DEF Ledger!Rebuild, Ledger!Advance, Ledger!Behind, Stale

(* Nothing was asked for yet. *)
LEMMA LedgerInit == Init => Ledger!Init
<1> SUFFICES ASSUME Init PROVE Ledger!Init
  OBVIOUS
<1>1. disk = [c \in Paths |-> 0] /\ graph = [c \in Paths |-> 0] /\ dropped = {}
  BY DEF Init, Nothing
<1>2. Stale = {}
  BY <1>1 DEF Stale
<1>3. QED
  BY <1>1, <1>2 DEF Ledger!Init

(* Every step of the queue is a step of the ledger or does not touch it. *)
LEMMA LedgerNext ==
  IInv /\ IInv' /\ FullInv /\ [Next]_vars => [Ledger!Next]_(Ledger!ledger)
<1> SUFFICES ASSUME IInv, IInv', FullInv, [Next]_vars
             PROVE  [Ledger!Next]_(Ledger!ledger)
  OBVIOUS
<1>1. ASSUME NEW p \in Procs, NEW S \in SUBSET Paths,
             Commit(p, S) \/ Checkout(p, S) \/ Update(p, S)
      PROVE  Ledger!Next
  <2>1. \E C \in SUBSET Paths : S \in SUBSET C /\ Ledger!Request(S, C)
    <3>1. CASE Commit(p, S)
      BY <3>1, StartRefines DEF Commit
    <3>2. CASE Checkout(p, S)
      BY <3>2, StartRefines DEF Checkout
    <3>3. CASE Update(p, S)
      BY <3>3, StartRefines DEF Update
    <3>4. QED
      BY <1>1, <3>1, <3>2, <3>3
  <2>2. QED
    BY <2>1 DEF Ledger!Next
<1>2. ASSUME NEW p \in Procs, Step(p)
      PROVE  [Ledger!Next]_(Ledger!ledger)
  <2>1. CASE Enter(p)
    BY <2>1, EnterRefines DEF Ledger!Next
  <2>2. CASE UnlinkPending(p)
    BY <2>2, LossRefines DEF Ledger!Next
  <2>3. CASE Publish(p)
    BY <2>3, PublishRefines DEF Ledger!Next
  <2>4. QED
    BY <1>2, <2>1, <2>2, <2>3, QuietRefines DEF Step
<1>3. ASSUME NEW p \in Procs, FailPass(p) \/ AlarmOutside(p) \/ Killed(p)
      PROVE  Ledger!Next
  BY <1>3, LossRefines DEF Ledger!Next
<1>4. CASE UNCHANGED vars
  <2>1. (Stale \cap Remembered)' = Stale \cap Remembered
    <3>1. \A p \in Procs : Carried(p)' = Carried(p)
      BY <1>4 DEF vars, Carried
    <3>2. QED
      BY <1>4, <3>1 DEF vars, Stale, Remembered
  <2>2. QED
    BY <1>4, <2>1 DEF vars, Ledger!ledger
<1>5. QED
  BY <1>1, <1>2, <1>3, <1>4 DEF Next

(* The queue, its callers and their passes are a ledger: what is asked for *)
(* is owed until it is done, or written down as lost.                      *)
THEOREM ImplementsLedgerHolds == Spec => ImplementsLedger
  BY Invariance, FullInvInit, FullInvNext, LedgerInit, LedgerNext, PTL
     DEF Spec, ImplementsLedger, Ledger!Spec

(* What the ledger is good for: a ledger that keeps its rules has whatever *)
(* the graph is behind on owed or lost.                                    *)
THEOREM LedgerForgetsNothing == Ledger!Spec => []Ledger!NothingForgotten
<1> DEFINE LedgerInv == /\ \A c \in Paths : graph[c] \in Nat /\ disk[c] \in Nat
                        /\ Ledger!NothingForgotten
<1>1. Ledger!Init => LedgerInv
  BY DEF Ledger!Init, Ledger!NothingForgotten, Ledger!Behind
<1>2. LedgerInv /\ [Ledger!Next]_(Ledger!ledger) => LedgerInv'
  <2> SUFFICES ASSUME LedgerInv, [Ledger!Next]_(Ledger!ledger) PROVE LedgerInv'
    OBVIOUS
  <2> USE DEF Ledger!NothingForgotten, Ledger!Behind
  <2>1. ASSUME NEW C \in SUBSET Paths, NEW S \in SUBSET C, Ledger!Request(S, C)
        PROVE  LedgerInv'
    BY <2>1 DEF Ledger!Request
  <2>2. ASSUME NEW C \in SUBSET Paths, Ledger!TakeUp(C) PROVE LedgerInv'
    BY <2>2 DEF Ledger!TakeUp
  <2>3. CASE Ledger!Rebuild
    BY <2>3 DEF Ledger!Rebuild, Ledger!Advance
  <2>4. ASSUME NEW L \in SUBSET Paths, Ledger!Lose(L) PROVE LedgerInv'
    BY <2>4 DEF Ledger!Lose, Ledger!Advance
  <2>5. CASE UNCHANGED Ledger!ledger
    BY <2>5 DEF Ledger!ledger
  <2>6. QED
    BY <2>1, <2>2, <2>3, <2>4, <2>5 DEF Ledger!Next
<1>3. QED
  BY <1>1, <1>2, PTL DEF Ledger!Spec
=============================================================================
