------------------------- MODULE SnapshotStoreProofs ------------------------
(***************************************************************************)
(* What SnapshotStore promises, for any number of writers and readers,     *)
(* kills and purges.                                                       *)
(***************************************************************************)
EXTENDS SnapshotStore, TLAPS

InLock == {"pid", "sweep", "encode", "publish", "unlock"}

(* The flock covers a writer from its PID to its unlock, and a probe. *)
LockInv == /\ \A b \in Builders : pc[b] \in InLock => holder = b
           /\ \A p \in Procs : pc[p] = "probed" => holder = p

NextGen == IF live = NoSnap THEN 1 ELSE live.gen + 1

(* Nobody publishes between a writer's sweep and its rename. *)
GenInv == \A b \in Builders : pc[b] \in {"encode", "publish"} => gen[b] = NextGen

(* graph.json comes before the snapshot, and goes only when nobody builds. *)
JsonInv == /\ json \in {0, written}
           /\ live # NoSnap => json # 0
           /\ \A b \in Builders : pc[b] # "idle" => json # 0

(* What a reader has mapped since the last purge is graph.snap or an       *)
(* earlier generation of it.                                               *)
SnapInv == \A r \in Readers \ outlived : snap[r] # NoSnap =>
             /\ live # NoSnap
             /\ snap[r].gen <= live.gen
             /\ snap[r].gen = live.gen => snap[r] = live

ReadInv == \A r \in Readers :
             /\ asked[r] <= written
             /\ pc[r] \in {"opened", "follow", "check", "answer"} => snap[r] # NoSnap
             /\ r \notin outlived /\ pc[r] = "answer" => snap[r].from >= asked[r]

RoleInv == /\ \A r \in Readers : pc[r] \notin InLock \cup {"scan", "lock"}
           /\ \A b \in Builders : pc[b] \notin {"opened", "follow", "check", "answer"}

IInv == /\ TypeOK
        /\ JsonInv
        /\ RoleInv
        /\ LockInv
        /\ GenInv
        /\ SweepSparesTheLiving
        /\ SnapInv
        /\ ReadInv

(* Nothing exists yet. *)
LEMMA InitInv == Init => IInv
  BY RolesAssumption, BoundsAssumption, NoSnapAssumption
  DEF Init, IInv, TypeOK, Snapshots, Location, RoleInv, LockInv, GenInv, NextGen, SnapInv,
      ReadInv, JsonInv, SweepSparesTheLiving, Procs, InLock

(* graph.json only becomes newer. *)
LEMMA BeginKeeps == ASSUME IInv, NEW b \in Builders, Begin(b) PROVE IInv'
  <1> USE RolesAssumption, BoundsAssumption, NoSnapAssumption
      DEF IInv, Begin, Goto, Procs, files, building, reading
  <1>1. TypeOK'
    BY DEF TypeOK, Snapshots, Location
  <1>2. RoleInv' /\ LockInv'
    BY DEF RoleInv, LockInv, InLock, TypeOK, Location
  <1>3. GenInv' /\ SweepSparesTheLiving'
    BY DEF GenInv, NextGen, SweepSparesTheLiving, LockInv, InLock, TypeOK, Snapshots, Location
  <1>4. JsonInv' /\ SnapInv' /\ ReadInv'
    BY DEF JsonInv, SnapInv, ReadInv, RoleInv, TypeOK, Snapshots, Location
  <1>. QED BY <1>1, <1>2, <1>3, <1>4

(* Before the sweep a writer changes nothing that readers see. *)
LEMMA ApproachKeeps == ASSUME IInv, NEW b \in Builders, Scan(b) \/ Lock(b) \/ TimedOut(b) \/ WritePid(b) PROVE IInv'
  <1> USE RolesAssumption, BoundsAssumption, NoSnapAssumption
      DEF IInv, Scan, Lock, TimedOut, WritePid, Goto, Procs, files, building, reading
  <1>1. TypeOK'
    BY DEF TypeOK, Snapshots, Location
  <1>2. RoleInv' /\ LockInv'
    BY DEF RoleInv, LockInv, InLock, TypeOK, Location
  <1>3. GenInv' /\ SweepSparesTheLiving'
    BY DEF GenInv, NextGen, SweepSparesTheLiving, LockInv, InLock, TypeOK, Snapshots, Location
  <1>4. JsonInv' /\ SnapInv' /\ ReadInv'
    BY DEF JsonInv, SnapInv, ReadInv, RoleInv, TypeOK, Snapshots, Location
  <1>. QED BY <1>1, <1>2, <1>3, <1>4

(* The next generation, and nobody else is in the lock to lose a file. *)
LEMMA SweepKeeps == ASSUME IInv, NEW b \in Builders, Sweep(b) PROVE IInv'
  <1> USE RolesAssumption, BoundsAssumption, NoSnapAssumption
      DEF IInv, Sweep, Goto, Procs, files, building, reading
  <1>1. TypeOK'
    BY DEF TypeOK, Snapshots, Location
  <1>2. RoleInv' /\ LockInv'
    BY DEF RoleInv, LockInv, InLock, TypeOK, Location
  <1>3. GenInv' /\ SweepSparesTheLiving'
    BY DEF GenInv, NextGen, SweepSparesTheLiving, LockInv, InLock, TypeOK, Snapshots, Location
  <1>4. JsonInv' /\ SnapInv' /\ ReadInv'
    BY DEF JsonInv, SnapInv, ReadInv, RoleInv, TypeOK, Snapshots, Location
  <1>. QED BY <1>1, <1>2, <1>3, <1>4

(* The writer's own file only. *)
LEMMA EncodeKeeps == ASSUME IInv, NEW b \in Builders, Encode(b) PROVE IInv'
  <1> USE RolesAssumption, BoundsAssumption, NoSnapAssumption
      DEF IInv, Encode, Goto, Procs, files, building, reading
  <1>1. TypeOK'
    BY DEF TypeOK, Snapshots, Location
  <1>2. RoleInv' /\ LockInv'
    BY DEF RoleInv, LockInv, InLock, TypeOK, Location
  <1>3. GenInv' /\ SweepSparesTheLiving'
    BY DEF GenInv, NextGen, SweepSparesTheLiving, LockInv, InLock, TypeOK, Snapshots, Location
  <1>4. JsonInv' /\ SnapInv' /\ ReadInv'
    BY DEF JsonInv, SnapInv, ReadInv, RoleInv, TypeOK, Snapshots, Location
  <1>. QED BY <1>1, <1>2, <1>3, <1>4

(* Readers are at live.gen at most, and gen[b] is the one after it. *)
LEMMA PublishKeeps == ASSUME IInv, NEW b \in Builders, Publish(b) PROVE IInv'
  <1> USE RolesAssumption, BoundsAssumption, NoSnapAssumption
      DEF IInv, Publish, Goto, Procs, files, building, reading
  <1>1. TypeOK'
    <2>1. pc[b] = "publish" => gen[b] \in Nat \ {0}
      BY DEF GenInv, NextGen, TypeOK, Snapshots
    <2>2. live' \in Snapshots \cup {NoSnap}
      BY <2>1 DEF TypeOK, Snapshots
    <2>3. temp' \in [Builders -> BOOLEAN] /\ pc' \in [Procs -> Location]
      BY DEF TypeOK, Location
    <2>. QED BY <2>2, <2>3 DEF TypeOK
  <1>2. RoleInv' /\ LockInv'
    BY DEF RoleInv, LockInv, InLock, TypeOK, Location
  <1>3. GenInv' /\ SweepSparesTheLiving'
    BY DEF GenInv, NextGen, SweepSparesTheLiving, LockInv, InLock, TypeOK, Snapshots, Location
  <1>4. JsonInv' /\ SnapInv' /\ ReadInv'
    BY DEF JsonInv, SnapInv, ReadInv, RoleInv, GenInv, NextGen, TypeOK, Snapshots, Location
  <1>. QED BY <1>1, <1>2, <1>3, <1>4

(* However a writer ends, it only gives up what is its own. *)
LEMMA EndKeeps == ASSUME IInv, NEW b \in Builders, Unlock(b) \/ Killed(b) PROVE IInv'
  <1> USE RolesAssumption, BoundsAssumption, NoSnapAssumption
      DEF IInv, Unlock, Killed, Release, Goto, Procs, files, building, reading
  <1>1. TypeOK'
    <2>1. holder' \in Procs \cup {NoProc} /\ pc' \in [Procs -> Location]
      BY DEF TypeOK, Location
    <2>2. temp' \in [Builders -> BOOLEAN]
      BY DEF TypeOK
    <2>. QED BY <2>1, <2>2 DEF TypeOK
  <1>2. RoleInv' /\ LockInv'
    BY DEF RoleInv, LockInv, InLock, TypeOK, Location
  <1>3. GenInv' /\ SweepSparesTheLiving'
    BY DEF GenInv, NextGen, SweepSparesTheLiving, LockInv, InLock, TypeOK, Snapshots, Location
  <1>4. JsonInv' /\ SnapInv' /\ ReadInv'
    BY DEF JsonInv, SnapInv, ReadInv, RoleInv, TypeOK, Snapshots, Location
  <1>. QED BY <1>1, <1>2, <1>3, <1>4

(* Readers map what is published. *)
LEMMA MapKeeps == ASSUME IInv, NEW r \in Readers, Open(r) \/ Follow(r) PROVE IInv'
  <1> USE RolesAssumption, BoundsAssumption, NoSnapAssumption
      DEF IInv, Open, Follow, Goto, Procs, files, building, reading
  <1>1. TypeOK'
    BY DEF TypeOK, Snapshots, Location
  <1>2. RoleInv' /\ LockInv'
    BY DEF RoleInv, LockInv, InLock, TypeOK, Location
  <1>3. GenInv' /\ SweepSparesTheLiving'
    BY DEF GenInv, NextGen, SweepSparesTheLiving, LockInv, InLock, TypeOK, Snapshots, Location
  <1>4. JsonInv' /\ SnapInv' /\ ReadInv'
    BY DEF JsonInv, SnapInv, ReadInv, RoleInv, TypeOK, Snapshots, Location
  <1>. QED BY <1>1, <1>2, <1>3, <1>4

(* A request that passes the check has mapped the newest version. *)
LEMMA RequestKeeps == ASSUME IInv, NEW r \in Readers, Ask(r) \/ Check(r) \/ Answer(r) PROVE IInv'
  <1> USE RolesAssumption, BoundsAssumption, NoSnapAssumption
      DEF IInv, Ask, Check, Answer, Fresh, Goto, Procs, files, building, reading
  <1>1. TypeOK'
    BY DEF TypeOK, Snapshots, Location
  <1>2. RoleInv' /\ LockInv'
    BY DEF RoleInv, LockInv, InLock, TypeOK, Location
  <1>3. GenInv' /\ SweepSparesTheLiving'
    BY DEF GenInv, NextGen, SweepSparesTheLiving, LockInv, InLock, TypeOK, Snapshots, Location
  <1>4. JsonInv' /\ SnapInv' /\ ReadInv'
    BY DEF JsonInv, SnapInv, ReadInv, RoleInv, TypeOK, Snapshots, Location
  <1>. QED BY <1>1, <1>2, <1>3, <1>4

(* The probes of writer_pid hold the lock without writing. *)
LEMMA ProbeKeeps == ASSUME IInv, NEW p \in Procs, ProbeStep(p) PROVE IInv'
  <1> USE RolesAssumption, BoundsAssumption, NoSnapAssumption
      DEF IInv, ProbeStep, Probe, EndProbe, ReadPid, Release, Goto, Procs, files, building, reading
  <1>1. TypeOK'
    BY DEF TypeOK, Snapshots, Location
  <1>2. RoleInv' /\ LockInv'
    BY DEF RoleInv, LockInv, InLock, TypeOK, Location
  <1>3. GenInv' /\ SweepSparesTheLiving'
    BY DEF GenInv, NextGen, SweepSparesTheLiving, LockInv, InLock, TypeOK, Snapshots, Location
  <1>4. JsonInv' /\ SnapInv' /\ ReadInv'
    BY DEF JsonInv, SnapInv, ReadInv, RoleInv, TypeOK, Snapshots, Location
  <1>. QED BY <1>1, <1>2, <1>3, <1>4

(* Nobody is writing, and no mapping counts any more. *)
LEMMA PurgeKeeps == ASSUME IInv, Purge PROVE IInv'
  <1> USE RolesAssumption, BoundsAssumption, NoSnapAssumption
      DEF IInv, Purge, Procs, reading
  <1>1. TypeOK'
    BY DEF TypeOK, Snapshots, Location
  <1>2. \A b \in Builders : pc[b] = "idle"
    BY DEF RoleInv
  <1>3. RoleInv' /\ LockInv'
    BY <1>2 DEF RoleInv, LockInv, InLock
  <1>4. GenInv' /\ SweepSparesTheLiving'
    BY <1>2 DEF GenInv, SweepSparesTheLiving
  <1>5. JsonInv' /\ SnapInv' /\ ReadInv'
    BY <1>2 DEF JsonInv, SnapInv, ReadInv
  <1>. QED BY <1>1, <1>3, <1>4, <1>5

(* Every step keeps the invariant. *)
LEMMA NextInv == IInv /\ [Next]_vars => IInv'
  <1> SUFFICES ASSUME IInv, [Next]_vars PROVE IInv'
    OBVIOUS
  <1>1. CASE Next
    <2>1. ASSUME NEW b \in Builders, Begin(b) \/ TimedOut(b) \/ Killed(b) PROVE IInv'
      BY <2>1, BeginKeeps, ApproachKeeps, EndKeeps
    <2>2. ASSUME NEW b \in Builders, BuildStep(b) PROVE IInv'
      BY <2>2, ApproachKeeps, SweepKeeps, EncodeKeeps, PublishKeeps, EndKeeps DEF BuildStep
    <2>3. ASSUME NEW r \in Readers, ReadStep(r) PROVE IInv'
      BY <2>3, MapKeeps, RequestKeeps DEF ReadStep
    <2>4. ASSUME NEW p \in Procs, ProbeStep(p) PROVE IInv'
      BY <2>4, ProbeKeeps
    <2>. QED BY <1>1, <2>1, <2>2, <2>3, <2>4, PurgeKeeps DEF Next
  <1>2. CASE UNCHANGED vars
    BY <1>2 DEF vars, files, building, reading, IInv, TypeOK, RoleInv, LockInv, GenInv,
       NextGen, SweepSparesTheLiving, SnapInv, ReadInv, JsonInv
  <1>. QED BY <1>1, <1>2

(* The inductive invariant holds throughout; the theorems below are parts *)
(* of it.                                                                  *)
THEOREM Invariance == Spec => []IInv
  BY InitInv, NextInv, PTL DEF Spec

(* Every variable keeps its type, whatever is killed and whenever. *)
THEOREM TypeCorrect == Spec => []TypeOK
  <1>1. IInv => TypeOK
    BY DEF IInv
  <1>. QED BY <1>1, Invariance, PTL

(* Equal generations are equal snapshots: what _begin decides by the       *)
(* generation, it decides rightly.                                         *)
THEOREM GenerationNamesSnapshotHolds == Spec => []GenerationNamesSnapshot
  <1>1. IInv => GenerationNamesSnapshot
    BY DEF IInv, SnapInv, GenerationNamesSnapshot
  <1>. QED BY <1>1, Invariance, PTL

(* publish_snapshot's sweep never takes the file of a living writer. *)
THEOREM SweepSparesTheLivingHolds == Spec => []SweepSparesTheLiving
  <1>1. IInv => SweepSparesTheLiving
    BY DEF IInv
  <1>. QED BY <1>1, Invariance, PTL

(* A request is not answered from a mapping older than the graph.json it   *)
(* found.                                                                  *)
THEOREM AnswersAreNotStaleHolds == Spec => []AnswersAreNotStale
  <1>1. IInv => AnswersAreNotStale
    BY DEF IInv, ReadInv, AnswersAreNotStale
  <1>. QED BY <1>1, Invariance, PTL

(* graph.snap goes from one generation to a later one until it is purged. *)
THEOREM GenerationsGrowHolds == Spec => GenerationsGrow
  <1> DEFINE Grows == live' # live => IF live' = NoSnap THEN json' = 0
                                      ELSE live = NoSnap \/ live'.gen > live.gen
  <1>1. IInv /\ [Next]_vars => [Grows]_vars
    <2> SUFFICES ASSUME IInv, Next PROVE Grows
      BY DEF vars
    <2>1. ASSUME NEW b \in Builders, Publish(b) PROVE Grows
      BY <2>1, NoSnapAssumption
         DEF IInv, TypeOK, GenInv, NextGen, Snapshots, Publish
    <2>2. CASE Purge
      BY <2>2 DEF Purge
    <2>3. ASSUME ~Purge, ~\E b \in Builders : Publish(b) PROVE live' = live
      BY <2>3 DEF Next, BuildStep, ReadStep, ProbeStep, Begin, Scan, Lock, TimedOut,
         WritePid, Sweep, Encode, Unlock, Killed, Open, Ask, Follow, Check, Answer, Probe,
         EndProbe, ReadPid, files
    <2>. QED BY <2>1, <2>2, <2>3
  <1>. QED BY <1>1, Invariance, PTL DEF Spec, GenerationsGrow

-----------------------------------------------------------------------------
(* The refinement: the writers' protocol implements the register. *)

HasScanned == {"lock", "pid", "sweep", "encode", "publish"}

(* What a writer goes to publish was graph.json when it was scanned: it    *)
(* was written, and no purge comes between the scan and the rename.        *)
ScanInv == \A b \in Builders : pc[b] \in HasScanned => scan[b] \in 1..written

LEMMA ScanInvInit == Init => ScanInv
  BY DEF Init, ScanInv, HasScanned, Procs

(* graph.json only becomes newer, and a scan finds the newest. *)
LEMMA ScanInvNext == IInv /\ ScanInv /\ [Next]_vars => ScanInv'
  <1> SUFFICES ASSUME IInv, ScanInv, [Next]_vars PROVE ScanInv'
    OBVIOUS
  <1> USE BoundsAssumption DEF IInv, TypeOK, JsonInv, ScanInv, HasScanned, Procs
  <1>1. ASSUME NEW b \in Builders, Begin(b) PROVE ScanInv'
    BY <1>1 DEF Begin, Goto, building
  <1>2. ASSUME NEW b \in Builders, Scan(b) PROVE ScanInv'
    BY <1>2 DEF Scan, Goto, files
  <1>3. ASSUME NEW b \in Builders, Lock(b) \/ WritePid(b) \/ Unlock(b) \/ TimedOut(b) PROVE ScanInv'
    BY <1>3 DEF Lock, WritePid, Unlock, TimedOut, Goto, files, building
  <1>4. ASSUME NEW b \in Builders, Sweep(b) \/ Encode(b) \/ Publish(b) \/ Killed(b) PROVE ScanInv'
    BY <1>4 DEF Sweep, Encode, Publish, Killed, Goto, files
  <1>5. ASSUME NEW r \in Readers, ReadStep(r) PROVE ScanInv'
    <2>1. UNCHANGED <<scan, written>>
      BY <1>5 DEF ReadStep, Open, Ask, Follow, Check, Answer, files, building
    <2>2. \A b \in Builders : pc'[b] = pc[b]
      BY <1>5, RolesAssumption DEF ReadStep, Open, Ask, Follow, Check, Answer, Goto
    <2>. QED BY <2>1, <2>2
  <1>6. ASSUME NEW p \in Procs, ProbeStep(p) PROVE ScanInv'
    BY <1>6 DEF ProbeStep, Probe, EndProbe, ReadPid, Goto, files, building
  <1>7. CASE Purge
    BY <1>7 DEF Purge
  <1>8. CASE UNCHANGED vars
    BY <1>8 DEF vars, files, building
  <1>. QED BY <1>1, <1>2, <1>3, <1>4, <1>5, <1>6, <1>7, <1>8 DEF Next, BuildStep

(* An empty store is an empty register. *)
LEMMA RegisterInit == Init => Register!Init
  BY DEF Init, Register!Init

(* A step of a writer: graph.json is written, the next generation of a     *)
(* written version is published, or the register does not change.          *)
LEMMA WritersRefine ==
  ASSUME IInv, ScanInv, NEW b \in Builders,
         Begin(b) \/ BuildStep(b) \/ TimedOut(b) \/ Killed(b)
  PROVE  [Register!Next]_(Register!register)
  <1> USE DEF Register!register, files, building, reading
  <1>1. CASE Begin(b)
    BY <1>1 DEF Begin, Register!Next, Register!Write
  <1>2. CASE Publish(b)
    <2>1. CASE temp[b]
      <3>1. gen[b] = Register!NextGeneration
        BY <1>2 DEF IInv, GenInv, NextGen, Publish, Register!NextGeneration
      <3>2. scan[b] \in 1..written
        BY <1>2 DEF ScanInv, HasScanned, Publish
      <3>3. Register!Publish(scan[b])
        BY <1>2, <2>1, <3>1 DEF Publish, Register!Publish
      <3>. QED BY <3>2, <3>3 DEF Register!Next
    <2>2. CASE ~temp[b]
      BY <1>2, <2>2 DEF Publish
    <2>. QED BY <2>1, <2>2
  <1>3. CASE Scan(b) \/ Lock(b) \/ WritePid(b) \/ Sweep(b) \/ Encode(b) \/ Unlock(b)
    BY <1>3 DEF Scan, Lock, WritePid, Sweep, Encode, Unlock
  <1>4. CASE TimedOut(b) \/ Killed(b)
    BY <1>4 DEF TimedOut, Killed
  <1>. QED BY <1>1, <1>2, <1>3, <1>4 DEF BuildStep

(* A step of a reader: it looks, it lets go of a snapshot that its         *)
(* constructor refuses, or what it works with does not change.             *)
LEMMA ReadersRefine ==
  ASSUME IInv, NEW r \in Readers, ReadStep(r)
  PROVE  [Register!Next]_(Register!register)
  <1> USE DEF Register!register, files, building, reading
  <1> USE DEF IInv, TypeOK
  <1>1. CASE Open(r)
    <2>1. CASE live = NoSnap
      BY <1>1, <2>1 DEF Open
    <2>2. CASE live # NoSnap
      BY <1>1, <2>2 DEF Open, Register!Next, Register!Look
    <2>. QED BY <2>1, <2>2
  <1>2. CASE Follow(r)
    <2>1. CASE live = NoSnap
      BY <1>2, <2>1 DEF Follow
    <2>2. CASE live # NoSnap
      BY <1>2, <2>2 DEF Follow, Register!Next, Register!Look
    <2>. QED BY <2>1, <2>2
  <1>3. CASE Check(r)
    <2>1. snap' = snap \/ snap' = [snap EXCEPT ![r] = NoSnap]
      BY <1>3 DEF Check
    <2>2. UNCHANGED <<written, live>>
      BY <1>3 DEF Check
    <2>. QED BY <2>1, <2>2 DEF Register!Next, Register!LetGo
  <1>4. CASE Ask(r) \/ Answer(r)
    BY <1>4 DEF Ask, Answer
  <1>. QED BY <1>1, <1>2, <1>3, <1>4 DEF ReadStep

(* Every step is a step of the register or leaves it as it is. *)
LEMMA RegisterNext ==
  IInv /\ ScanInv /\ [Next]_vars => [Register!Next]_(Register!register)
  <1> SUFFICES ASSUME IInv, ScanInv, [Next]_vars
               PROVE  [Register!Next]_(Register!register)
    OBVIOUS
  <1>1. ASSUME NEW p \in Procs, ProbeStep(p) PROVE UNCHANGED Register!register
    BY <1>1 DEF ProbeStep, Probe, EndProbe, ReadPid, files, reading, Register!register
  <1>2. CASE Purge
    BY <1>2 DEF Purge, Register!Next, Register!Purge
  <1>3. CASE UNCHANGED vars
    BY <1>3 DEF vars, files, reading, Register!register
  <1>. QED BY <1>1, <1>2, <1>3, WritersRefine, ReadersRefine DEF Next

(* graph.snap is an atomic register to its readers, with any number of     *)
(* writers that wait, fail, sweep and die between any two of their steps.  *)
THEOREM ImplementsRegisterHolds == Spec => ImplementsRegister
  BY Invariance, ScanInvInit, ScanInvNext, RegisterInit, RegisterNext, PTL
     DEF Spec, ImplementsRegister, Register!Spec
=============================================================================
