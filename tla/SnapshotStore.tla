--------------------------- MODULE SnapshotStore ----------------------------
(***************************************************************************)
(* graph.snap, its writers (snap_writer.py build_snapshot and the          *)
(* publish_snapshot under it) and its readers (snap_backend.py             *)
(* SnapBackend, one per process, kept for the life of an MCP server).      *)
(*                                                                         *)
(* A writer scans graph.json, waits for the flock of graph.snap.lock,      *)
(* removes what dead writers left, writes the next generation to a file of *)
(* its own and renames it over graph.snap.  A reader holds the generation  *)
(* it has mapped; each request follows a newer one and then compares the   *)
(* size and mtime its source had with graph.json's.                        *)
(*                                                                         *)
(* The contents of graph.json are a version number, and versions differ in *)
(* size or mtime.  The lock is the POSIX one; wheels, formats and port     *)
(* hashes that do not match, and files removed by hand, are not modelled.  *)
(***************************************************************************)
EXTENDS Integers

CONSTANTS Builders,    \* processes that run commands which build the snapshot
          Readers,     \* processes that answer queries from it
          NoProc,      \* nobody
          NoSnap,      \* no graph.snap, none opened
          MaxWrites,   \* bound: versions of graph.json written
          MaxBuilds,   \* bound: builds begun
          MayFail,     \* builds fail, wait too long and are killed
          MayPurge     \* `graphify uninstall --purge` between builds

Procs == Builders \cup Readers

ASSUME RolesAssumption    == Builders \cap Readers = {} /\ NoProc \notin Procs
ASSUME NoSnapAssumption   == NoSnap \notin [gen : Nat, from : Nat]
ASSUME BoundsAssumption   == MaxWrites \in Nat /\ MaxBuilds \in Nat
ASSUME SwitchesAssumption == MayFail \in BOOLEAN /\ MayPurge \in BOOLEAN

VARIABLES json,      \* the version of graph.json, 0 when there is none
          written,   \* the versions written so far
          builds,    \* the builds begun so far
          live,      \* graph.snap: its generation and the version it is of
          holder,    \* who has the flock on graph.snap.lock
          pid,       \* whose PID graph.snap.lock contains
          temp,      \* builder -> its graph.snap.<pid>.tmp exists
          scan,      \* builder -> the version it scanned
          gen,       \* builder -> the generation it writes
          snap,      \* reader -> the snapshot it has mapped
          asked,     \* ghost: reader -> the version when its request arrived
          outlived,  \* ghost: readers whose mapping a purge has outlived
          pc

files == <<json, written, live>>
building == <<builds, temp, scan, gen>>
reading == <<snap, asked, outlived>>
vars == <<files, building, reading, holder, pid, pc>>

Snapshots == [gen : Nat \ {0}, from : 0..MaxWrites]

Location == {"idle", "scan", "lock", "pid", "sweep", "encode", "publish", "unlock",
             "opened", "follow", "check", "answer", "probe", "probed", "readpid"}

(* Every variable keeps its type; published generations start at 1. *)
TypeOK == /\ json \in 0..MaxWrites
          /\ written \in 0..MaxWrites
          /\ builds \in 0..MaxBuilds
          /\ live \in Snapshots \cup {NoSnap}
          /\ holder \in Procs \cup {NoProc}
          /\ pid \in Builders \cup {NoProc}
          /\ temp \in [Builders -> BOOLEAN]
          /\ scan \in [Builders -> 0..MaxWrites]
          /\ gen \in [Builders -> Nat]
          /\ snap \in [Readers -> Snapshots \cup {NoSnap}]
          /\ asked \in [Readers -> 0..MaxWrites]
          /\ outlived \in SUBSET Readers
          /\ pc \in [Procs -> Location]

Init == /\ json = 0 /\ written = 0 /\ builds = 0
        /\ live = NoSnap
        /\ holder = NoProc /\ pid = NoProc
        /\ temp = [b \in Builders |-> FALSE]
        /\ scan = [b \in Builders |-> 0]
        /\ gen = [b \in Builders |-> 0]
        /\ snap = [r \in Readers |-> NoSnap]
        /\ asked = [r \in Readers |-> 0]
        /\ outlived = {}
        /\ pc = [p \in Procs |-> "idle"]

Goto(p, l) == pc' = [pc EXCEPT ![p] = l]

-----------------------------------------------------------------------------
(* Writers. *)

(* extract, update, cluster-only, label, global: graph.json is replaced    *)
(* and then publish_snapshot_for runs the build; `graphify snap build`     *)
(* only builds.                                                            *)
Begin(b) ==
  /\ pc[b] = "idle"
  /\ builds < MaxBuilds
  /\ \/ /\ written < MaxWrites
        /\ written' = written + 1
        /\ json' = written + 1
     \/ json # 0 /\ UNCHANGED <<json, written>>
  /\ builds' = builds + 1
  /\ Goto(b, "scan")
  /\ UNCHANGED <<live, temp, scan, gen, reading, holder, pid>>

(* _FileGraph: hash and scan the file, keep the handle. *)
Scan(b) ==
  /\ pc[b] = "scan"
  /\ scan' = [scan EXCEPT ![b] = json]
  /\ Goto(b, "lock")
  /\ UNCHANGED <<files, builds, temp, gen, reading, holder, pid>>

(* Mutant: the lock is not waited for. *)
LockIgnored(b) ==
  /\ pc[b] = "lock"
  /\ holder' = b
  /\ Goto(b, "pid")
  /\ UNCHANGED <<files, building, reading, pid>>

(* writer_lock. *)
Lock(b) ==
  /\ pc[b] = "lock"
  /\ holder = NoProc
  /\ holder' = b
  /\ Goto(b, "pid")
  /\ UNCHANGED <<files, building, reading, pid>>

(* TimeoutError; its message asks for writer_pid. *)
TimedOut(b) ==
  /\ MayFail
  /\ pc[b] = "lock"
  /\ holder # NoProc
  /\ Goto(b, "probe")
  /\ UNCHANGED <<files, building, reading, holder, pid>>

WritePid(b) ==
  /\ pc[b] = "pid"
  /\ \/ pid' = b
     \/ MayFail /\ pid' \in {pid, NoProc}
  /\ Goto(b, "sweep")
  /\ UNCHANGED <<files, building, reading, holder>>

(* Mutant: every build writes generation 1. *)
SweepSameGeneration(b) ==
  /\ pc[b] = "sweep"
  /\ temp' = [c \in Builders |-> FALSE]
  /\ gen' = [gen EXCEPT ![b] = 1]
  /\ Goto(b, "encode")
  /\ UNCHANGED <<files, builds, scan, reading, holder, pid>>

(* Remove the files of dead writers, peek at the published generation. *)
Sweep(b) ==
  /\ pc[b] = "sweep"
  /\ temp' = [c \in Builders |-> FALSE]
  /\ gen' = [gen EXCEPT ![b] = IF live = NoSnap THEN 1 ELSE live.gen + 1]
  /\ Goto(b, "encode")
  /\ UNCHANGED <<files, builds, scan, reading, holder, pid>>

Encode(b) ==
  /\ pc[b] = "encode"
  /\ \/ /\ temp' = [temp EXCEPT ![b] = TRUE]
        /\ Goto(b, "publish")
     \/ /\ MayFail    \* encode raises: the file is unlinked
        /\ temp' = [temp EXCEPT ![b] = FALSE]
        /\ Goto(b, "unlock")
  /\ UNCHANGED <<files, builds, scan, gen, reading, holder, pid>>

(* The rename fails when the file is gone. *)
Publish(b) ==
  /\ pc[b] = "publish"
  /\ IF temp[b]
     THEN /\ live' = [gen |-> gen[b], from |-> scan[b]]
          /\ temp' = [temp EXCEPT ![b] = FALSE]
     ELSE UNCHANGED <<live, temp>>
  /\ Goto(b, "unlock")
  /\ UNCHANGED <<json, written, builds, scan, gen, reading, holder, pid>>

Release(p) == holder' = IF holder = p THEN NoProc ELSE holder

Unlock(b) ==
  /\ pc[b] = "unlock"
  /\ Release(b)
  /\ Goto(b, "idle")
  /\ UNCHANGED <<files, building, reading, pid>>

(* A kill: the flock is gone, the file may be left. *)
Killed(b) ==
  /\ MayFail
  /\ pc[b] # "idle"
  /\ Release(b)
  /\ temp' \in {temp, [temp EXCEPT ![b] = temp[b] \/ pc[b] = "encode"]}
  /\ Goto(b, "idle")
  /\ UNCHANGED <<files, builds, scan, gen, reading, pid>>

(* `graphify uninstall --purge` between builds: graphify-out is deleted,   *)
(* what readers have mapped is not, and generations start over.            *)
Purge ==
  /\ MayPurge
  /\ \A p \in Procs : pc[p] \in {"idle", "opened", "follow", "check", "answer"}
  /\ json # 0
  /\ json' = 0
  /\ live' = NoSnap
  /\ pid' = NoProc
  /\ temp' = [b \in Builders |-> FALSE]
  /\ outlived' = Readers
  /\ UNCHANGED <<written, builds, scan, gen, snap, asked, holder, pc>>

-----------------------------------------------------------------------------
(* Readers. *)

(* SnapBackend(path): open_snapshot, its freshness check to follow. *)
Open(r) ==
  /\ pc[r] = "idle"
  /\ snap[r] = NoSnap
  /\ snap' = [snap EXCEPT ![r] = live]
  /\ outlived' = outlived \ {r}
  /\ Goto(r, IF live = NoSnap THEN "probe" ELSE "opened")
  /\ UNCHANGED <<files, building, asked, holder, pid>>

(* Mutant: a request stays with the generation that was opened first. *)
AskNeverFollows(r) ==
  /\ pc[r] = "idle"
  /\ snap[r] # NoSnap
  /\ asked' = [asked EXCEPT ![r] = json]
  /\ Goto(r, "check")
  /\ UNCHANGED <<files, building, snap, outlived, holder, pid>>

(* _begin of a request: peek_generation. *)
Ask(r) ==
  /\ pc[r] = "idle"
  /\ snap[r] # NoSnap
  /\ asked' = [asked EXCEPT ![r] = json]
  /\ Goto(r, IF live # NoSnap /\ live.gen # snap[r].gen THEN "follow" ELSE "check")
  /\ UNCHANGED <<files, building, snap, outlived, holder, pid>>

(* Map graph.snap again; after three failures stay with the old one. *)
Follow(r) ==
  /\ pc[r] = "follow"
  /\ snap' = [snap EXCEPT ![r] = IF live = NoSnap THEN @ ELSE live]
  /\ outlived' = IF live = NoSnap THEN outlived ELSE outlived \ {r}
  /\ Goto(r, "check")
  /\ UNCHANGED <<files, building, asked, holder, pid>>

Fresh(r) == json = 0 \/ snap[r].from = json

(* Mutant: a snapshot is compared with graph.json when it is opened only. *)
CheckOpenedOnly(r) ==
  \/ /\ pc[r] = "opened"
     /\ snap' = [snap EXCEPT ![r] = IF Fresh(r) THEN @ ELSE NoSnap]
     /\ Goto(r, IF Fresh(r) THEN "idle" ELSE "probe")
     /\ UNCHANGED <<files, building, asked, outlived, holder, pid>>
  \/ /\ pc[r] = "check"
     /\ Goto(r, "answer")
     /\ UNCHANGED <<files, building, reading, holder, pid>>

(* check_fresh: no graph.json is no objection.  A refused constructor      *)
(* leaves no backend, a refused request leaves it as it is; both messages  *)
(* ask for writer_pid.                                                     *)
Check(r) ==
  \/ /\ pc[r] = "opened"
     /\ snap' = [snap EXCEPT ![r] = IF Fresh(r) THEN @ ELSE NoSnap]
     /\ Goto(r, IF Fresh(r) THEN "idle" ELSE "probe")
     /\ UNCHANGED <<files, building, asked, outlived, holder, pid>>
  \/ /\ pc[r] = "check"
     /\ Goto(r, IF Fresh(r) THEN "answer" ELSE "probe")
     /\ UNCHANGED <<files, building, reading, holder, pid>>

(* The answer, from what is mapped whatever happens to the files. *)
Answer(r) ==
  /\ pc[r] = "answer"
  /\ Goto(r, "idle")
  /\ UNCHANGED <<files, building, reading, holder, pid>>

-----------------------------------------------------------------------------
(* writer_pid: nobody writes if the lock can be had. *)
Probe(p) ==
  /\ pc[p] = "probe"
  /\ \/ /\ holder = NoProc
        /\ holder' = p
        /\ Goto(p, "probed")
     \/ /\ holder # NoProc
        /\ Goto(p, "readpid")
        /\ UNCHANGED holder
  /\ UNCHANGED <<files, building, reading, pid>>

EndProbe(p) ==
  /\ pc[p] = "probed"
  /\ Release(p)
  /\ Goto(p, "idle")
  /\ UNCHANGED <<files, building, reading, pid>>

ReadPid(p) ==
  /\ pc[p] = "readpid"
  /\ Goto(p, "idle")
  /\ UNCHANGED <<files, building, reading, holder, pid>>

-----------------------------------------------------------------------------
BuildStep(b) == \/ Scan(b) \/ Lock(b) \/ WritePid(b) \/ Sweep(b)
                \/ Encode(b) \/ Publish(b) \/ Unlock(b)

ReadStep(r) == Open(r) \/ Ask(r) \/ Follow(r) \/ Check(r) \/ Answer(r)

ProbeStep(p) == Probe(p) \/ EndProbe(p) \/ ReadPid(p)

Next == \/ \E b \in Builders : Begin(b) \/ BuildStep(b) \/ TimedOut(b) \/ Killed(b)
        \/ \E r \in Readers : ReadStep(r)
        \/ \E p \in Procs : ProbeStep(p)
        \/ Purge

Spec == Init /\ [][Next]_vars

(* A process that runs goes on, and the readers keep being asked.          *)
FairSpec == /\ Spec
            /\ \A b \in Builders : WF_vars(BuildStep(b))
            /\ \A r \in Readers : WF_vars(ReadStep(r))
            /\ \A p \in Procs : WF_vars(ProbeStep(p))

-----------------------------------------------------------------------------
(* A reader decides by the generation alone whether to map graph.snap      *)
(* again (snap_backend.py _begin), so two snapshots of one generation are  *)
(* the same snapshot, however many writers there are and wherever they     *)
(* die.  Only a purge makes generations repeat.                            *)
GenerationNamesSnapshot ==
  live # NoSnap =>
    \A r \in Readers \ outlived : snap[r] # NoSnap /\ snap[r].gen = live.gen => snap[r] = live

(* graph.snap is only ever replaced by a later generation, and disappears  *)
(* only together with graph.json: what the rename publishes is the         *)
(* writer's own file.                                                      *)
GenerationsGrow ==
  [][live' # live => IF live' = NoSnap THEN json' = 0
                     ELSE live = NoSnap \/ live'.gen > live.gen]_vars

(* The sweep of publish_snapshot removes the files of dead writers only: a *)
(* writer about to publish still has its own.                              *)
SweepSparesTheLiving == \A b \in Builders : pc[b] = "publish" => temp[b]

(* A request is answered from the graph.json it found or from a later one, *)
(* never from an older mapping: "a missing or stale snapshot is refused"   *)
(* (README.md:7).                                                          *)
AnswersAreNotStale ==
  \A r \in Readers \ outlived : pc[r] = "answer" => snap[r].from >= asked[r]

(* As long as graph.snap is of the current graph.json, a reader does not   *)
(* go on refusing: "Per request: follow a newer generation" (_begin).  Not *)
(* so for a reader that outlived a purge: it may hold the very generation  *)
(* that is published again.                                                *)
ReaderRecovers ==
  \A r \in Readers :
    <>[](live # NoSnap /\ live.from = json /\ r \notin outlived) => []<>(pc[r] = "answer")

(* "The snapshot is rebuilt after every write of graph.json" (README.md:7): *)
(* when every command has succeeded, graph.snap is of graph.json.          *)
IdleSnapshotIsCurrent ==
  (\A b \in Builders : pc[b] = "idle") /\ json # 0 => live.from = json

(* The abstract register that this protocol implements. *)
Register == INSTANCE SnapshotRegister WITH published <- live, seen <- snap

(* With writers that wait, time out, fail, sweep and die between any two   *)
(* steps, graph.snap is still an atomic register: every publication is the *)
(* next generation, of a version of graph.json that was written, and what  *)
(* a reader maps was published (snap_writer.py:466-511, "atomic").         *)
ImplementsRegister == Register!Spec
=============================================================================
