---------------------------- MODULE RebuildQueue ----------------------------
(***************************************************************************)
(* watch.py _rebuild_code with acquire_lock, and the queue that goes with  *)
(* it.  Several processes (post-commit and post-checkout hooks, the watch  *)
(* loop, `graphify update`) ask for rebuilds of one repository.  One that  *)
(* does not wait records its request first, as lines of .pending_changes   *)
(* or as the marker .pending_full, and then tries the lock.  The one that  *)
(* gets the lock drains both, rebuilds, and drains again up to MaxPasses   *)
(* times.  The lock is RebuildMutex, which RebuildLock implements; after   *)
(* the holder's unlink the flock still refuses callers until LOCK_UN.      *)
(*                                                                         *)
(* The contents of a source file are a version number; graph.json is the   *)
(* version of every file it was extracted from.                            *)
(***************************************************************************)
EXTENDS Integers

CONSTANTS Procs, NoProc,
          Paths,         \* the source files of the repository
          MaxEdits,      \* bound: edits of one file
          MaxPasses,     \* _PENDING_DRAIN_MAX_PASSES
          Requests,      \* the kinds of request made, of RequestKinds
          MayFail,       \* rebuilds may fail, alarms fire, processes be killed
          MayAlarm       \* GRAPHIFY_REBUILD_TIMEOUT > 0

RequestKinds == {"commit", "checkout", "update"}

ASSUME NoProcAssumption   == NoProc \notin Procs
ASSUME BoundsAssumption   == MaxEdits \in Nat /\ MaxPasses \in Nat
ASSUME SwitchesAssumption == /\ Requests \subseteq RequestKinds
                             /\ MayFail \in BOOLEAN
                             /\ MayAlarm \in BOOLEAN

VARIABLES disk,        \* file -> its version on disk
          graph,       \* file -> the version graph.json was built from
          queued,      \* the paths in .pending_changes (no file when empty)
          queuedFull,  \* .pending_full exists
          holder,      \* who is inside _rebuild_lock
          pc,          \* where each process is in _rebuild_code
          blocking,    \* block_on_lock of the call
          todo,        \* the files the next or current rebuild pass covers
          seen,        \* file -> the version this pass extracted
          passes,      \* late-arrival passes begun
          alarm,       \* the SIGALRM of the timeout: "off", "armed", "fired"
          dropped      \* ghost: requested files that may have been forgotten

vars == <<disk, graph, queued, queuedFull, holder, pc, blocking, todo, seen,
          passes, alarm, dropped>>

Lock == INSTANCE RebuildMutex

Location == {"idle", "queue", "queueFull", "acquire", "drainFull", "read", "unlink",
             "extract", "publish", "release", "unlock"}

Versions == [Paths -> 0..MaxEdits]

(* Every variable keeps its type; the late passes stay within their bound. *)
TypeOK == /\ disk \in Versions
          /\ graph \in Versions
          /\ queued \in SUBSET Paths
          /\ queuedFull \in BOOLEAN
          /\ Lock!TypeOK
          /\ pc \in [Procs -> Location]
          /\ blocking \in [Procs -> BOOLEAN]
          /\ todo \in [Procs -> SUBSET Paths]
          /\ seen \in [Procs -> Versions]
          /\ passes \in [Procs -> 0..MaxPasses]
          /\ alarm \in [Procs -> {"off", "armed", "fired"}]
          /\ dropped \in SUBSET Paths

Nothing == [c \in Paths |-> 0]

Init == /\ disk = Nothing
        /\ graph = Nothing
        /\ queued = {}
        /\ queuedFull = FALSE
        /\ Lock!Init
        /\ pc = [p \in Procs |-> "idle"]
        /\ blocking = [p \in Procs |-> FALSE]
        /\ todo = [p \in Procs |-> {}]
        /\ seen = [p \in Procs |-> Nothing]
        /\ passes = [p \in Procs |-> 0]
        /\ alarm = [p \in Procs |-> "off"]
        /\ dropped = {}

Goto(p, l) == pc' = [pc EXCEPT ![p] = l]

(* The files whose current version process p will still bring to the graph *)
(* unless it fails.  A waiting hook has left its request in the queue.     *)
Carried(p) ==
  CASE pc[p] \in {"queue", "queueFull", "drainFull", "read", "unlink", "extract"} -> todo[p]
    [] pc[p] = "acquire" -> IF blocking[p] THEN todo[p] ELSE {}
    [] pc[p] = "publish" -> {c \in todo[p] : seen[p][c] = disk[c]}
    [] OTHER             -> {}

-----------------------------------------------------------------------------
(* Requests.  The files in S have just been written.                       *)

Edited(S) == /\ \A c \in S : disk[c] < MaxEdits
             /\ disk' = [c \in Paths |-> IF c \in S THEN disk[c] + 1 ELSE disk[c]]
             /\ dropped' = dropped \ S

Start(p, S, cover, block, at) ==
  /\ pc[p] = "idle"
  /\ Edited(S)
  /\ todo' = [todo EXCEPT ![p] = cover]
  /\ blocking' = [blocking EXCEPT ![p] = block]
  /\ \E a \in (IF MayAlarm /\ ~block THEN {"off", "armed"} ELSE {"off"}) :
        alarm' = [alarm EXCEPT ![p] = a]
  /\ Goto(p, at)
  /\ UNCHANGED <<graph, queued, queuedFull, holder, seen, passes>>

(* A commit of S: the hook passes the changed paths. *)
Commit(p, S) == "commit" \in Requests /\ S # {} /\ Start(p, S, S, FALSE, "queue")

(* A checkout, or a batch of the watch loop: a full rebuild, not waiting. *)
Checkout(p, S) == "checkout" \in Requests /\ Start(p, S, Paths, FALSE, "queueFull")

(* `graphify update`: a full rebuild that waits for the lock; not queued. *)
Update(p, S) == "update" \in Requests /\ Start(p, S, Paths, TRUE, "acquire")

(* _queue_pending appends the paths to .pending_changes. *)
Queue(p) ==
  /\ pc[p] = "queue"
  /\ queued' = queued \cup todo[p]
  /\ Goto(p, "acquire")
  /\ UNCHANGED <<disk, graph, queuedFull, holder, blocking, todo, seen, passes, alarm, dropped>>

(* _queue_pending_full touches .pending_full. *)
QueueFull(p) ==
  /\ pc[p] = "queueFull"
  /\ queuedFull' = TRUE
  /\ Goto(p, "acquire")
  /\ UNCHANGED <<disk, graph, queued, holder, blocking, todo, seen, passes, alarm, dropped>>

-----------------------------------------------------------------------------
(* The lock. *)

(* The call is over: its locals are gone. *)
Return(p) == /\ Goto(p, "idle")
             /\ todo' = [todo EXCEPT ![p] = {}]
             /\ seen' = [seen EXCEPT ![p] = Nothing]
             /\ passes' = [passes EXCEPT ![p] = 0]
             /\ blocking' = [blocking EXCEPT ![p] = FALSE]
             /\ alarm' = [alarm EXCEPT ![p] = "off"]

(* Mutant: the platform offers no lock and the call yields True anyway. *)
EnterUnlocked(p) ==
  /\ pc[p] = "acquire"
  /\ holder' = p
  /\ Goto(p, "drainFull")
  /\ UNCHANGED <<disk, graph, queued, queuedFull, blocking, todo, seen, passes, alarm, dropped>>

Enter(p) ==
  /\ pc[p] = "acquire"
  /\ Lock!Enter(p)
  /\ Goto(p, "drainFull")
  /\ UNCHANGED <<disk, graph, queued, queuedFull, blocking, todo, seen, passes, alarm, dropped>>

(* "Rebuild already in progress - changes queued": returns False. *)
Refused(p) ==
  /\ pc[p] = "acquire"
  /\ ~blocking[p]
  /\ \E q \in Procs \ {p} : holder = q \/ pc[q] = "unlock"
  /\ Return(p)
  /\ UNCHANGED <<disk, graph, queued, queuedFull, holder, dropped>>

(* Leaving the with-block: the path is unlinked, then the flock released. *)
Release(p) ==
  /\ pc[p] = "release"
  /\ Lock!Leave(p)
  /\ Goto(p, "unlock")
  /\ UNCHANGED <<disk, graph, queued, queuedFull, blocking, todo, seen, passes, alarm, dropped>>

Unlock(p) ==
  /\ pc[p] = "unlock"
  /\ Return(p)
  /\ UNCHANGED <<disk, graph, queued, queuedFull, holder, dropped>>

-----------------------------------------------------------------------------
(* Draining, the same code before the first pass and before each late one. *)

(* Mutant: the marker is consumed and the pass stays incremental. *)
DrainFullIgnored(p) ==
  /\ pc[p] = "drainFull"
  /\ queuedFull' = FALSE
  /\ Goto(p, "read")
  /\ UNCHANGED <<disk, graph, queued, holder, blocking, todo, seen, passes, alarm, dropped>>

(* _drain_pending_full: one unlink.  A queued full request makes this pass *)
(* a full one.                                                             *)
DrainFull(p) ==
  /\ pc[p] = "drainFull"
  /\ todo' = [todo EXCEPT ![p] = IF queuedFull THEN Paths ELSE @]
  /\ queuedFull' = FALSE
  /\ Goto(p, "read")
  /\ UNCHANGED <<disk, graph, queued, holder, blocking, seen, passes, alarm, dropped>>

(* Mutant: a first pass does not merge what others queued. *)
ReadOwnOnly(p) ==
  /\ pc[p] = "read"
  /\ Goto(p, IF queued # {} THEN "unlink"
             ELSE IF todo[p] # {} THEN "extract" ELSE "release")
  /\ UNCHANGED <<disk, graph, queued, queuedFull, holder, blocking, todo, seen, passes, alarm, dropped>>

(* _drain_pending reads the file, if there is one; with nothing to do in a *)
(* late pass the loop is over.                                             *)
ReadPending(p) ==
  /\ pc[p] = "read"
  /\ todo' = [todo EXCEPT ![p] = @ \cup queued]
  /\ Goto(p, IF queued # {} THEN "unlink"
             ELSE IF todo[p] # {} THEN "extract" ELSE "release")
  /\ UNCHANGED <<disk, graph, queued, queuedFull, holder, blocking, seen, passes, alarm, dropped>>

(* Then it unlinks the file, with whatever was appended since. *)
UnlinkPending(p) ==
  /\ pc[p] = "unlink"
  /\ queued' = {}
  /\ dropped' = dropped \cup (queued \ todo[p])
  /\ Goto(p, "extract")
  /\ UNCHANGED <<disk, graph, queuedFull, holder, blocking, todo, seen, passes, alarm>>

-----------------------------------------------------------------------------
(* One rebuild pass, a recursive _rebuild_code(acquire_lock=False).        *)

Extract(p) ==
  /\ pc[p] = "extract"
  /\ seen' = [seen EXCEPT ![p] = [c \in Paths |-> IF c \in todo[p] THEN disk[c] ELSE 0]]
  /\ Goto(p, "publish")
  /\ UNCHANGED <<disk, graph, queued, queuedFull, holder, blocking, todo, passes, alarm, dropped>>

(* The pass is over; the late-arrival loop goes on while it has passes.    *)
NextPass(p) ==
  /\ todo' = [todo EXCEPT ![p] = {}]
  /\ seen' = [seen EXCEPT ![p] = Nothing]
  /\ IF passes[p] < MaxPasses
     THEN Goto(p, "drainFull") /\ passes' = [passes EXCEPT ![p] = @ + 1]
     ELSE Goto(p, "release") /\ UNCHANGED passes

(* Mutant: the files that were not extracted are not kept. *)
ReplaceGraphWhole(p) == graph' = seen[p]

(* graph.json is replaced: the extracted files at the extracted versions,  *)
(* the others as they were.                                                *)
ReplaceGraph(p) ==
  graph' = [c \in Paths |-> IF c \in todo[p] THEN seen[p][c] ELSE graph[c]]

Publish(p) ==
  /\ pc[p] = "publish"
  /\ ReplaceGraph(p)
  /\ NextPass(p)
  /\ UNCHANGED <<disk, queued, queuedFull, holder, blocking, alarm, dropped>>

(* The pass returns False: a refused shrink, an unreadable graph, or any   *)
(* exception, the alarm's TimeoutError included, which the pass's own      *)
(* `except Exception` catches, before or after graph.json is replaced.     *)
(* The drained request is gone.                                            *)
FailPass(p) ==
  /\ MayFail
  /\ pc[p] \in {"extract", "publish"}
  /\ \/ UNCHANGED alarm
     \/ alarm[p] = "armed" /\ alarm' = [alarm EXCEPT ![p] = "fired"]
  /\ \/ UNCHANGED graph
     \/ pc[p] = "publish" /\ ReplaceGraph(p)
  /\ dropped' = dropped \cup Carried(p)
  /\ NextPass(p)
  /\ UNCHANGED <<disk, queued, queuedFull, holder, blocking>>

(* The alarm goes off outside a pass: TimeoutError leaves the with-block,  *)
(* whose finally clause releases the lock, and the process ends.           *)
AlarmOutside(p) ==
  /\ MayFail
  /\ alarm[p] = "armed"
  /\ pc[p] \in {"drainFull", "read", "unlink"}
  /\ alarm' = [alarm EXCEPT ![p] = "fired"]
  /\ dropped' = dropped \cup Carried(p)
  /\ Goto(p, "release")
  /\ UNCHANGED <<disk, graph, queued, queuedFull, holder, blocking, todo, seen, passes>>

(* The process is killed; the kernel releases its flock. *)
Killed(p) ==
  /\ MayFail
  /\ pc[p] # "idle"
  /\ dropped' = dropped \cup Carried(p)
  /\ IF holder = p THEN Lock!Leave(p) ELSE UNCHANGED holder
  /\ Return(p)
  /\ UNCHANGED <<disk, graph, queued, queuedFull>>

-----------------------------------------------------------------------------
Step(p) == \/ Queue(p) \/ QueueFull(p) \/ Enter(p) \/ Refused(p) \/ Release(p) \/ Unlock(p)
           \/ DrainFull(p) \/ ReadPending(p) \/ UnlinkPending(p)
           \/ Extract(p) \/ Publish(p)

Next == \E p \in Procs :
          \/ \E S \in SUBSET Paths : Commit(p, S) \/ Checkout(p, S) \/ Update(p, S)
          \/ Step(p)
          \/ FailPass(p) \/ AlarmOutside(p) \/ Killed(p)

Spec == Init /\ [][Next]_vars

(* Processes keep running, and a blocking caller gets a lock that is free  *)
(* again and again.  Nobody is forced to ask for a rebuild.                *)
Fairness == \A p \in Procs : WF_vars(Step(p)) /\ SF_vars(Enter(p))

FairSpec == Spec /\ Fairness

-----------------------------------------------------------------------------
Stale == {c \in Paths : graph[c] < disk[c]}

Remembered == queued \cup (IF queuedFull THEN Paths ELSE {})
                     \cup UNION {Carried(p) : p \in Procs}

(* What callers that still wait for the lock have in memory. *)
Waiting == UNION {todo[p] : p \in {q \in Procs : pc[q] = "acquire"}}

(* Every change a rebuild was requested for is in the graph, in the queue  *)
(* or with a process that may still rebuild it: the promise of             *)
(* _queue_pending and of the comment at watch.py:2117.                     *)
NothingForgotten == Stale \subseteq Remembered \cup Waiting

(* Changes are forgotten in these ways only: a line appended between       *)
(* _drain_pending's read and its unlink, a failed pass, an alarm or a kill *)
(* while the drained paths are in memory.                                  *)
OnlyKnownLosses == Stale \subseteq Remembered \cup dropped

(* A rebuild never replaces a newer version of a file by an older one,     *)
(* although it extracts and publishes in separate steps.                   *)
GraphNeverGoesBack == [][\A c \in Paths : graph'[c] >= graph[c]]_vars

(* What is queued when the holder begins a drain reaches the graph in the  *)
(* pass that follows (without failures).                                   *)
DrainServesTheQueue ==
  \A p \in Procs, c \in Paths, v \in 1..MaxEdits :
    (pc[p] = "drainFull" /\ (c \in queued \/ queuedFull) /\ disk[c] = v) ~> (graph[c] >= v)

(* Every requested change reaches the graph: "the lock-holder drains the   *)
(* queue" (watch.py:2117-2119), without any further request.               *)
EveryRequestServed ==
  \A c \in Paths, v \in 1..MaxEdits : (disk[c] = v) ~> (graph[c] >= v)

(* A process whose alarm has gone off starts no further rebuild pass:      *)
(* _rebuild_timeout bounds one watch-loop rebuild (watch.py:3289).         *)
AlarmEndsTheRebuild ==
  [][\A p \in Procs : pc[p] = "extract" /\ pc'[p] = "publish" => alarm[p] # "fired"]_vars

(* The abstract ledger that the queue, its callers and passes implement. *)
Ledger == INSTANCE RebuildLedger WITH owed <- Stale \cap Remembered, lost <- dropped

(* Between the two queue files, callers in any stage and passes that may   *)
(* fail anywhere, a file that is behind is never simply gone: it is handed *)
(* on from one to the next until a pass has brought it up to date          *)
(* (watch.py:2117-2119), or it falls to a failure or a late append.        *)
ImplementsLedger == Ledger!Spec
=============================================================================
