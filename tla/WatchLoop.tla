----------------------------- MODULE WatchLoop ------------------------------
(***************************************************************************)
(* watch.py watch(): the observer thread, which turns file system events   *)
(* into `changed`, `pending` and `config_changed`, and the dispatch loop,  *)
(* which takes them half a second at a time and rebuilds or sets the flag  *)
(* needs_update.  The two share these variables without a lock; a thread   *)
(* may be switched between any two of its assignments.                     *)
(*                                                                         *)
(* A file's contents are a version, which creation, edit and deletion      *)
(* increase; graph has the version each file was extracted from (or        *)
(* evicted at).  .graphifyrc is a version too: in odd ones the suffix of   *)
(* the Remapped files is mapped to a language, in even ones they are not   *)
(* watched.  last_trigger is abstracted to `quiet`: the debounce time has  *)
(* passed since.  The loop hears of its own work as well: of the sources   *)
(* and the .graphifyrc it opens and of what it writes to graphify-out, one *)
(* name under the watched root.  (The flag has no watched suffix.)  Files  *)
(* outside the root and ignored ones are left out.                         *)
(***************************************************************************)
EXTENDS Integers, Sequences

CONSTANTS Code, Docs, Remapped,  \* the watched files, by suffix
          RC,                    \* the root's .graphifyrc
          Temp,                  \* a name an editor writes before renaming it
          Out,                   \* graphify-out/graph.json, its suffix is watched
          NoFile,
          MaxChanges,            \* bound: changes made to the files
          MayFail                \* rebuilds fail, time out, are refused

Files == Code \cup Docs \cup Remapped

ASSUME FilesAssumption ==
  /\ Code \cap Docs = {} /\ Code \cap Remapped = {} /\ Docs \cap Remapped = {}
  /\ {RC, Temp, Out, NoFile} \cap Files = {}
  /\ RC # Temp /\ RC # NoFile /\ Temp # NoFile /\ Out \notin {RC, Temp, NoFile}
ASSUME BoundsAssumption   == MaxChanges \in Nat
ASSUME SwitchesAssumption == MayFail \in BOOLEAN

VARIABLES disk,           \* file -> its version
          present,        \* the files that exist
          config,         \* the version of .graphifyrc
          changes,        \* changes made so far
          graph,          \* file -> the version in graph.json
          graphConfig,    \* the version of .graphifyrc it was extracted under
          needsUpdate,    \* the flag file graphify-out/needs_update
          inbox,          \* events the observer has yet to handle
          event,          \* the event on_any_event handles
          opc,            \* where the observer thread is
          quiet, pending, changed, config_changed, override_snapshot,
          dpc,            \* where the dispatch thread is
          batch, config_event,
          overrides,      \* language overrides of the dispatch thread
          seen, seenConfig,  \* what the rebuild extracted
          missed          \* ghost: files whose change may go unnoticed

files == <<disk, present, config, changes>>
outputs == <<graph, graphConfig, needsUpdate>>
shared == <<quiet, pending, changed, config_changed, override_snapshot>>
observer == <<inbox, event, opc>>
dispatch == <<dpc, batch, config_event, overrides, seen, seenConfig>>
watchVars == <<files, outputs, shared, observer, dispatch, missed>>

Changed(f, g) == [src |-> f, dest |-> g, type |-> "changed"]
Opened(f) == [src |-> f, dest |-> NoFile, type |-> "opened"]

(* The events of changes, and of what the two threads read and write. *)
Events == {Changed(f, g) : f \in Files \cup {Temp}, g \in Files \cup {NoFile}}
          \cup {Changed(RC, NoFile), Changed(Temp, RC)}
Echoes == {Opened(f) : f \in Files \cup {RC}} \cup {Changed(Out, NoFile)}
NoEvent == Changed(NoFile, NoFile)
Versions == [Files -> 0..MaxChanges]

(* Every variable keeps its type. *)
WatchTypeOK == /\ disk \in Versions /\ graph \in Versions /\ seen \in Versions
               /\ present \in SUBSET Files
               /\ {changes, config, graphConfig, seenConfig, override_snapshot, overrides}
                    \subseteq 0..MaxChanges
               /\ {needsUpdate, quiet, pending, config_changed, config_event} \subseteq BOOLEAN
               /\ inbox \in Seq(Events \cup Echoes)
               /\ event \in Events \cup {NoEvent}
               /\ opc \in {"idle", "override", "flag", "trigger", "pend", "add"}
               /\ changed \in SUBSET Files
               /\ batch \in SUBSET Files
               /\ dpc \in {"sleep", "fire", "list", "clear", "ask", "unset", "decide",
                           "extract", "publish", "notify"}
               /\ missed \in SUBSET (Files \cup {RC})

WatchInit == /\ disk = [f \in Files |-> 0] /\ graph = disk /\ seen = disk
             /\ present \in SUBSET Files
             /\ config = 0 /\ changes = 0
             /\ graphConfig = 0 /\ needsUpdate = FALSE
             /\ inbox = <<>> /\ event = NoEvent /\ opc = "idle"
             /\ quiet = TRUE /\ pending = FALSE /\ changed = {}
             /\ config_changed = FALSE /\ override_snapshot = 0
             /\ dpc = "sleep" /\ batch = {} /\ config_event = FALSE
             /\ overrides = 0 /\ seenConfig = 0
             /\ missed = {}

-----------------------------------------------------------------------------
(* Users change files, and the file system reports it.                     *)

Report(e) == /\ changes < MaxChanges
             /\ changes' = changes + 1
             /\ inbox' = Append(inbox, e)
             /\ UNCHANGED <<outputs, shared, event, opc, dispatch, missed>>

Touched(S) == disk' = [f \in Files |-> IF f \in S THEN disk[f] + 1 ELSE disk[f]]

Write(f) == /\ Report(Changed(f, NoFile))
            /\ Touched({f})
            /\ present' = present \cup {f}
            /\ UNCHANGED config

Delete(f) == /\ f \in present
             /\ Report(Changed(f, NoFile))
             /\ Touched({f})
             /\ present' = present \ {f}
             /\ UNCHANGED config

(* An atomic save: the editor renames a temporary file over f. *)
Replace(f) == /\ Report(Changed(Temp, f))
              /\ Touched({f})
              /\ present' = present \cup {f}
              /\ UNCHANGED config

Move(f, g) == /\ f \in present /\ f # g
              /\ Report(Changed(f, g))
              /\ Touched({f, g})
              /\ present' = (present \ {f}) \cup {g}
              /\ UNCHANGED config

(* .graphifyrc is edited in place, or replaced. *)
Configure(e) == /\ Report(e)
                /\ config' = config + 1
                /\ UNCHANGED <<disk, present>>

Change == \/ \E f \in Files : Write(f) \/ Delete(f) \/ Replace(f)
          \/ \E f, g \in Files : Move(f, g)
          \/ Configure(Changed(RC, NoFile))
          \/ Configure(Changed(Temp, RC))

(* The system reports what one of the threads has done.  An event that is  *)
(* still waiting is not queued again.                                      *)
Hear(e) == inbox' = IF \E i \in DOMAIN inbox : inbox[i] = e THEN inbox ELSE Append(inbox, e)

(* The debounce time passes without an event. *)
Tick == /\ ~quiet
        /\ quiet' = TRUE
        /\ UNCHANGED <<files, outputs, observer, dispatch, missed,
                       pending, changed, config_changed, override_snapshot>>

-----------------------------------------------------------------------------
(* The observer thread: Handler.on_any_event.                              *)

Observe(l) == opc' = l /\ UNCHANGED <<files, outputs, dispatch>>

Mapped(v) == v % 2 = 1

(* effective_suffix(path) in _WATCHED_EXTENSIONS, under overrides v. *)
WatchedSuffix(f, v) == f \in {Out} \cup Code \cup Docs \cup (IF Mapped(v) THEN Remapped ELSE {})

(* Mutant: graphify-out is not left out. *)
WatchedAnywhere(f, v) == WatchedSuffix(f, v)

(* _GRAPHIFY_OUT in filter_parts. *)
Watched(f, v) == WatchedSuffix(f, v) /\ f # Out

(* _is_read_only_event. *)
ReadOnly(e) == e.type = "opened"

(* The paths an event says have changed. *)
Names(e) == IF ReadOnly(e) THEN {} ELSE {e.src, e.dest}

AboutConfig(e) == RC \in Names(e)

(* None of the early returns: only src_path is looked at. *)
Heeded(e) == ~ReadOnly(e) /\ Watched(e.src, override_snapshot)

(* An event is taken: the config branch, the branch of a watched path, or  *)
(* an early return.                                                        *)
Take == /\ opc = "idle"
        /\ inbox # <<>>
        /\ inbox' = Tail(inbox)
        /\ LET e == Head(inbox)
           IN /\ \/ AboutConfig(e) /\ event' = e /\ Observe("override")
                 \/ ~AboutConfig(e) /\ Heeded(e) /\ event' = e /\ Observe("trigger")
                 \/ ~AboutConfig(e) /\ ~Heeded(e) /\ UNCHANGED event /\ Observe("idle")
              /\ missed' = missed \cup ({e.dest} \cap Files)
        /\ UNCHANGED shared

(* activate_language_overrides reads .graphifyrc. *)
Override == /\ opc = "override"
            /\ override_snapshot' = config
            /\ Hear(Opened(RC))
            /\ Observe("flag")
            /\ UNCHANGED <<event, quiet, pending, changed, config_changed, missed>>

Flag == /\ opc = "flag"
        /\ config_changed' = TRUE
        /\ Observe("trigger")
        /\ UNCHANGED <<inbox, event, quiet, pending, changed, override_snapshot, missed>>

Trigger == /\ opc = "trigger"
           /\ quiet' = FALSE
           /\ Observe("pend")
           /\ UNCHANGED <<inbox, event, pending, changed, config_changed, override_snapshot, missed>>

Pend == /\ opc = "pend"
        /\ pending' = TRUE
        /\ IF AboutConfig(event) THEN event' = NoEvent /\ Observe("idle")
                                 ELSE UNCHANGED event /\ Observe("add")
        /\ UNCHANGED <<inbox, quiet, changed, config_changed, override_snapshot, missed>>

(* Mutant: `pending` is set and the path forgotten. *)
AddNothing == /\ opc = "add"
              /\ event' = NoEvent
              /\ Observe("idle")
              /\ UNCHANGED <<inbox, quiet, pending, changed, config_changed, override_snapshot, missed>>

(* The path comes last: the dispatch thread may have reset `pending` since *)
(* and emptied the set, and then nothing tells it of the path.             *)
Add == /\ opc = "add"
       /\ changed' = changed \cup {event.src}
       /\ missed' = missed \cup {f \in {event.src} : ~pending /\ dpc \notin {"fire", "list"}}
       /\ event' = NoEvent
       /\ Observe("idle")
       /\ UNCHANGED <<inbox, quiet, pending, config_changed, override_snapshot>>

-----------------------------------------------------------------------------
(* The dispatch thread.                                                    *)

Dispatch(l) == dpc' = l /\ UNCHANGED <<files, observer>>

(* ... and e is heard of what is done on the way. *)
DispatchAloud(l, e) == dpc' = l /\ Hear(e) /\ UNCHANGED <<files, event, opc>>

(* The condition of the `if`; `pending` may be set again before it is      *)
(* reset.                                                                  *)
Wake == /\ dpc = "sleep"
        /\ pending /\ quiet
        /\ Dispatch("fire")
        /\ UNCHANGED <<outputs, shared, batch, config_event, overrides, seen, seenConfig, missed>>

Fire == /\ dpc = "fire"
        /\ pending' = FALSE
        /\ Dispatch("list")
        /\ UNCHANGED <<outputs, quiet, changed, config_changed, override_snapshot,
                       batch, config_event, overrides, seen, seenConfig, missed>>

List == /\ dpc = "list"
        /\ batch' = changed
        /\ Dispatch("clear")
        /\ UNCHANGED <<outputs, shared, config_event, overrides, seen, seenConfig, missed>>

(* With whatever was added since the list was made. *)
Clear == /\ dpc = "clear"
         /\ changed' = {}
         /\ missed' = missed \cup (changed \ batch)
         /\ Dispatch("ask")
         /\ UNCHANGED <<outputs, quiet, pending, config_changed, override_snapshot,
                        batch, config_event, overrides, seen, seenConfig>>

(* config_event, config_changed = config_changed, False: a load ... *)
Ask == /\ dpc = "ask"
       /\ config_event' = config_changed
       /\ Dispatch("unset")
       /\ UNCHANGED <<outputs, shared, batch, overrides, seen, seenConfig, missed>>

(* ... and a store. *)
Unset == /\ dpc = "unset"
         /\ config_changed' = FALSE
         /\ missed' = missed \cup {c \in {RC} : config_changed /\ ~config_event}
         /\ Dispatch("decide")
         /\ UNCHANGED <<outputs, quiet, pending, changed, override_snapshot,
                        batch, config_event, overrides, seen, seenConfig>>

IsCode(f, v) == f \in Code \cup (IF Mapped(v) THEN Remapped ELSE {})

(* Mutant: only code rebuilds. *)
TriggersRebuildForCode(v) == \E f \in batch : IsCode(f, v)

(* _batch_triggers_rebuild: code, or anything that is gone by now. *)
TriggersRebuild(v) == \E f \in batch : IsCode(f, v) \/ f \notin present

(* _batch_needs_llm_flag: something else that still exists. *)
NeedsFlag == config_event \/ \E f \in batch : ~IsCode(f, overrides) /\ f \in present

Decide == /\ dpc = "decide"
          /\ overrides' = override_snapshot
          /\ Dispatch(IF config_event \/ TriggersRebuild(override_snapshot)
                      THEN "extract" ELSE "notify")
          /\ UNCHANGED <<outputs, shared, batch, config_event, seen, seenConfig, missed>>

(* _rebuild_code without changed paths: the whole corpus under the config  *)
(* it finds, read now and published later (RebuildPass).  Of the files it  *)
(* opens one stands for all.                                               *)
Extract == /\ dpc = "extract"
           /\ seen' = disk
           /\ seenConfig' = config
           /\ \E f \in {RC} \cup {g \in present : Watched(g, config)} :
                DispatchAloud("publish", Opened(f))
           /\ UNCHANGED <<outputs, shared, batch, config_event, overrides, missed>>

Publish == /\ dpc = "publish"
           /\ graph' = seen
           /\ graphConfig' = seenConfig
           /\ missed' = missed \ ({f \in Files \ (Docs \cap present) : seen[f] = disk[f]}
                                  \cup {c \in {RC} : seenConfig = config})
           /\ DispatchAloud("notify", Changed(Out, NoFile))
           /\ UNCHANGED <<needsUpdate, shared, batch, config_event, overrides, seen, seenConfig>>

(* What a graph with g, extracted under config v, does not have: changed   *)
(* code and evictions due.                                                 *)
Lacks(g, v) ==
  {f \in Code : g[f] # disk[f]}
  \cup {f \in Docs \ present : g[f] # disk[f]}
  \cup {f \in Remapped : v # config \/ (Mapped(config) /\ g[f] # disk[f])}

Stale == Lacks(graph, graphConfig)

StaleConfig == graphConfig # config

(* The rebuild fails, runs into its timeout or is refused the lock (its    *)
(* request is then queued for the holder, RebuildQueue).  The loop goes on *)
(* and does not try again.                                                 *)
Fail == /\ MayFail
        /\ dpc \in {"extract", "publish"}
        /\ missed' = missed \cup Stale \cup {c \in {RC} : StaleConfig}
        /\ DispatchAloud("notify", Changed(Out, NoFile))
        /\ UNCHANGED <<outputs, shared, batch, config_event, overrides, seen, seenConfig>>

Notify == /\ dpc = "notify"
          /\ needsUpdate' = (needsUpdate \/ NeedsFlag)
          /\ Dispatch("sleep")
          /\ batch' = {}
          /\ config_event' = FALSE
          /\ UNCHANGED <<graph, graphConfig, shared, overrides, seen, seenConfig, missed>>

-----------------------------------------------------------------------------
Observer   == Take \/ Override \/ Flag \/ Trigger \/ Pend \/ Add
Dispatcher == Wake \/ Fire \/ List \/ Clear \/ Ask \/ Unset \/ Decide
              \/ Extract \/ Publish \/ Notify

WatchNext == Change \/ Tick \/ Observer \/ Dispatcher \/ Fail

WatchSpec == WatchInit /\ [][WatchNext]_watchVars

(* Both threads keep running and time passes. *)
WatchFairness == WF_watchVars(Observer) /\ WF_watchVars(Dispatcher) /\ WF_watchVars(Tick)

WatchFairSpec == WatchSpec /\ WatchFairness

-----------------------------------------------------------------------------
Reported(f) == \/ \E i \in DOMAIN inbox : f \in Names(inbox[i])
               \/ (opc # "idle" /\ f = event.src)

ConfigReported == \/ \E i \in DOMAIN inbox : AboutConfig(inbox[i])
                  \/ (opc # "idle" /\ AboutConfig(event))

(* The dispatch thread has the file, or will find it. *)
Held(f) == \/ (f \in changed /\ (pending \/ dpc \in {"fire", "list"}))
           \/ (f \in batch /\ dpc \in {"clear", "ask", "unset", "decide"})

ConfigHeld == \/ (config_changed /\ (pending \/ dpc \in {"fire", "list", "clear", "ask"}))
              \/ (config_event /\ dpc \in {"unset", "decide"})

Rebuilding(f) == \/ dpc = "extract"
                 \/ dpc = "publish" /\ f \notin Lacks(seen, seenConfig)

(* Every change graph.json lacks is on its way: reported, collected or     *)
(* being rebuilt; and a document that has changed is flagged or will be.   *)
(* Except for the ways in which the loop is known to miss a change.        *)
OnlyKnownMisses ==
  /\ \A f \in Stale \ missed :
       \/ Reported(f)
       \/ Held(f)
       \/ Rebuilding(f)
       \/ f \in Remapped /\ (RC \in missed \/ ConfigReported \/ ConfigHeld)
  /\ \A f \in (Docs \cap present) \ missed :
       \/ disk[f] = 0
       \/ needsUpdate
       \/ Reported(f)
       \/ Held(f)
       \/ f \in batch /\ dpc \in {"extract", "publish", "notify"}

(* Every change of code, every deletion and every change of the overrides  *)
(* gets into the graph without anybody doing anything more, save the known *)
(* misses: neither thread leaves work that the other one waits for.        *)
ChangesReachTheGraph ==
  \A f \in Files :
    (f \in Stale) ~> (f \notin Stale \/ f \in missed \/ (f \in Remapped /\ RC \in missed))

(* The loop does not set itself off, although it is told of every file it  *)
(* opens and of every output it writes: once nobody changes anything it    *)
(* goes to sleep and stays asleep (watch.py:3262-3274, 3374-3406).         *)
LoopSettles == <>[](dpc = "sleep")

(* The abstract ledger of RebuildLedger, for the code files. *)
Coming(f) == Reported(f) \/ Held(f) \/ Rebuilding(f)

CodeLedger ==
  INSTANCE RebuildLedger WITH
    Paths <- Code,
    disk  <- [f \in Code |-> disk[f]],
    graph <- [f \in Code |-> graph[f]],
    owed  <- {f \in Code : graph[f] < disk[f] /\ Coming(f)},
    lost  <- missed \cap Code

(* A change of code is handed from the event to `changed`, to the batch and *)
(* to the rebuild, by two threads without a lock, and is not let go of      *)
(* before the graph has it; and no rebuild takes the graph back             *)
(* (watch.py:3358-3446).                                                    *)
ImplementsCodeLedger == CodeLedger!Spec
=============================================================================
