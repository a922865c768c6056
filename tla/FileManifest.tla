---------------------------- MODULE FileManifest ----------------------------
(***************************************************************************)
(* manifest.json and its two users, which share no lock: a `graphify       *)
(* extract` (cli.py) and a rebuild pass (watch.py, one at a time by the    *)
(* rebuild lock).  Each decides what to extract, reads it, merges it with  *)
(* the graph.json it has loaded, replaces graph.json, and saves the        *)
(* manifest: detect.py load_manifest, _stat_and_hash of every file, then   *)
(* the new rows over the loaded ones.  Source files are edited all along;  *)
(* two edits of one clock tick leave the same mtime.                       *)
(*                                                                         *)
(* A file's hash is its contents; a file is in graph.json as the contents  *)
(* it was extracted from.  Files are not deleted (RebuildPass does that),  *)
(* documents are extracted whole or not (SemanticRun cuts them up).        *)
(***************************************************************************)
EXTENDS Integers

CONSTANTS Code, Docs,  \* the files either user extracts, those only extract does
          Contents,
          None,        \* no row, no hash, no nodes
          Window,      \* _MTIME_COARSE_S or _MTIME_SUBSECOND_S, in clock ticks
          MaxClock, MaxEdits, MaxRuns, \* bounds: ticks, edits, runs
          MayFail      \* extractions fail, processes are killed

ASSUME FilesAssumption == Code \cap Docs = {} /\ None \notin Contents
ASSUME BoundsAssumption == /\ {MaxClock, MaxEdits, MaxRuns} \subseteq Nat
                           /\ Window \in Nat \ {0}
                           /\ MayFail \in BOOLEAN

Files == Code \cup Docs

VARIABLES clock, edits, runs,
          disk,      \* file -> contents and mtime
          rows,      \* manifest.json: file -> its row
          graph,     \* graph.json: file -> the contents its nodes are of
          user,      \* what each of "extract" and "update" has in memory
          slipped,   \* ghost: see DoneIsInTheGraph
          hidden     \* ghost: see VerdictsAreSound

vars == <<clock, edits, runs, disk, rows, graph, user, slipped, hidden>>

Users == {"extract", "update"}
Hashes == Contents \cup {None}
Stats == [content : Contents, mtime : 0..MaxClock]
Rows == [mtime : 0..MaxClock, seen : 0..MaxClock, ast : Hashes, sem : Hashes]

Idle == [pc |-> "idle", merging |-> FALSE, todo |-> {}, failed |-> {},
         fresh |-> {}, unseen |-> {}, base |-> [f \in Files |-> None],
         cand |-> [f \in Files |-> None], loaded |-> [f \in Files |-> None],
         hashed |-> [f \in Files |-> None], stale |-> {}]

Memories == [pc : {"idle", "read", "merge", "write", "hash", "stamp"},
             merging : BOOLEAN, todo : SUBSET Files, failed : SUBSET Files,
             fresh : SUBSET Files, unseen : SUBSET Files,
             base : [Files -> Hashes], cand : [Files -> Hashes],
             loaded : [Files -> Rows \cup {None}],
             hashed : [Files -> Stats \cup {None}], stale : SUBSET Files]

(* Python's None is neither a row nor a stat result. *)
ASSUME NoneAssumption == None \notin Rows \cup Stats

TypeOK ==
  /\ clock \in 0..MaxClock /\ edits \in 0..MaxEdits /\ runs \in 0..MaxRuns
  /\ disk \in [Files -> Stats]
  /\ rows \in [Files -> Rows \cup {None}]
  /\ graph \in [Files -> Hashes]
  /\ user \in [Users -> Memories]
  /\ \A u \in Users : user[u].failed \cup user[u].fresh \subseteq user[u].todo
  /\ slipped \subseteq Files /\ hidden \subseteq Files

(* Nothing has been extracted yet, or everything, in the tick of its edit. *)
Extracted(c) == [mtime |-> 0, seen |-> 0, ast |-> c, sem |-> c]

Init ==
  /\ clock = 0 /\ edits = 0 /\ runs = 0
  /\ disk \in [Files -> [content : Contents, mtime : {0}]]
  /\ \E done \in BOOLEAN :
       /\ rows = [f \in Files |-> IF done THEN Extracted(disk[f].content) ELSE None]
       /\ graph = [f \in Files |-> IF done THEN disk[f].content ELSE None]
  /\ user = [u \in Users |-> Idle]
  /\ slipped = {} /\ hidden = {}

Tick ==
  /\ clock < MaxClock
  /\ clock' = clock + 1
  /\ UNCHANGED <<edits, runs, disk, rows, graph, user, slipped, hidden>>

Edit(f, c) ==
  /\ edits < MaxEdits /\ c # disk[f].content
  /\ edits' = edits + 1
  /\ disk' = [disk EXCEPT ![f] = [content |-> c, mtime |-> clock]]
  /\ user' = [u \in Users |->
                IF user[u].pc \in {"idle", "stamp"} THEN user[u]
                ELSE [user[u] EXCEPT !.unseen = @ \cup {f}]]
  /\ UNCHANGED <<clock, runs, rows, graph, slipped, hidden>>

-----------------------------------------------------------------------------
(* The verdict on one file. *)

(* Mutant of MayHideARewrite: rows are never too young (#2466). *)
MayHideNothing(f) == FALSE
MayHideARewrite(f) ==
  /\ rows[f].seen >= disk[f].mtime
  /\ rows[f].seen - disk[f].mtime < Window

HashOf(f, kind) == IF kind = "semantic" THEN rows[f].sem ELSE rows[f].ast

(* classify_manifest_files: a hash is taken only of a file with another    *)
(* mtime or with a young row.                                              *)
Changed(f, kind) ==
  \/ rows[f] = None
  \/ HashOf(f, kind) = None
  \/ /\ disk[f].mtime # rows[f].mtime \/ MayHideARewrite(f)
     /\ disk[f].content # HashOf(f, kind)

-----------------------------------------------------------------------------
(* graphify extract. *)

Alone(u) == \A v \in Users \ {u} : user[v].pc = "idle"

HasGraph == \E f \in Files : graph[f] # None

(* detect_incremental(kind="semantic") and the stamped files without nodes *)
(* (#2543, #2927); without a graph, or with --force, every file.           *)
Begin(force) ==
  /\ user["extract"].pc = "idle" /\ runs < MaxRuns
  /\ runs' = runs + 1
  /\ user' = [user EXCEPT !["extract"].pc = "read",
                !["extract"].merging = HasGraph /\ ~force,
                !["extract"].todo =
                  IF HasGraph /\ ~force
                  THEN {f \in Files : Changed(f, "semantic") \/ graph[f] = None}
                  ELSE Files]
  /\ slipped' = IF Alone("extract") THEN slipped ELSE Files
  /\ UNCHANGED <<clock, edits, disk, rows, graph, hidden>>

(* A rebuild of the code files S; every one of them in a full pass.  The   *)
(* gate that may skip a full pass changes nothing.                         *)
BeginUpdate(S) ==
  /\ user["update"].pc = "idle" /\ runs < MaxRuns
  /\ runs' = runs + 1
  /\ user' = [user EXCEPT !["update"].pc = "read", !["update"].merging = TRUE,
                          !["update"].todo = S]
  /\ slipped' = IF Alone("update") THEN slipped ELSE Files
  /\ UNCHANGED <<clock, edits, disk, rows, graph, hidden>>

(* The files are read and extracted: `cand` has what came of them.  Those  *)
(* that fail are known as failed; but under --allow-partial an extract     *)
(* goes on when the whole AST pass has crashed, and knows of no failures.  *)
Read(u) ==
  /\ user[u].pc = "read"
  /\ \E F \in IF MayFail THEN SUBSET user[u].todo ELSE {{}},
        crash \in IF MayFail /\ u = "extract" THEN BOOLEAN ELSE {FALSE} :
       LET lost == F \cup (IF crash THEN Code ELSE {}) IN
       user' = [user EXCEPT ![u].pc = "merge",
                  ![u].failed = IF crash THEN F \ Code ELSE F,
                  ![u].fresh = user[u].todo \ lost,
                  ![u].unseen = @ \ user[u].todo,
                  ![u].cand = [f \in Files |->
                                 IF f \in user[u].todo \ lost THEN disk[f].content
                                 ELSE None]]
  /\ UNCHANGED <<clock, edits, runs, disk, rows, graph, slipped, hidden>>

(* build_merge and _reconcile_existing_graph load graph.json.  A code file *)
(* that was tried is replaced, even by nothing; a document, and the files  *)
(* of a crashed pass, only by what they have come to.                      *)
Merge(u) ==
  /\ user[u].pc = "merge"
  /\ LET replaced == user[u].fresh \cup (user[u].failed \cap Code)
     IN  user' = [user EXCEPT ![u].pc = "write", ![u].base = graph,
                    ![u].cand = [f \in Files |->
                        IF f \in replaced \/ ~user[u].merging THEN user[u].cand[f]
                        ELSE graph[f]]]
  /\ UNCHANGED <<clock, edits, runs, disk, rows, graph, slipped, hidden>>

-----------------------------------------------------------------------------
(* graph.json is replaced, or not. *)

InGraph(g) == {f \in Files : g[f] # None}

(* Extract: an incomplete extraction does not shrink the graph, unless     *)
(* --allow-partial; no nodes at all are no graph.                          *)
Incomplete(u) == user[u].todo \ (user[u].fresh \cup (user[u].failed \cap Code)) # {}
MayRefuse(u) ==
  IF u = "extract"
  THEN \/ InGraph(user[u].cand) = {}
       \/ Incomplete(u) /\ InGraph(graph) \ InGraph(user[u].cand) # {}
  ELSE \E f \in user[u].failed : user[u].base[f] # None

MayWrite(u) ==
  IF u = "extract" THEN InGraph(user[u].cand) # {}
  ELSE user[u].cand # user[u].base

Refuse(u) ==
  /\ user[u].pc = "write" /\ MayRefuse(u)
  /\ user' = [user EXCEPT ![u] = Idle]
  /\ UNCHANGED <<clock, edits, runs, disk, rows, graph, slipped, hidden>>

(* What a user extracts and writes alone leaves `slipped`.                 *)
Write(u) ==
  /\ user[u].pc = "write" /\ MayWrite(u)
  /\ graph' = user[u].cand
  /\ slipped' = IF Alone(u)
                THEN (slipped \ user[u].fresh) \cup (user[u].fresh \cap user[u].unseen)
                ELSE slipped
  /\ user' = [user EXCEPT ![u].pc = "hash", ![u].base = Idle.base]
  /\ UNCHANGED <<clock, edits, runs, disk, rows, hidden>>

(* "No code-graph topology changes detected."                              *)
Untouched ==
  /\ user["update"].pc = "write" /\ user["update"].cand = user["update"].base
  /\ user' = [user EXCEPT !["update"].pc = "hash", !["update"].base = Idle.base]
  /\ UNCHANGED <<clock, edits, runs, disk, rows, graph, slipped, hidden>>

-----------------------------------------------------------------------------
(* save_manifest. *)

(* Mutant of Stamped: what was tried without result is stamped as done.    *)
StampedAll(u) == IF u = "extract" THEN Files ELSE Files \ user[u].failed

(* _stamped_manifest_files; _ast_manifest_files.                           *)
Stamped(u) ==
  IF u = "extract" THEN (Code \ user[u].failed) \cup (Docs \cap user[u].fresh)
  ELSE Files \ user[u].failed

(* load_manifest, then _stat_and_hash in a thread pool.                    *)
Hash(u) ==
  /\ user[u].pc = "hash"
  /\ user' = [user EXCEPT ![u].pc = "stamp", ![u].loaded = rows,
                          ![u].hashed = [f \in Files |->
                                           IF f \in Stamped(u) THEN disk[f] ELSE None],
                          ![u].stale = hidden]
  /\ UNCHANGED <<clock, edits, runs, disk, rows, graph, slipped, hidden>>

Prev(u, f) ==
  IF user[u].loaded[f] # None THEN user[u].loaded[f]
  ELSE [mtime |-> -1, seen |-> 0, ast |-> None, sem |-> None]

(* Mutant of Semantic: kind="ast" keeps no semantic hash.                  *)
SemanticDropped(u, f) ==
  IF u = "extract" THEN user[u].hashed[f].content ELSE None

(* kind="both" stamps both hashes; kind="ast" keeps the semantic one while *)
(* the contents are what the ast_hash was of.                              *)
Semantic(u, f) ==
  IF u = "extract" THEN user[u].hashed[f].content
  ELSE IF user[u].hashed[f].content = Prev(u, f).ast THEN Prev(u, f).sem
  ELSE None

(* The row of a stamped file; `seen` stays while nothing in it changes.    *)
NewRow(u, f) ==
  LET prev == Prev(u, f)
      new == [mtime |-> user[u].hashed[f].mtime, seen |-> clock,
              ast |-> user[u].hashed[f].content, sem |-> Semantic(u, f)]
  IN  IF new.mtime = prev.mtime /\ new.ast = prev.ast
           /\ (u = "extract" => new.sem = prev.sem)
      THEN [new EXCEPT !.seen = prev.seen]
      ELSE new

(* The row of another file: as loaded, without the hashes of what failed   *)
(* (clear_ast) or was tried without result (clear_semantic).               *)
OldRow(u, f) ==
  LET row == user[u].loaded[f]
  IN  IF row = None THEN None
      ELSE IF f \in Code THEN [row EXCEPT !.ast = None, !.sem = None]
      ELSE IF f \in user[u].todo THEN [row EXCEPT !.sem = None]
      ELSE row

(* Rewritten after it was hashed, before it was stamped, in one tick.      *)
Hidden(u, f) ==
  /\ disk[f].mtime = user[u].hashed[f].mtime
  /\ disk[f].content # user[u].hashed[f].content

Stamp(u) ==
  /\ user[u].pc = "stamp"
  /\ LET S == Stamped(u) IN
     /\ rows' = [f \in Files |-> IF f \in S THEN NewRow(u, f) ELSE OldRow(u, f)]
     /\ hidden' = (user[u].stale \ S) \cup {f \in S : Hidden(u, f)}
     /\ slipped' = slipped \cup (user[u].fresh \cap user[u].unseen)
                     \cup IF u = "extract"
                          THEN S \cap Code \cap (user[u].unseen
                                 \cup ((user[u].todo \cup user[u].stale) \ user[u].fresh))
                          ELSE {}
  /\ user' = [user EXCEPT ![u] = Idle]
  /\ UNCHANGED <<clock, edits, runs, disk, graph>>

(* A kill, a failed sync of the database, a manifest that cannot be        *)
(* written: the process ends, or goes on to what is not in this module.    *)
(* Once graph.json is replaced, the rows are of what it had before.        *)
Kill(u) ==
  /\ MayFail /\ user[u].pc # "idle"
  /\ user' = [user EXCEPT ![u] = Idle]
  /\ slipped' = IF user[u].pc \in {"hash", "stamp"}
                THEN slipped \cup {f \in user[u].fresh :
                       rows[f] # None /\ rows[f].sem \notin {None, user[u].cand[f]}}
                ELSE slipped
  /\ UNCHANGED <<clock, edits, runs, disk, rows, graph, hidden>>

Next ==
  \/ Tick
  \/ \E f \in Files, c \in Contents : Edit(f, c)
  \/ \E force \in BOOLEAN : Begin(force)
  \/ \E S \in SUBSET Code \ {{}} : BeginUpdate(S)
  \/ \E u \in Users : \/ Read(u) \/ Merge(u) \/ Refuse(u) \/ Write(u)
                      \/ Hash(u) \/ Stamp(u) \/ Kill(u)
  \/ Untouched

Spec == Init /\ [][Next]_vars

-----------------------------------------------------------------------------
(* A verdict "unchanged", by mtime or by hash, is true: the row's hash is  *)
(* of the contents on disk.  Not of a file in `hidden`, rewritten between  *)
(* its hash and its row within one tick: `seen` is taken after the hashes  *)
(* of the whole corpus, so the row may not look young.                     *)
VerdictsAreSound ==
  \A f \in Files \ hidden, kind \in {"ast", "semantic"} :
    ~Changed(f, kind) => disk[f].content = HashOf(f, kind)

(* While neither runs, a file that an extract leaves out as done is in     *)
(* graph.json as it is on disk, whoever saved its row.  Not if it is in    *)
(* `slipped`: edited between the extraction and the hash; stamped without  *)
(* an extraction (code edited during the run, or the AST pass crashed      *)
(* under --allow-partial); replaced in graph.json by a run killed before   *)
(* its rows were saved; or not extracted since two runs have overlapped.   *)
DoneIsInTheGraph ==
  (\A u \in Users : user[u].pc = "idle") =>
    \A f \in Files \ (slipped \cup hidden) :
      ~Changed(f, "semantic") /\ graph[f] # None => graph[f] = disk[f].content

(* detect.py:3411-3414: "changed" is a file whose "content has changed     *)
(* since the last semantic extraction pass".  Expected to fail.            *)
UnchangedSinceExtraction ==
  (\A u \in Users : user[u].pc = "idle") =>
    \A f \in Files : ~Changed(f, "semantic") /\ graph[f] # None
                       => graph[f] = disk[f].content

(* A document once paid for stays done: a rebuild that saves the manifest  *)
(* takes its semantic hash away only if it was another when the rebuild    *)
(* hashed it; but for a row an extract wrote after the rebuild loaded it.  *)
PaidWorkIsKept ==
  [][Stamp("update") =>
       \A d \in Docs \ hidden :
         /\ ~Changed(d, "semantic")
         /\ user["update"].loaded[d] = rows[d]
         /\ user["update"].hashed[d].content = disk[d].content
         => ~Changed(d, "semantic")']_vars
=============================================================================
