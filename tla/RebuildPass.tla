----------------------------- MODULE RebuildPass -----------------------------
(***************************************************************************)
(* One rebuild pass at a time (the body of watch.py _rebuild_code, inside  *)
(* the rebuild lock) and the files it keeps in graphify-out: graph.json,   *)
(* graph.html with its stale marker, graph.snap, manifest.json and the     *)
(* build-state stamp that lets a later full pass be skipped.  The source   *)
(* files are edited while the pass runs, and the pass may end between any  *)
(* two steps (a kill, an alarm, an exception).                             *)
(*                                                                         *)
(* A file's contents yield a shape, the nodes and edges the extractor      *)
(* makes of it; graph.json is the shape each file contributes.  Node       *)
(* counts are not modelled, so the shrink guard may refuse whenever nodes  *)
(* of a failed file are missing.  Semantic nodes and ignore rules are not. *)
(***************************************************************************)
EXTENDS Integers

CONSTANTS Paths,       \* the source files
          Contents,    \* what can be in a file
          Shapes,      \* what can be extracted from it
          Shape,       \* contents -> the shape extracted
          Absent,      \* "contents" of a file that does not exist
          NoShape,     \* contribution of a file with no nodes in graph.json
          NoRow,       \* the file has no row in manifest.json
          Blank,       \* its row has a blanked ast_hash
          NoStamp,     \* no readable build state
          Options,     \* the option records passes run with
          MayFail,     \* extractions and writes may fail, passes be killed
          MaxEdits     \* bound: edits of source files

AllOptions == [raw : BOOLEAN,      \* --no-cluster
               viz : BOOLEAN,      \* GRAPHIFY_VIZ_NODE_LIMIT > 0
               force : BOOLEAN]    \* --force

ASSUME ShapeAssumption   == Shape \in [Contents -> Shapes]
ASSUME AbsentAssumption  == {Absent, NoRow, Blank} \cap Contents = {} /\ NoRow # Blank
ASSUME NoShapeAssumption == NoShape \notin Shapes
ASSUME OptionsAssumption == Options \subseteq AllOptions /\ MayFail \in BOOLEAN
ASSUME MaxEditsAssumption == MaxEdits \in Nat

VARIABLES disk,       \* file -> its contents
          graph,      \* file -> its contribution to graph.json
          layout,     \* graph.json: "none", "raw" or "clustered"
          html,       \* graph.html: "none", or whether it was made from this graph.json
          synced,     \* graph.snap was made from this graph.json
          marker,     \* .graph.html.stale exists
          manifest,   \* file -> the ast_hash in its row
          stamp,      \* .graphify_build_state.json
          pc, opts,   \* where the pass is, and its options
          full,       \* changed_paths is None
          todo,       \* the changed paths (every path in a full pass)
          scanned,    \* the files detect() found
          covered,    \* the files extracted in this pass or found deleted
          failed,     \* the files whose extraction failed
          candidate,  \* file -> its contribution to the graph of this pass
          replaced,   \* this pass has replaced graph.json (not no_change)
          success,    \* what the last pass returned
          dirty,      \* ghost: files changed since a graph that has them
          slipped,    \* ghost: files whose row may not be what the graph has
          edits       \* the edits made so far

pass == <<opts, full, todo, scanned, covered, failed, candidate, replaced>>
outputs == <<graph, layout, html, synced, marker, manifest, stamp>>
world == <<disk, edits>>
vars == <<world, outputs, pass, pc, success, dirty, slipped>>

Location == {"idle", "extract", "compare", "replace", "manifest",
             "html", "publish", "stamp"}

(* _current_build_state: what a rebuild depends on besides file contents. *)
Key(o, S) == [raw |-> o.raw, viz |-> o.viz, scan |-> S]

Stamps == [key : [raw : BOOLEAN, viz : BOOLEAN, scan : SUBSET Paths],
           full : BOOLEAN,    \* full_clean
           fresh : BOOLEAN,   \* graph_size and graph_mtime_ns are graph.json's
           html : BOOLEAN]    \* html_present

(* Every variable keeps its type; no row is stamped for a missing file. *)
TypeOK == /\ disk \in [Paths -> Contents \cup {Absent}]
          /\ graph \in [Paths -> Shapes \cup {NoShape}]
          /\ layout \in {"none", "raw", "clustered"}
          /\ html \in {"none", "old", "current"}
          /\ synced \in BOOLEAN
          /\ marker \in BOOLEAN
          /\ manifest \in [Paths -> Contents \cup {NoRow, Blank}]
          /\ stamp \in Stamps \cup {NoStamp}
          /\ pc \in Location
          /\ opts \in Options
          /\ full \in BOOLEAN
          /\ todo \in SUBSET Paths
          /\ scanned \in SUBSET Paths
          /\ covered \in SUBSET Paths
          /\ failed \in SUBSET Paths
          /\ dirty \in SUBSET Paths
          /\ slipped \in SUBSET Paths
          /\ candidate \in [Paths -> Shapes \cup {NoShape}]
          /\ replaced \in BOOLEAN
          /\ success \in BOOLEAN
          /\ edits \in 0..MaxEdits

ShapeOf(x) == IF x = Absent THEN NoShape ELSE Shape[x]

Present == {c \in Paths : disk[c] # Absent}

NoNodes == [c \in Paths |-> NoShape]

Init == /\ disk \in [Paths -> Contents \cup {Absent}]
        /\ graph = NoNodes
        /\ layout = "none"
        /\ html = "none"
        /\ synced = FALSE
        /\ marker = FALSE
        /\ manifest = [c \in Paths |-> NoRow]
        /\ stamp = NoStamp
        /\ pc = "idle"
        /\ opts \in Options
        /\ full = FALSE /\ replaced = FALSE /\ success = FALSE
        /\ todo = {} /\ scanned = {} /\ covered = {} /\ failed = {} /\ slipped = {}
        /\ candidate = NoNodes
        /\ dirty = Paths
        /\ edits = 0

(* A source file is written or deleted, at any time. *)
Edit(c, x) ==
  /\ edits < MaxEdits
  /\ x # disk[c]
  /\ disk' = [disk EXCEPT ![c] = x]
  /\ dirty' = dirty \cup {c}
  /\ edits' = edits + 1
  /\ UNCHANGED <<outputs, pass, pc, success, slipped>>

-----------------------------------------------------------------------------
(* The gate of full passes. *)

(* _inputs_unchanged: every scanned file has a row with the hash of its    *)
(* contents, every row a scanned file.                                     *)
InputsUnchanged ==
  /\ \E c \in Paths : manifest[c] # NoRow
  /\ \A c \in Present : manifest[c] = disk[c]
  /\ \A c \in Paths : manifest[c] # NoRow => c \in Present

(* Mutant: the stamp is not compared with graph.json's size and mtime. *)
StateMatchesAnyGraph(key) ==
  /\ stamp # NoStamp
  /\ stamp.key = key
  /\ stamp.full
  /\ ~marker
  /\ stamp.html = (html # "none")

(* _build_state_matches. *)
StateMatches(key) ==
  /\ stamp # NoStamp
  /\ stamp.key = key
  /\ stamp.full
  /\ stamp.fresh
  /\ ~marker
  /\ stamp.html = (html # "none")

Skippable(o) == ~o.force /\ InputsUnchanged /\ StateMatches(Key(o, Present))

(* "No relevant changes; graphify-out left untouched." *)
Skip(o) ==
  /\ pc = "idle"
  /\ Skippable(o)
  /\ success' = TRUE
  /\ UNCHANGED <<world, outputs, pass, pc, dirty, slipped>>

(* The pass ends: its locals are gone. *)
Return(ok) ==
  /\ pc' = "idle"
  /\ success' = ok
  /\ full' = FALSE /\ replaced' = FALSE
  /\ todo' = {} /\ scanned' = {} /\ covered' = {} /\ failed' = {}
  /\ candidate' = NoNodes
  /\ UNCHANGED opts

(* "No code files found - nothing to rebuild." *)
NothingToDo ==
  /\ pc = "idle"
  /\ Present = {} /\ layout = "none"
  /\ success' = FALSE
  /\ UNCHANGED <<world, outputs, pass, pc, dirty, slipped>>

(* detect() and the gate: a full pass (S = Paths, f) comes this far when   *)
(* it cannot be skipped.                                                   *)
Begin(o, f, S) ==
  /\ pc = "idle"
  /\ f => S = Paths /\ ~Skippable(o)
  /\ S # {}
  /\ Present # {} \/ layout # "none"
  /\ opts' = o /\ full' = f /\ todo' = S
  /\ success' = FALSE
  /\ scanned' = Present
  /\ pc' = "extract"
  /\ UNCHANGED <<world, outputs, covered, failed, candidate, replaced, dirty, slipped>>

-----------------------------------------------------------------------------
(* Mutant: the files the pass does not target are not kept. *)
MergeTargetsOnly(done, gone) ==
  [c \in Paths |-> IF c \in done THEN Shape[disk[c]] ELSE NoShape]

(* _reconcile_existing_graph: a target has what was extracted (nothing     *)
(* when that failed), another file of the scan what it had; a file that    *)
(* left the scan is evicted once it is gone from disk, kept otherwise.     *)
Merge(done, gone) ==
  [c \in Paths |-> IF c \in done THEN Shape[disk[c]]
                   ELSE IF c \in gone \cup ((scanned \cap todo) \ done) THEN NoShape
                   ELSE graph[c]]

(* extract() of the targets, some of which may fail, and the merge. *)
Extract ==
  /\ pc = "extract"
  /\ \E F \in SUBSET (scanned \cap todo) :
       /\ (scanned \cap todo) \ Present \subseteq F
       /\ MayFail \/ F \subseteq Paths \ Present
       /\ failed' = F
       /\ LET done == (scanned \cap todo) \ F
              gone == Paths \ (scanned \cup Present)
          IN  /\ candidate' = Merge(done, gone)
              /\ covered' = done \cup gone
              /\ dirty' = (dirty \ (done \cup gone)) \cup F
  /\ pc' = "compare"
  /\ UNCHANGED <<world, outputs, opts, full, todo, scanned, replaced, success, slipped>>

(* same_topology, and same_graph of the --no-cluster path. *)
SameGraph == layout = (IF opts.raw THEN "raw" ELSE "clustered") /\ candidate = graph

(* "No code-graph topology changes detected; outputs left untouched." *)
Untouched ==
  /\ pc = "compare"
  /\ SameGraph
  /\ pc' = "manifest"
  /\ UNCHANGED <<world, outputs, pass, success, dirty, slipped>>

(* _check_shrink: nodes of a file that failed are missing. *)
Refuse ==
  /\ pc = "compare"
  /\ ~SameGraph
  /\ ~opts.force /\ layout # "none"
  /\ \E c \in failed : graph[c] # NoShape
  /\ dirty' = dirty \cup covered
  /\ Return(FALSE)
  /\ UNCHANGED <<world, outputs, slipped>>

(* Mutant: the clustered path replaces graph.json with no marker set. *)
UnmarkedHtml ==
  /\ pc = "compare"
  /\ ~SameGraph
  /\ ~opts.raw
  /\ pc' = "replace"
  /\ UNCHANGED <<world, outputs, pass, success, dirty, slipped>>

(* "Mark before graph.json advances." *)
MarkHtml ==
  /\ pc = "compare"
  /\ ~SameGraph
  /\ ~opts.raw
  /\ marker' = TRUE
  /\ pc' = "replace"
  /\ UNCHANGED <<world, graph, layout, html, synced, manifest, stamp, pass, success, dirty, slipped>>

(* graph.json is replaced; whatever was made from the old one is old.      *)
(* --no-cluster neither marks the html nor publishes a snapshot.           *)
Replace ==
  /\ pc = "replace" \/ (pc = "compare" /\ opts.raw /\ ~SameGraph)
  /\ graph' = candidate
  /\ layout' = IF opts.raw THEN "raw" ELSE "clustered"
  /\ html' = IF html = "none" THEN "none" ELSE "old"
  /\ synced' = FALSE
  /\ stamp' = IF stamp = NoStamp THEN NoStamp ELSE [stamp EXCEPT !.fresh = FALSE]
  /\ replaced' = TRUE
  /\ pc' = "manifest"
  /\ UNCHANGED <<world, marker, manifest, opts, full, todo, scanned, covered, failed,
                 candidate, success, dirty, slipped>>

-----------------------------------------------------------------------------
(* manifest.json and the outputs that follow it. *)

(* Mutant: failed sources are stamped like the others (#2543). *)
SaveFailedToo ==
  /\ pc = "manifest"
  /\ manifest' = [c \in Paths |-> IF c \in scanned \cap Present THEN disk[c] ELSE NoRow]
  /\ slipped' = (slipped \ covered) \cup (dirty \ failed)
  /\ pc' = IF opts.raw THEN "stamp" ELSE "html"
  /\ UNCHANGED <<world, graph, layout, html, synced, marker, stamp, pass, success, dirty>>

(* save_manifest hashes every scanned file as it is NOW; a failed one gets *)
(* no row, or has the row it had blanked.                                  *)
SaveManifest ==
  /\ pc = "manifest"
  /\ manifest' = [c \in Paths |-> IF c \in (scanned \cap Present) \ failed THEN disk[c]
                                  ELSE IF c \in scanned \cap Present /\ manifest[c] # NoRow
                                       THEN Blank
                                       ELSE NoRow]
  /\ slipped' = (slipped \ covered) \cup (dirty \ failed)
  /\ pc' = IF opts.raw THEN "stamp" ELSE "html"
  /\ UNCHANGED <<world, graph, layout, html, synced, marker, stamp, pass, success, dirty>>

(* It raises: `except Exception: pass`.  The --no-cluster path leaves the  *)
(* same try block without a stamp and returns True.                        *)
SaveFails ==
  /\ MayFail
  /\ pc = "manifest"
  /\ slipped' = slipped \cup {c \in Paths : manifest[c] # NoRow} \cup (dirty \ failed)
  /\ IF opts.raw THEN Return(TRUE)
     ELSE pc' = "html" /\ UNCHANGED <<pass, success>>
  /\ UNCHANGED <<world, outputs, dirty>>

(* Mutant: the marker is cleared although nothing was rendered. *)
ReconcileHtmlAlwaysClears ==
  /\ pc = "html"
  /\ marker' = FALSE
  /\ \/ html' = IF opts.viz THEN "current" ELSE "none"
     \/ MayFail /\ opts.viz /\ UNCHANGED html
  /\ pc' = IF replaced THEN "publish" ELSE "stamp"
  /\ UNCHANGED <<world, graph, layout, synced, manifest, stamp, pass, success, dirty, slipped>>

(* _reconcile_graph_html: disabled, up to date, rendered, or failed (then  *)
(* html and marker stay).                                                  *)
ReconcileHtml ==
  /\ pc = "html"
  /\ \/ /\ ~opts.viz
        /\ html' = "none"
        /\ marker' = FALSE
     \/ /\ opts.viz
        /\ html # "none" /\ ~marker
        /\ UNCHANGED <<html, marker>>
     \/ /\ opts.viz
        /\ html = "none" \/ marker
        /\ html' = "current"
        /\ marker' = FALSE
     \/ /\ opts.viz
        /\ html = "none" \/ marker
        /\ MayFail
        /\ UNCHANGED <<html, marker>>
  /\ pc' = IF replaced THEN "publish" ELSE "stamp"
  /\ UNCHANGED <<world, graph, layout, synced, manifest, stamp, pass, success, dirty, slipped>>

(* publish_snapshot_for; when it raises the pass fails (Abandon). *)
Publish ==
  /\ pc = "publish"
  /\ synced' = TRUE
  /\ pc' = "stamp"
  /\ UNCHANGED <<world, graph, layout, html, marker, manifest, stamp, pass, success, dirty, slipped>>

(* _write_build_state: nothing while the html awaits a render, or when the *)
(* write fails; a write cut short leaves no readable stamp.                *)
Stamp ==
  /\ pc = "stamp"
  /\ \/ /\ ~marker
        /\ stamp' = [key |-> Key(opts, scanned), full |-> full, fresh |-> TRUE,
                     html |-> html # "none"]
     \/ marker /\ UNCHANGED stamp
     \/ ~marker /\ MayFail /\ stamp' \in {stamp, NoStamp}
  /\ Return(TRUE)
  /\ UNCHANGED <<world, graph, layout, html, synced, marker, manifest, dirty, slipped>>

(* An exception, the alarm or a kill ends the pass where it is. *)
Abandon ==
  /\ MayFail
  /\ pc # "idle"
  /\ dirty' = dirty \cup (IF pc \in {"compare", "replace"} THEN covered ELSE {})
  /\ Return(FALSE)
  /\ UNCHANGED <<world, outputs, slipped>>

-----------------------------------------------------------------------------
Step == \/ Extract \/ Untouched \/ Refuse \/ MarkHtml \/ Replace
        \/ SaveManifest \/ SaveFails \/ ReconcileHtml \/ Publish \/ Stamp

Next == \/ \E c \in Paths, x \in Contents \cup {Absent} : Edit(c, x)
        \/ \E o \in Options : \/ Skip(o)
                              \/ \E S \in SUBSET Paths, f \in BOOLEAN : Begin(o, f, S)
        \/ NothingToDo
        \/ Step
        \/ Abandon

Spec == Init /\ [][Next]_vars

-----------------------------------------------------------------------------
(* A full pass is skipped only when graph.json has every file as it is on  *)
(* disk, deletions and earlier failures included, up to the files whose    *)
(* row may describe something else than was extracted: those edited        *)
(* between the extraction and save_manifest, those an incremental pass     *)
(* stamped without extracting them, and all of them once a save failed.    *)
SkipIsSound ==
  pc = "idle" /\ (\E o \in Options : Skippable(o))
    => \A c \in Paths \ slipped : graph[c] = ShapeOf(disk[c])

(* The gate's own promise: it fails closed, since "a false 'unchanged'     *)
(* ships a stale graph" (watch.py:1761-1764).                              *)
SkippedGraphIsCurrent ==
  pc = "idle" /\ (\E o \in Options : Skippable(o))
    => \A c \in Paths : graph[c] = ShapeOf(disk[c])

(* "An interruption cannot leave a previous visualization looking current  *)
(* to the fast path" (watch.py:3081-3082): an html made from an earlier    *)
(* clustered graph.json has its marker.                                    *)
HtmlNeverLooksCurrent ==
  layout = "clustered" /\ html = "old" => marker

(* What is not due for extraction is in graph.json as it is on disk:       *)
(* incremental passes neither lose nor revive what others contributed.     *)
CleanFilesAreInGraph ==
  \A c \in Paths \ dirty :
    (IF pc \in {"compare", "replace"} /\ c \in covered THEN candidate[c] ELSE graph[c])
      = ShapeOf(disk[c])

(* A rebuild that returns True leaves the snapshot in step with            *)
(* graph.json: one "that could not sync it did not succeed"                *)
(* (watch.py:3175-3178), and README.md:7 says the snapshot is rebuilt      *)
(* after every write of graph.json.                                        *)
SuccessMeansSynced == success /\ pc = "idle" => synced
=============================================================================
