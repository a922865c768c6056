---------------------------- MODULE SemanticRun -----------------------------
(***************************************************************************)
(* `graphify extract` over documents: cli.py's semantic pass, llm.py       *)
(* extract_corpus_parallel and cache.py save_semantic_cache.  A run takes  *)
(* the files the manifest does not call done, serves those the semantic    *)
(* cache holds whole, slices the others, packs the slices into chunks and  *)
(* sends these to a model, several at a time.  Each chunk's result is put  *)
(* in the cache as it comes (the checkpoint), all results together at the  *)
(* end; then graph.json is written and the manifest stamped.  Runs are     *)
(* killed anywhere.  Files do not change: each content is a file of its    *)
(* own to the cache and to the manifest.                                   *)
(*                                                                         *)
(* What a chunk can come to is AdaptiveRetry's Outcomes.                   *)
(***************************************************************************)
EXTENDS AdaptiveRetry, FiniteSets

CONSTANTS Absent,
          Corpus,      \* the units of all files, in the order they are packed
          MaxRuns,     \* bound: runs of `graphify extract`
          MayFail      \* runs are killed, cache writes fail

(* A chunk is a set of positions in the corpus.                            *)
Chunks == SUBSET DOMAIN Corpus
Text   == [chunk \in Chunks |-> Pieces({Corpus[i] : i \in chunk})]
Names  == [chunk \in Chunks |-> FilesOf({Corpus[i] : i \in chunk})]

Everything == Text[DOMAIN Corpus]

(* A unit holds something, and no two hold the same. *)
ASSUME CorpusAssumption ==
  /\ Corpus \in Seq(Slices)
  /\ Names[DOMAIN Corpus] = Files
  /\ \A i \in DOMAIN Corpus : Corpus[i].from < Corpus[i].to
  /\ \A i, j \in DOMAIN Corpus : i # j => Text[{i}] \cap Text[{j}] = {}
ASSUME SemanticBoundsAssumption == MaxRuns \in Nat /\ MayFail \in BOOLEAN

(* The units of a chunk go out in the order of the corpus. *)
InOrder(chunk) ==
  {at \in Bijection(1..Cardinality(chunk), chunk) :
     \A i, j \in DOMAIN at : i < j => at[i] < at[j]}

(* The results a chunk can come to.                                        *)
Attempts ==
  [chunk \in Chunks |->
     UNION {Outcomes([k \in DOMAIN at |-> Corpus[at[k]]]) : at \in InOrder(chunk)}]

Whole == [f \in Files |-> Of(f, Everything)]

CacheEntries == [nodes : SUBSET Everything, partial : BOOLEAN]

ASSUME AbsentAssumption == Absent \notin CacheEntries

VARIABLES entry,     \* semantic cache: file -> its nodes and whether partial
          graph,     \* the nodes of graph.json; none: there is no file
          stamped,   \* files the manifest has a semantic hash of
          phase, runs,
          allow,     \* --allow-partial; chosen where it is first of use
          merging,   \* incremental_mode: the existing graph is merged
          dispatched,\* semantic_files
          hits,      \* files served from the cache
          chunks, done,
          fresh,     \* what the chunks have come to, merged
          sem,       \* nodes of sem_result
          kept,      \* ghost: files a chunk has completed and checkpointed
          short      \* ghost: see the end of the module

store == <<entry, graph, stamped>>
run == <<allow, merging, dispatched, hits, chunks>>
semanticVars == <<store, phase, runs, run, done, fresh, sem, kept, short>>

NoFresh == [nodes |-> {}, partial |-> {}, returned |-> FALSE, missing |-> FALSE]

SemanticTypeOK ==
  /\ entry \in [Files -> CacheEntries \cup {Absent}]
  /\ graph \subseteq Everything /\ stamped \subseteq Files
  /\ phase \in {"idle", "chunks", "write", "stamp"} /\ runs \in 0..MaxRuns
  /\ allow \in BOOLEAN /\ merging \in BOOLEAN
  /\ hits \subseteq dispatched /\ dispatched \subseteq Files
  /\ chunks \subseteq Chunks /\ done \subseteq chunks
  /\ fresh \in [nodes : SUBSET Everything, partial : SUBSET Files,
                returned : BOOLEAN, missing : BOOLEAN]
  /\ sem \subseteq Everything
  /\ kept \subseteq Files /\ short \subseteq Files

SemanticInit ==
  /\ entry = [f \in Files |-> Absent] /\ graph = {} /\ stamped = {}
  /\ phase = "idle" /\ runs = 0
  /\ allow = FALSE /\ merging = FALSE
  /\ dispatched = {} /\ hits = {} /\ chunks = {} /\ done = {}
  /\ fresh = NoFresh /\ sem = {} /\ kept = {} /\ short = {}

(* The process exits: what it had in memory is gone. *)
ExitRun ==
  /\ phase' = "idle"
  /\ allow' = FALSE /\ merging' = FALSE
  /\ dispatched' = {} /\ hits' = {} /\ chunks' = {} /\ done' = {}
  /\ fresh' = NoFresh /\ sem' = {}

-----------------------------------------------------------------------------
(* load_cached: a partial entry is a miss.                                 *)
Hit(f) == entry[f] # Absent /\ ~entry[f].partial

NodesIn(f, nodes) == Of(f, nodes) # {}

(* detect_incremental, and the stamped files graph.json has nothing of     *)
(* (#2927); without a graph, or with --force, every file.                  *)
Dispatched(incremental) ==
  IF incremental THEN {f \in Files : f \notin stamped \/ ~NodesIn(f, graph)}
  ELSE Files

(* Every way of cutting the units of these files into consecutive chunks;  *)
(* which one it is, the token estimates say.                               *)
Packings(files) ==
  LET I == {i \in DOMAIN Corpus : Corpus[i].file \in files}
  IN  {{{j \in I : number[j] = k} : k \in {number[j] : j \in I}} :
       number \in {n \in [I -> I] : \A i, j \in I : i <= j => n[i] <= n[j]}}

Begin(force) ==
  /\ phase = "idle" /\ runs < MaxRuns
  /\ runs' = runs + 1 /\ phase' = "chunks"
  /\ merging' = (graph # {} /\ ~force)
  /\ dispatched' = Dispatched(merging')
  /\ hits' = IF force THEN {} ELSE {f \in dispatched' : Hit(f)}
  /\ chunks' \in Packings(dispatched' \ hits')
  /\ done' = {} /\ fresh' = NoFresh
  /\ sem' = UNION {entry[f].nodes : f \in hits'}
  /\ kept' = kept \ (dispatched' \ hits')
  /\ UNCHANGED <<store, allow, short>>

-----------------------------------------------------------------------------
(* save_semantic_cache.  It groups by file what has nodes or is partial    *)
(* and writes the groups one after another: a failure leaves some.         *)
Groups(r, allowed) == {f \in allowed : NodesIn(f, r.nodes) \/ f \in r.partial}

Writes(groups) == IF MayFail THEN SUBSET groups ELSE {groups}

(* Mutant of Merged: a clean slice makes a partial entry complete (#1950). *)
MergedClean(f, r) ==
  [nodes   |-> Of(f, r.nodes) \cup (IF entry[f] = Absent THEN {} ELSE entry[f].nodes),
   partial |-> f \in r.partial]
Merged(f, r) ==
  [nodes   |-> Of(f, r.nodes) \cup (IF entry[f] = Absent THEN {} ELSE entry[f].nodes),
   partial |-> f \in r.partial \/ (entry[f] # Absent /\ entry[f].partial)]

Replaced(f, r) == [nodes |-> Of(f, r.nodes), partial |-> f \in r.partial]

(* Mutant of Checkpoint: nothing is written before the end of the run.     *)
CheckpointNothing(r, written) == UNCHANGED entry
Checkpoint(r, written) ==
  entry' = [f \in Files |-> IF f \in written THEN Merged(f, r) ELSE entry[f]]

-----------------------------------------------------------------------------
(* A chunk ends, in any order, and is checkpointed if it has not raised.   *)
InOneChunk(f, chunk) == Whole[f] \subseteq Text[chunk]

Raised(c) ==
  /\ phase = "chunks" /\ c \in chunks \ done
  /\ \E r \in Attempts[c] : r.raised
  /\ done' = done \cup {c}
  /\ fresh' = [fresh EXCEPT !.missing = TRUE]
  /\ short' = short \cup {f \in Names[c] : ~InOneChunk(f, c)}
  /\ UNCHANGED <<store, phase, runs, run, sem, kept>>

(* Files of the chunk that some, not all, of the nodes are missing of,     *)
(* and that are not marked.                                                *)
Halved(chunk, r) ==
  {f \in Names[chunk] \ r.partial :
     /\ ~(Of(f, Text[chunk]) \subseteq r.nodes)
     /\ ~InOneChunk(f, chunk) \/ NodesIn(f, r.nodes)}

Returned(c) ==
  /\ phase = "chunks" /\ c \in chunks \ done
  /\ done' = done \cup {c}
  /\ \E r \in {r \in Attempts[c] : ~r.raised} :
     LET groups == Groups(r, Names[c]) IN
     \E written \in Writes(groups) :
       /\ fresh' = [fresh EXCEPT !.nodes = @ \cup r.nodes,
                                 !.partial = @ \cup r.partial,
                                 !.returned = TRUE,
                                 !.missing = @ \/ r.lost # {}]
       /\ Checkpoint(r, written)
       /\ kept' = kept \cup {f \in written \ r.partial :
                               /\ Whole[f] \subseteq r.nodes
                               /\ entry[f] # Absent => ~entry[f].partial}
       /\ short' = short \cup Halved(c, r)
                         \cup {f \in groups \ written : ~InOneChunk(f, c)}
  /\ UNCHANGED <<graph, stamped, phase, runs, run, sem>>

Uncached == dispatched \ hits

(* No chunk has returned a result.                                         *)
AllFailed ==
  /\ phase = "chunks" /\ done = chunks /\ chunks # {}
  /\ ~fresh.returned
  /\ ExitRun
  /\ UNCHANGED <<store, runs, kept, short>>

FinalSave ==
  /\ phase = "chunks" /\ done = chunks
  /\ chunks = {} \/ fresh.returned
  /\ \E written \in Writes(Groups(fresh, Uncached)) :
       entry' = [f \in Files |-> IF f \in written THEN Replaced(f, fresh)
                                 ELSE entry[f]]
  /\ sem' = sem \cup fresh.nodes
  /\ allow' \in BOOLEAN
  /\ phase' = "write"
  /\ chunks' = {} /\ done' = {}
  /\ UNCHANGED <<graph, stamped, runs, merging, dispatched, hits, fresh,
                 kept, short>>

-----------------------------------------------------------------------------
(* build_merge replaces what the new nodes' files had in the graph.        *)
New == IF merging THEN sem \cup {p \in graph : ~NodesIn(p[1], sem)} ELSE sem

(* A file with fewer nodes than it had (#3203).                            *)
Shrunk ==
  {f \in Files : /\ merging /\ NodesIn(f, sem)
                 /\ Cardinality(Of(f, graph)) > 1
                 /\ Cardinality(Of(f, sem)) < Cardinality(Of(f, graph))}

Unverified == IF allow THEN {} ELSE Shrunk

Incomplete ==
  \/ fresh.missing \/ fresh.partial # {}
  \/ \E f \in Uncached : ~NodesIn(f, fresh.nodes)
  \/ Unverified # {}

(* The guard against an incomplete run, and the empty graph: to_json's asks *)
(* whether a node is lost, that of --no-cluster only counts.               *)
Refused(clustered) ==
  \/ clustered /\ New = {}
  \/ /\ Incomplete /\ ~allow
     /\ IF clustered THEN ~(graph \subseteq New) ELSE Cardinality(New) < Cardinality(graph)

Refuse(clustered) ==
  /\ phase = "write" /\ Refused(clustered)
  /\ ExitRun
  /\ UNCHANGED <<store, runs, kept, short>>

WriteGraph(clustered) ==
  /\ phase = "write" /\ ~Refused(clustered)
  /\ graph' = New
  /\ phase' = "stamp"
  /\ UNCHANGED <<entry, stamped, runs, run, done, fresh, sem, kept, short>>

(* Mutant of Stampable: truncated files are done too.                      *)
StampablePartial == {f \in Files : NodesIn(f, sem)} \ Unverified
Stampable == {f \in Files : NodesIn(f, sem)} \ (fresh.partial \cup Unverified)

SaveManifest ==
  /\ phase = "stamp"
  /\ stamped' = (stamped \ dispatched) \cup Stampable
  /\ ExitRun
  /\ UNCHANGED <<entry, graph, runs, kept, short>>

(* A kill, a database sync that fails, a manifest that cannot be written.  *)
KillRun ==
  /\ MayFail /\ phase # "idle"
  /\ ExitRun
  /\ short' = short \cup
       (IF phase = "chunks"
        THEN {f \in Uncached : \E c \in done, d \in chunks \ done :
                                 f \in Names[c] \cap Names[d]}
        ELSE {})
       \cup (IF phase = "stamp" THEN (stamped \cap dispatched) \ Stampable ELSE {})
  /\ UNCHANGED <<store, runs, kept>>

SemanticNext ==
  \/ \E force \in BOOLEAN : Begin(force)
  \/ \E c \in chunks : Raised(c) \/ Returned(c)
  \/ AllFailed \/ FinalSave
  \/ \E clustered \in BOOLEAN : Refuse(clustered) \/ WriteGraph(clustered)
  \/ SaveManifest \/ KillRun

SemanticSpec == SemanticInit /\ [][SemanticNext]_semanticVars

-----------------------------------------------------------------------------
(* Between runs, an entry that is served has the nodes of all of its file, *)
(* whatever was truncated in whatever order, and whatever of a run there   *)
(* was; except for files in `short`: those a slice or a half of which came *)
(* to nothing while the rest came back, because its chunk raised, was      *)
(* refused for good, was not checkpointed or was not reached by a killed   *)
(* run, or because the model had nothing to say of it.                     *)
HitsAreWhole ==
  phase = "idle" => \A f \in Files \ short : Hit(f) => entry[f].nodes = Whole[f]

(* Between runs, a file the manifest calls done is in graph.json with all  *)
(* its nodes, or without any, and is then taken again.                     *)
StampedIsInTheGraph ==
  phase = "idle" => \A f \in stamped \ short : Of(f, graph) \in {{}, Whole[f]}

(* What a chunk has completed is a hit for every later run (llm.py:3071),  *)
(* however this run ends; but not when an earlier run has left a partial   *)
(* entry, which stays partial until the final save.                        *)
CompletedChunksAreKept == \A f \in kept : Hit(f) /\ entry[f].nodes = Whole[f]

(* Whatever the model answers, each piece of a chunk was read, or its file *)
(* is marked truncated, or is reported lost, or the chunk has raised.      *)
AnswersAreAccounted ==
  phase = "chunks" /\ done = {} =>
    \A c \in chunks : \A r \in Attempts[c] :
      r.raised \/ \A p \in Text[c] :
                    p \in r.read \/ p[1] \in r.partial \cup r.lost

(* llm.py:2564, of a file the model was not asked about for good: "the     *)
(* file is left unstamped and retried next run"; cli.py:357: "Files whose  *)
(* chunk failed have no source_file entry in sem_result".  Expected to     *)
(* fail: another slice of the file has.                                    *)
DoneIsWhole ==
  phase = "idle" => \A f \in stamped : Of(f, graph) \in {{}, Whole[f]}
=============================================================================
