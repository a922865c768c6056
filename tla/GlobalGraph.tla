---------------------------- MODULE GlobalGraph -----------------------------
(***************************************************************************)
(* global_graph.py: ~/.graphify/global-graph.json, the merge of the graphs *)
(* of several repositories, and global-manifest.json, which has one row    *)
(* for each of them.  global_add and global_remove load both, change their *)
(* copies and write the graph, sync the database and write the manifest,   *)
(* without a lock: `graphify global add` and `extract --global` of several *)
(* repositories may run at the same time, fail and be killed.              *)
(*                                                                         *)
(* A repository's graph.json has one of a few contents.  Shape says what   *)
(* the content's code node does: which external libraries it uses, whether *)
(* it declares the type T, and whether it has a call parked on a T of      *)
(* another repository.  The database (ArcadeSync) is only here as a step   *)
(* that may fail.                                                          *)
(***************************************************************************)
EXTENDS Integers, FiniteSets

CONSTANTS Procs,        \* processes that run global_add or global_remove
          Repos,        \* repository tags
          NoRepo,       \* the owner of a node that belongs to no repository
          Libraries,    \* labels of nodes without a source file
          Stubs,        \* those whose nodes are flagged `external`
          MaxContents,  \* contents a graph.json can have
          Shape,        \* repository -> content -> what its code node does
          MaxEdits,     \* bound: rebuilds of the repositories' graph.json
          MaxOps,       \* bound: operations begun
          MayFail       \* operations fail and are killed

Contents == 1..MaxContents

ASSUME NoRepoAssumption   == NoRepo \notin Repos
ASSUME StubsAssumption    == Stubs \subseteq Libraries
ASSUME BoundsAssumption   == MaxContents \in Nat \ {0} /\ MaxEdits \in Nat /\ MaxOps \in Nat
ASSUME SwitchesAssumption == MayFail \in BOOLEAN
ASSUME ShapeAssumption    ==
  Shape \in [Repos -> [Contents -> [uses : SUBSET Libraries,
                                    declares : BOOLEAN, calls : BOOLEAN]]]

VARIABLES src,     \* repository -> the content of its graph.json
          graph,   \* global-graph.json
          row,     \* global-manifest.json: repository -> the content hashed, or 0
          pc,
          repo,    \* process -> the repository it is about
          adding,  \* process -> it runs global_add
          rows,    \* process -> the manifest it loaded
          hash,    \* process -> the content it hashed
          read,    \* process -> the content it read
          mine,    \* process -> the global graph it loaded
          edits, ops,
          torn,    \* ghost: repositories whose last operation ended half way
          raced    \* ghost: repositories an operation has written over unseen

local == <<repo, adding, rows, hash, read, mine>>
vars == <<src, graph, row, pc, local, edits, ops, torn, raced>>

Location == {"idle", "hash", "read", "load", "save", "sync", "record"}

(* A node without a source file: its label and the repository in its id.   *)
LibraryNodes == [owner : Repos \cup {NoRepo}, label : Libraries]

(* held: the content each repository's code node was made from, 0 without  *)
(* one.  libs: the library nodes.  uses: the edges to them.  calls: the    *)
(* edges marked _cross_repo_call.  Two ghosts: severed, the edges to a     *)
(* library that went away with another repository; unlinked, no add since  *)
(* the last removal.                                                       *)
Graphs == [held : [Repos -> 0..MaxContents], libs : SUBSET LibraryNodes,
           uses : SUBSET (Repos \X LibraryNodes), calls : SUBSET (Repos \X Repos),
           severed : SUBSET (Repos \X Libraries), unlinked : BOOLEAN]

Manifests == [Repos -> 0..MaxContents]

(* Every variable keeps its type; no edge of the graph dangles. *)
TypeOK == /\ src \in [Repos -> Contents]
          /\ graph \in Graphs
          /\ graph.uses \subseteq Repos \X graph.libs
          /\ row \in Manifests
          /\ pc \in [Procs -> Location]
          /\ repo \in [Procs -> Repos \cup {NoRepo}]
          /\ adding \in [Procs -> BOOLEAN]
          /\ rows \in [Procs -> Manifests]
          /\ hash \in [Procs -> 0..MaxContents]
          /\ read \in [Procs -> 0..MaxContents]
          /\ mine \in [Procs -> Graphs]
          /\ edits \in 0..MaxEdits
          /\ ops \in 0..MaxOps
          /\ torn \in SUBSET Repos
          /\ raced \in SUBSET Repos

NoRows == [r \in Repos |-> 0]
EmptyGraph == [held |-> NoRows, libs |-> {}, uses |-> {}, calls |-> {},
               severed |-> {}, unlinked |-> FALSE]

Init == /\ src = [r \in Repos |-> 1]
        /\ graph = EmptyGraph
        /\ row = NoRows
        /\ pc = [p \in Procs |-> "idle"]
        /\ repo = [p \in Procs |-> NoRepo]
        /\ adding = [p \in Procs |-> FALSE]
        /\ rows = [p \in Procs |-> NoRows]
        /\ hash = [p \in Procs |-> 0]
        /\ read = [p \in Procs |-> 0]
        /\ mine = [p \in Procs |-> EmptyGraph]
        /\ edits = 0 /\ ops = 0
        /\ torn = {} /\ raced = {}

-----------------------------------------------------------------------------
(* What the two operations do to a graph. *)

Holds(held, r)    == held[r] # 0
Wants(held, r)    == IF Holds(held, r) THEN Shape[r][held[r]].uses ELSE {}
Declares(held, r) == Holds(held, r) /\ Shape[r][held[r]].declares
Calls(held, r)    == Holds(held, r) /\ Shape[r][held[r]].calls

(* prune_repo_from_graph: the nodes tagged with r go, and with a node all  *)
(* its edges, those of other repositories included.                        *)
Prune(G, r) ==
  [G EXCEPT !.held[r] = 0,
            !.libs = {n \in @ : n.owner # r},
            !.uses = {e \in @ : e[1] # r /\ e[2].owner # r},
            !.calls = {e \in @ : r \notin {e[1], e[2]}},
            !.severed = {e \in @ : e[1] # r}
                        \cup {<<e[1], e[2].label>> : e \in {f \in G.uses : f[1] # r /\ f[2].owner = r}}]

(* link_cross_repo_member_calls: a parked call is bound when exactly one   *)
(* other repository declares its receiver's type.                          *)
CrossRepoCalls(held) ==
  {e \in Repos \X Repos :
     /\ Calls(held, e[1])
     /\ {d \in Repos \ {e[1]} : Declares(held, d)} = {e[2]}}

(* Mutant: the id of a library node is always the repository's own. *)
LibraryNodeOwn(G, r, l) == [owner |-> r, label |-> l]

(* The node that stands for library l when r is merged into G: the one     *)
(* with this label that is there, else r's own, or the global stub.        *)
LibraryNode(G, r, l) ==
  IF \E n \in G.libs : n.label = l
  THEN CHOOSE n \in G.libs : n.label = l
  ELSE [owner |-> IF l \in Stubs THEN NoRepo ELSE r, label |-> l]

(* Mutant: edges to a deduplicated node are dropped with it. *)
MergeDropsEdges(G, r, v) ==
  LET P     == Prune(G, r)
      nodes == {LibraryNode(P, r, l) : l \in Shape[r][v].uses}
      held  == [P.held EXCEPT ![r] = v]
  IN [P EXCEPT !.held = held,
               !.libs = @ \cup nodes,
               !.uses = @ \cup {<<r, n>> : n \in nodes \ P.libs},
               !.calls = CrossRepoCalls(held),
               !.unlinked = FALSE]

(* Mutant: previous cross-repository calls are kept. *)
MergeKeepsCalls(G, r, v) ==
  LET P     == Prune(G, r)
      nodes == {LibraryNode(P, r, l) : l \in Shape[r][v].uses}
      held  == [P.held EXCEPT ![r] = v]
  IN [P EXCEPT !.held = held,
               !.libs = @ \cup nodes,
               !.uses = @ \cup {<<r, n>> : n \in nodes},
               !.calls = @ \cup CrossRepoCalls(held),
               !.unlinked = FALSE]

(* global_add's part: prune, compose with the library nodes remapped by    *)
(* label, and compute the cross-repository calls anew.                     *)
Merge(G, r, v) ==
  LET P     == Prune(G, r)
      nodes == {LibraryNode(P, r, l) : l \in Shape[r][v].uses}
      held  == [P.held EXCEPT ![r] = v]
  IN [P EXCEPT !.held = held,
               !.libs = @ \cup nodes,
               !.uses = @ \cup {<<r, n>> : n \in nodes},
               !.calls = CrossRepoCalls(held),
               !.unlinked = FALSE]

(* What p writes. *)
Result(p) == IF adding[p] THEN Merge(mine[p], repo[p], read[p])
             ELSE [Prune(mine[p], repo[p]) EXCEPT !.unlinked = TRUE]

-----------------------------------------------------------------------------
Goto(p, l) == pc' = [pc EXCEPT ![p] = l]

Return(p) == /\ Goto(p, "idle")
             /\ repo' = [repo EXCEPT ![p] = NoRepo]
             /\ adding' = [adding EXCEPT ![p] = FALSE]
             /\ rows' = [rows EXCEPT ![p] = NoRows]
             /\ hash' = [hash EXCEPT ![p] = 0]
             /\ read' = [read EXCEPT ![p] = 0]
             /\ mine' = [mine EXCEPT ![p] = EmptyGraph]

(* A repository is rebuilt: its graph.json has other contents, or the      *)
(* earlier ones again.                                                     *)
Rebuild(r, v) == /\ edits < MaxEdits
                 /\ v # src[r]
                 /\ src' = [src EXCEPT ![r] = v]
                 /\ edits' = edits + 1
                 /\ UNCHANGED <<graph, row, pc, local, ops, torn, raced>>

(* The manifest is loaded first. *)
Begin(p, r, add, next) ==
  /\ pc[p] = "idle"
  /\ ops < MaxOps
  /\ ops' = ops + 1
  /\ repo' = [repo EXCEPT ![p] = r]
  /\ adding' = [adding EXCEPT ![p] = add]
  /\ rows' = [rows EXCEPT ![p] = row]
  /\ Goto(p, next)
  /\ UNCHANGED <<src, graph, row, hash, read, mine, edits, torn, raced>>

Add(p, r) == Begin(p, r, TRUE, "hash")

(* Without a row: "not in global graph". *)
Remove(p, r) == row[r] # 0 /\ Begin(p, r, FALSE, "load")

Skip(p) == /\ pc[p] = "hash"
           /\ rows[p][repo[p]] = src[repo[p]]
           /\ Return(p)
           /\ UNCHANGED <<src, graph, row, edits, ops, torn, raced>>

Hash(p) == /\ pc[p] = "hash"
           /\ rows[p][repo[p]] # src[repo[p]]
           /\ hash' = [hash EXCEPT ![p] = src[repo[p]]]
           /\ Goto(p, "read")
           /\ UNCHANGED <<src, graph, row, repo, adding, rows, read, mine, edits, ops, torn, raced>>

(* The graph.json that was hashed is opened again to be read. *)
Read(p) == /\ pc[p] = "read"
           /\ read' = [read EXCEPT ![p] = src[repo[p]]]
           /\ Goto(p, "load")
           /\ UNCHANGED <<src, graph, row, repo, adding, rows, hash, mine, edits, ops, torn, raced>>

Load(p) == /\ pc[p] = "load"
           /\ mine' = [mine EXCEPT ![p] = graph]
           /\ Goto(p, "save")
           /\ UNCHANGED <<src, graph, row, repo, adding, rows, hash, read, edits, ops, torn, raced>>

(* An operation on r has replaced the graph and not yet the manifest. *)
InFlight(p, r) == repo[p] = r /\ pc[p] \in {"sync", "record"}

(* The graph is replaced.  What others have written since Load is lost.    *)
Save(p) ==
  /\ pc[p] = "save"
  /\ graph' = Result(p)
  /\ raced' = raced \cup {r \in Repos : graph.held[r] # mine[p].held[r]}
                    \cup {r \in {repo[p]} : \E q \in Procs \ {p} : InFlight(q, r)}
  /\ Goto(p, "sync")
  /\ UNCHANGED <<src, row, local, edits, ops, torn>>

(* _sync_global_db; when it raises, the operation is over (Abort). *)
Sync(p) == /\ pc[p] = "sync"
           /\ Goto(p, "record")
           /\ UNCHANGED <<src, graph, row, local, edits, ops, torn, raced>>

(* Mutant: a removed repository keeps its row. *)
RecordKeepsRow(p) ==
  /\ pc[p] = "record"
  /\ row' = [rows[p] EXCEPT ![repo[p]] = IF adding[p] THEN hash[p] ELSE @]
  /\ raced' = raced \cup {r \in Repos : row[r] # rows[p][r]}
  /\ torn' = IF hash[p] = read[p] THEN torn \ {repo[p]} ELSE torn \cup {repo[p]}
  /\ Return(p)
  /\ UNCHANGED <<src, graph, edits, ops>>

(* The manifest loaded at the beginning is written with the new row, or    *)
(* without the row.                                                        *)
Record(p) ==
  /\ pc[p] = "record"
  /\ row' = [rows[p] EXCEPT ![repo[p]] = IF adding[p] THEN hash[p] ELSE 0]
  /\ raced' = raced \cup {r \in Repos : row[r] # rows[p][r]}
  /\ torn' = IF hash[p] = read[p] THEN torn \ {repo[p]} ELSE torn \cup {repo[p]}
  /\ Return(p)
  /\ UNCHANGED <<src, graph, edits, ops>>

(* An exception or a kill. *)
Abort(p) == /\ MayFail
            /\ pc[p] # "idle"
            /\ torn' = torn \cup {r \in {repo[p]} : InFlight(p, r)}
            /\ Return(p)
            /\ UNCHANGED <<src, graph, row, edits, ops, raced>>

Next == \/ \E r \in Repos, v \in Contents : Rebuild(r, v)
        \/ \E p \in Procs :
             \/ \E r \in Repos : Add(p, r) \/ Remove(p, r)
             \/ Skip(p) \/ Hash(p) \/ Read(p) \/ Load(p) \/ Save(p) \/ Sync(p) \/ Record(p)
             \/ Abort(p)

Spec == Init /\ [][Next]_vars

-----------------------------------------------------------------------------
(* A row says what the graph has: the hash by which the next global_add    *)
(* of the repository decides to skip is of the contents that are merged,   *)
(* and without a row nothing is merged.  Not so for a repository whose     *)
(* last operation ended between the graph and the manifest, or hashed one  *)
(* graph.json and read another, nor after two operations have overwritten  *)
(* each other's work.                                                      *)
RowsTellTheGraph ==
  \A r \in Repos :
    (r \notin torn \cup raced /\ \A p \in Procs : ~InFlight(p, r)) => row[r] = graph.held[r]

(* A library is one node however many repositories use it, and a node that *)
(* belongs to a repository goes when the repository's code goes.           *)
LibrariesAreShared ==
  /\ \A n, m \in graph.libs : n.label = m.label => n = m
  /\ \A n \in graph.libs : n.owner # NoRepo => n.label \in Wants(graph.held, n.owner)

(* Every use of a library is an edge to the node that stands for it, also  *)
(* when that node came with another repository; except that the uses of a  *)
(* node that has gone with its own repository are lost until the user is   *)
(* merged again.                                                           *)
UsesAreRewired ==
  {<<e[1], e[2].label>> : e \in graph.uses}
     = {e \in Repos \X Libraries : e[2] \in Wants(graph.held, e[1])} \ graph.severed

(* Calls across repositories are those one merge of the same inputs would  *)
(* link, whatever the order in which they came and went; a removal only    *)
(* takes calls away, and an ambiguity it resolves waits for the next add.  *)
CallsAgreeWithOneMerge ==
  /\ graph.calls \subseteq CrossRepoCalls(graph.held)
  /\ ~graph.unlinked => graph.calls = CrossRepoCalls(graph.held)
=============================================================================
