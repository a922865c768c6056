-------------------------- MODULE GlobalGraphProofs -------------------------
(***************************************************************************)
(* What GlobalGraph promises, for any number of processes, repositories,   *)
(* libraries and contents: what an add or a removal makes of a graph is    *)
(* as good as the graph it started from, and the ghosts name every way a   *)
(* row can be of other contents than the graph.                            *)
(***************************************************************************)
EXTENDS GlobalGraph, TLAPS

(* The properties of a graph, whoever holds it. *)
Dangling(G) == \E x \in Repos, n \in LibraryNodes : <<x, n>> \in G.uses /\ n \notin G.libs

Sharing(G) ==
  /\ \A n, m \in G.libs : n.label = m.label => n = m
  /\ \A n \in G.libs : n.owner # NoRepo => n.label \in Wants(G.held, n.owner)

Rewiring(G) ==
  \A x \in Repos, l \in Libraries :
    (\E n \in LibraryNodes : <<x, n>> \in G.uses /\ n.label = l)
      <=> l \in Wants(G.held, x) /\ <<x, l>> \notin G.severed

Binding(G) == G.calls \subseteq CrossRepoCalls(G.held)

Sound(G) == G \in Graphs /\ ~Dangling(G) /\ Sharing(G) /\ Rewiring(G) /\ Binding(G)

Linked(G) == ~G.unlinked => G.calls = CrossRepoCalls(G.held)

GraphInv == /\ Sound(graph) /\ Linked(graph)
            /\ \A p \in Procs : Sound(mine[p]) /\ Linked(mine[p])

(* What a process has when it comes to write. *)
ProcInv ==
  \A p \in Procs :
    /\ IF pc[p] = "idle" THEN ~adding[p] ELSE repo[p] \in Repos
    /\ pc[p] \in {"hash", "read"} => adding[p]
    /\ adding[p] /\ pc[p] \in {"load", "save", "sync", "record"} => read[p] \in Contents
    /\ ~adding[p] => hash[p] = 0 /\ read[p] = 0
    /\ pc[p] \in {"hash", "read"} => read[p] = 0

(* Between the graph and the manifest the graph has what the process put   *)
(* there, unless another has written over it.                              *)
FlightInv ==
  \A p \in Procs : pc[p] \in {"sync", "record"} /\ repo[p] \notin raced =>
    graph.held[repo[p]] = IF adding[p] THEN read[p] ELSE 0

IInv == /\ TypeOK
        /\ ProcInv
        /\ GraphInv
        /\ FlightInv
        /\ RowsTellTheGraph

-----------------------------------------------------------------------------
(* What the operators make of a graph. *)

(* P is G without r: its nodes and edges are gone, and the edges of others *)
(* to its library nodes are severed.                                       *)
Pruned(P, G, r) ==
  /\ P \in Graphs
  /\ P.held = [G.held EXCEPT ![r] = 0]
  /\ P.libs = {n \in G.libs : n.owner # r}
  /\ \A x \in Repos, n \in LibraryNodes :
       <<x, n>> \in P.uses <=> <<x, n>> \in G.uses /\ x # r /\ n.owner # r
  /\ \A x, y \in Repos : <<x, y>> \in P.calls <=> <<x, y>> \in G.calls /\ x # r /\ y # r
  /\ \A x \in Repos, l \in Libraries :
       <<x, l>> \in P.severed <=>
         /\ x # r
         /\ \/ <<x, l>> \in G.severed
            \/ \E n \in LibraryNodes : <<x, n>> \in G.uses /\ n.owner = r /\ n.label = l

(* M is P with content v of r merged in. *)
Merged(M, P, r, v) ==
  LET own(l) == LibraryNode(P, r, l)
  IN  /\ M \in Graphs
      /\ M.held = [P.held EXCEPT ![r] = v]
      /\ M.libs = P.libs \cup {own(l) : l \in Shape[r][v].uses}
      /\ \A x \in Repos, n \in LibraryNodes :
           <<x, n>> \in M.uses <=>
             <<x, n>> \in P.uses \/ (x = r /\ \E l \in Shape[r][v].uses : n = own(l))
      /\ M.calls = CrossRepoCalls(M.held)
      /\ M.severed = P.severed
      /\ M.unlinked = FALSE

(* prune_repo_from_graph does just that. *)
LEMMA PruneIs ==
  ASSUME NEW G \in Graphs, NEW r \in Repos
  PROVE  Pruned(Prune(G, r), G, r)
  <1> SUFFICES ASSUME NEW P, P = Prune(G, r)
               PROVE  Pruned(P, G, r)
    OBVIOUS
  <1> USE BoundsAssumption DEF Graphs
  <1> DEFINE cut == {<<e[1], e[2].label>> : e \in {f \in G.uses : f[1] # r /\ f[2].owner = r}}
             sev == {e \in G.severed : e[1] # r} \cup cut
  <1>1. P = [held |-> [G.held EXCEPT ![r] = 0], libs |-> {n \in G.libs : n.owner # r},
             uses |-> {e \in G.uses : e[1] # r /\ e[2].owner # r},
             calls |-> {e \in G.calls : r \notin {e[1], e[2]}},
             severed |-> sev, unlinked |-> G.unlinked]
    BY DEF Prune
  <1>2. cut \subseteq Repos \X Libraries
    BY DEF LibraryNodes
  <1>3. \A x \in Repos, l \in Libraries : <<x, l>> \in cut <=>
          x # r /\ \E n \in LibraryNodes : <<x, n>> \in G.uses /\ n.owner = r /\ n.label = l
    <2> TAKE x \in Repos, l \in Libraries
    <2>1. ASSUME <<x, l>> \in cut
          PROVE  x # r /\ \E n \in LibraryNodes : <<x, n>> \in G.uses /\ n.owner = r /\ n.label = l
      <3>1. PICK e \in G.uses : e[1] # r /\ e[2].owner = r /\ <<x, l>> = <<e[1], e[2].label>>
        BY <2>1
      <3>2. e = <<e[1], e[2]>> /\ e[2] \in LibraryNodes
        OBVIOUS
      <3>. QED BY <3>1, <3>2
    <2>2. ASSUME x # r, NEW n \in LibraryNodes, <<x, n>> \in G.uses, n.owner = r, n.label = l
          PROVE  <<x, l>> \in cut
      BY <2>2
    <2>. QED BY <2>1, <2>2
  <1>4. sev \subseteq Repos \X Libraries
    BY <1>2
  <1>5. P \in Graphs
    BY <1>1, <1>4
  <1>6. \A x \in Repos, l \in Libraries : <<x, l>> \in sev <=>
          x # r /\ (<<x, l>> \in G.severed \/ <<x, l>> \in cut)
    BY <1>3
  <1> HIDE DEF sev, cut
  <1>7. P.severed = sev /\ P.held = [G.held EXCEPT ![r] = 0]
        /\ P.libs = {n \in G.libs : n.owner # r}
    BY <1>1
  <1>8. \A x \in Repos, n \in LibraryNodes :
          <<x, n>> \in P.uses <=> <<x, n>> \in G.uses /\ x # r /\ n.owner # r
    BY <1>1
  <1>9. \A x, y \in Repos : <<x, y>> \in P.calls <=> <<x, y>> \in G.calls /\ x # r /\ y # r
    BY <1>1
  <1>10. \A x \in Repos, l \in Libraries :
           <<x, l>> \in P.severed <=>
             /\ x # r
             /\ \/ <<x, l>> \in G.severed
                \/ \E n \in LibraryNodes : <<x, n>> \in G.uses /\ n.owner = r /\ n.label = l
    <2> TAKE x \in Repos, l \in Libraries
    <2>1. <<x, l>> \in cut <=>
            x # r /\ \E n \in LibraryNodes : <<x, n>> \in G.uses /\ n.owner = r /\ n.label = l
      BY <1>3
    <2>2. <<x, l>> \in P.severed <=> x # r /\ (<<x, l>> \in G.severed \/ <<x, l>> \in cut)
      BY <1>6, <1>7
    <2>. QED BY <2>1, <2>2
  <1>. QED BY <1>5, <1>7, <1>8, <1>9, <1>10 DEF Pruned

(* The node of a library has its label, and is there or a new one.         *)
LEMMA LibraryNodeIs ==
  ASSUME NEW G \in Graphs, NEW r \in Repos, NEW l \in Libraries
  PROVE  /\ LibraryNode(G, r, l) \in LibraryNodes
         /\ LibraryNode(G, r, l).label = l
         /\ \/ LibraryNode(G, r, l) \in G.libs
            \/ /\ \A n \in G.libs : n.label # l
               /\ LibraryNode(G, r, l).owner \in {r, NoRepo}
  BY DEF Graphs, LibraryNodes, LibraryNode

(* Composing adds the repository's part to the pruned graph. *)
LEMMA MergeIs ==
  ASSUME NEW G \in Graphs, NEW r \in Repos, NEW v \in Contents
  PROVE  Merged(Merge(G, r, v), Prune(G, r), r, v)
  <1> DEFINE P == Prune(G, r)
             M == Merge(G, r, v)
             want == Shape[r][v].uses
             nodes == {LibraryNode(P, r, l) : l \in want}
             held == [P.held EXCEPT ![r] = v]
             edges == {<<r, n>> : n \in nodes}
  <1>1. P \in Graphs
    BY PruneIs DEF Pruned
  <1>2. want \subseteq Libraries
    BY ShapeAssumption
  <1>3. M = [P EXCEPT !.held = held, !.libs = P.libs \cup nodes,
                      !.uses = P.uses \cup edges,
                      !.calls = CrossRepoCalls(held), !.unlinked = FALSE]
    BY DEF Merge
  <1>4. nodes \subseteq LibraryNodes
    BY <1>1, <1>2, LibraryNodeIs
  <1>5. edges \subseteq Repos \X LibraryNodes
    BY <1>4
  <1>6. \A x \in Repos, n \in LibraryNodes :
          <<x, n>> \in edges <=> x = r /\ \E l \in want : n = LibraryNode(P, r, l)
    OBVIOUS
  <1>7. held \in [Repos -> 0..MaxContents]
    BY <1>1, BoundsAssumption DEF Graphs, Contents
  <1>8. CrossRepoCalls(held) \subseteq Repos \X Repos
    BY DEF CrossRepoCalls
  <1> HIDE DEF P, M, held, edges, nodes
  <1>9. M = [held |-> held, libs |-> P.libs \cup nodes, uses |-> P.uses \cup edges,
             calls |-> CrossRepoCalls(held), severed |-> P.severed, unlinked |-> FALSE]
    BY <1>1, <1>3 DEF Graphs
  <1>10. M \in Graphs
    BY <1>1, <1>4, <1>5, <1>7, <1>8, <1>9 DEF Graphs
  <1>11. \A x \in Repos, n \in LibraryNodes :
           <<x, n>> \in M.uses <=>
             <<x, n>> \in P.uses \/ (x = r /\ \E l \in want : n = LibraryNode(P, r, l))
    <2>1. M.uses = P.uses \cup edges
      BY <1>9
    <2>. QED BY <2>1, <1>6
  <1>12. /\ M.held = held /\ M.libs = P.libs \cup nodes /\ M.severed = P.severed
         /\ M.calls = CrossRepoCalls(held) /\ M.unlinked = FALSE
    BY <1>9
  <1>13. Merged(M, P, r, v)
    BY <1>10, <1>11, <1>12 DEF Merged, held, nodes
  <1>. QED BY <1>13 DEF M, P

(* A removal leaves a sound graph: what used the repository's libraries    *)
(* is severed from them, and no other call becomes ambiguous.              *)
LEMMA PruneKeeps ==
  ASSUME NEW G, Sound(G), NEW r \in Repos, NEW P, Pruned(P, G, r)
  PROVE  Sound(P)
  <1> USE DEF Sound
  <1>1. /\ P \in Graphs
        /\ P.held = [G.held EXCEPT ![r] = 0]
        /\ P.libs = {n \in G.libs : n.owner # r}
        /\ \A x \in Repos, n \in LibraryNodes :
             <<x, n>> \in P.uses <=> <<x, n>> \in G.uses /\ x # r /\ n.owner # r
        /\ \A x, y \in Repos : <<x, y>> \in P.calls <=> <<x, y>> \in G.calls /\ x # r /\ y # r
    BY DEF Pruned
  <1>0. \A x \in Repos, l \in Libraries :
          <<x, l>> \in P.severed <=>
            /\ x # r
            /\ \/ <<x, l>> \in G.severed
               \/ \E n \in LibraryNodes : <<x, n>> \in G.uses /\ n.owner = r /\ n.label = l
    BY DEF Pruned
  <1>2. \A x \in Repos : Wants(P.held, x) = IF x = r THEN {} ELSE Wants(G.held, x)
    BY <1>1 DEF Wants, Holds, Graphs
  <1>3. ~Dangling(P)
    BY <1>1 DEF Dangling
  <1>4. Sharing(P)
    BY <1>1, <1>2 DEF Sharing, Graphs, LibraryNodes
  <1>5. Rewiring(P)
    <2> SUFFICES ASSUME NEW x \in Repos, NEW l \in Libraries
                 PROVE  (\E n \in LibraryNodes : <<x, n>> \in P.uses /\ n.label = l)
                          <=> l \in Wants(P.held, x) /\ <<x, l>> \notin P.severed
      BY DEF Rewiring
    <2>1. CASE x = r
      BY <2>1, <1>1, <1>2
    <2>2. CASE x # r
      <3>1. ASSUME NEW n \in LibraryNodes, <<x, n>> \in P.uses, n.label = l
            PROVE  l \in Wants(P.held, x) /\ <<x, l>> \notin P.severed
        <4>1. <<x, n>> \in G.uses /\ n.owner # r /\ n \in G.libs
          BY <3>1, <1>1 DEF Dangling
        <4>2. \A m \in LibraryNodes : <<x, m>> \in G.uses /\ m.label = l => m = n
          BY <3>1, <4>1 DEF Dangling, Sharing
        <4>3. l \in Wants(G.held, x) /\ <<x, l>> \notin G.severed
          BY <3>1, <4>1 DEF Rewiring
        <4>4. <<x, l>> \notin P.severed
          <5> SUFFICES ASSUME <<x, l>> \in P.severed PROVE FALSE
            OBVIOUS
          <5>1. PICK m \in LibraryNodes : <<x, m>> \in G.uses /\ m.owner = r /\ m.label = l
            BY <1>0, <4>3
          <5>. QED BY <4>1, <4>2, <5>1
        <4>. QED BY <2>2, <1>2, <4>3, <4>4
      <3>2. ASSUME l \in Wants(P.held, x), <<x, l>> \notin P.severed
            PROVE  \E n \in LibraryNodes : <<x, n>> \in P.uses /\ n.label = l
        <4>1. l \in Wants(G.held, x) /\ <<x, l>> \notin G.severed
          BY <2>2, <3>2, <1>0, <1>2
        <4>2. PICK n \in LibraryNodes : <<x, n>> \in G.uses /\ n.label = l
          BY <4>1 DEF Rewiring
        <4>3. n.owner # r
          BY <2>2, <3>2, <4>2, <1>0
        <4>. QED BY <2>2, <4>2, <4>3, <1>1
      <3>. QED BY <3>1, <3>2
    <2>. QED BY <2>1, <2>2
  <1>6. Binding(P)
    <2> SUFFICES ASSUME NEW x \in Repos, NEW y \in Repos, <<x, y>> \in P.calls
                 PROVE  <<x, y>> \in CrossRepoCalls(P.held)
      BY <1>1 DEF Binding, Graphs
    <2>1. <<x, y>> \in CrossRepoCalls(G.held) /\ x # r /\ y # r
      BY <1>1 DEF Binding
    <2>2. Calls(G.held, x) /\ {d \in Repos \ {x} : Declares(G.held, d)} = {y}
      BY <2>1 DEF CrossRepoCalls
    <2>3. Calls(P.held, x)
      BY <1>1, <2>1, <2>2 DEF Calls, Holds, Graphs
    <2>4. \A d \in Repos : Declares(P.held, d) <=> d # r /\ Declares(G.held, d)
      BY <1>1 DEF Declares, Holds, Graphs
    <2>5. {d \in Repos \ {x} : Declares(P.held, d)} = {y}
      BY <2>1, <2>2, <2>4
    <2>. QED BY <2>3, <2>5 DEF CrossRepoCalls
  <1>. QED BY <1>1, <1>3, <1>4, <1>5, <1>6

(* An add leaves a sound graph, its calls linked anew.                     *)
LEMMA MergeKeeps ==
  ASSUME NEW G, Sound(G), NEW r \in Repos, NEW v \in Contents,
         NEW P, Pruned(P, G, r), NEW M, Merged(M, P, r, v)
  PROVE  Sound(M) /\ Linked(M)
  <1> DEFINE want == Shape[r][v].uses
  <1>1. Sound(P) /\ P \in Graphs
    BY PruneKeeps DEF Sound
  <1>2. /\ M \in Graphs
        /\ M.held = [P.held EXCEPT ![r] = v]
        /\ M.libs = P.libs \cup {LibraryNode(P, r, l) : l \in want}
        /\ M.calls = CrossRepoCalls(M.held)
        /\ M.severed = P.severed
    BY DEF Merged
  <1>3. /\ \A n \in P.libs : n.owner # r
        /\ \A x \in Repos, n \in LibraryNodes : <<x, n>> \in P.uses => x # r
        /\ \A l \in Libraries : <<r, l>> \notin P.severed
    BY DEF Pruned
  <1>4. want \subseteq Libraries /\ v # 0
    BY ShapeAssumption, BoundsAssumption DEF Contents
  <1>5. \A l \in want :
          /\ LibraryNode(P, r, l) \in LibraryNodes
          /\ LibraryNode(P, r, l).label = l
          /\ \/ LibraryNode(P, r, l) \in P.libs
             \/ /\ \A n \in P.libs : n.label # l
                /\ LibraryNode(P, r, l).owner \in {r, NoRepo}
    BY <1>1, <1>4, LibraryNodeIs
  <1>6. \A x \in Repos : Wants(M.held, x) = IF x = r THEN want ELSE Wants(P.held, x)
    BY <1>1, <1>2, <1>4 DEF Wants, Holds, Graphs
  <1>7. \A x \in Repos, n \in LibraryNodes :
          <<x, n>> \in M.uses <=> <<x, n>> \in P.uses
                                  \/ (x = r /\ \E l \in want : n = LibraryNode(P, r, l))
    BY DEF Merged
  <1> HIDE DEF want
  <1>8. ~Dangling(M)
    BY <1>1, <1>2, <1>7 DEF Dangling, Sound
  <1>9. Sharing(M)
    <2>1. \A n, m \in M.libs : n.label = m.label => n = m
      BY <1>1, <1>2, <1>5 DEF Sharing, Sound
    <2>2. \A n \in P.libs : n.owner # NoRepo => n.label \in Wants(M.held, n.owner)
      BY <1>1, <1>3, <1>6 DEF Sharing, Sound, Graphs, LibraryNodes
    <2>3. \A l \in want : LibraryNode(P, r, l).owner = r =>
                            l \in Wants(M.held, r)
      BY <1>6
    <2>4. \A n \in M.libs : n.owner # NoRepo => n.label \in Wants(M.held, n.owner)
      BY <1>2, <1>5, <2>2, <2>3
    <2>. QED BY <2>1, <2>4 DEF Sharing
  <1>10. Rewiring(M)
    <2> SUFFICES ASSUME NEW x \in Repos, NEW l \in Libraries
                 PROVE  (\E n \in LibraryNodes : <<x, n>> \in M.uses /\ n.label = l)
                          <=> l \in Wants(M.held, x) /\ <<x, l>> \notin M.severed
      BY DEF Rewiring
    <2>1. CASE x = r
      <3>1. (\E n \in LibraryNodes : <<x, n>> \in M.uses /\ n.label = l) <=> l \in want
        <4>1. ASSUME NEW n \in LibraryNodes, <<x, n>> \in M.uses, n.label = l PROVE l \in want
          BY <4>1, <2>1, <1>3, <1>5, <1>7
        <4>2. ASSUME l \in want
              PROVE  \E n \in LibraryNodes : <<x, n>> \in M.uses /\ n.label = l
          <5>1. LibraryNode(P, r, l) \in LibraryNodes /\ LibraryNode(P, r, l).label = l
            BY <4>2, <1>5
          <5>2. <<x, LibraryNode(P, r, l)>> \in M.uses
            BY <4>2, <5>1, <2>1, <1>7
          <5>. QED BY <5>1, <5>2
        <4>. QED BY <4>1, <4>2
      <3>. QED BY <2>1, <3>1, <1>2, <1>3, <1>6
    <2>2. CASE x # r
      <3>1. \A n \in LibraryNodes : <<x, n>> \in M.uses <=> <<x, n>> \in P.uses
        BY <2>2, <1>7
      <3>2. (\E n \in LibraryNodes : <<x, n>> \in P.uses /\ n.label = l)
              <=> l \in Wants(P.held, x) /\ <<x, l>> \notin P.severed
        BY <1>1 DEF Sound, Rewiring
      <3>. QED BY <2>2, <3>1, <3>2, <1>2, <1>6
    <2>. QED BY <2>1, <2>2
  <1>11. Binding(M) /\ Linked(M)
    BY <1>2 DEF Binding, Linked
  <1>. QED BY <1>2, <1>8, <1>9, <1>10, <1>11 DEF Sound

(* There is nothing to get wrong in an empty graph. *)
LEMMA EmptyIsSound == Sound(EmptyGraph) /\ Linked(EmptyGraph)
  <1>1. EmptyGraph \in Graphs
    BY BoundsAssumption DEF EmptyGraph, NoRows, Graphs
  <1>2. \A x \in Repos : ~Holds(NoRows, x)
    BY DEF Holds, NoRows
  <1>3. CrossRepoCalls(NoRows) = {} /\ \A x \in Repos : Wants(NoRows, x) = {}
    BY <1>2 DEF CrossRepoCalls, Calls, Wants
  <1>. QED BY <1>1, <1>3 DEF Sound, Linked, Dangling, Sharing, Rewiring, Binding, EmptyGraph

(* What a process writes is sound, and of its repository it has what the   *)
(* process read, or nothing.                                               *)
LEMMA ResultIs ==
  ASSUME IInv, NEW p \in Procs, pc[p] = "save"
  PROVE  /\ Sound(Result(p)) /\ Linked(Result(p))
         /\ Result(p).held =
              [mine[p].held EXCEPT ![repo[p]] = IF adding[p] THEN read[p] ELSE 0]
  <1>1. repo[p] \in Repos /\ Sound(mine[p]) /\ mine[p] \in Graphs
    BY DEF IInv, ProcInv, GraphInv, Sound
  <1> DEFINE P == Prune(mine[p], repo[p])
  <1>2. Pruned(P, mine[p], repo[p]) /\ P \in Graphs
        /\ P.held = [mine[p].held EXCEPT ![repo[p]] = 0]
    <2>1. Pruned(P, mine[p], repo[p])
      BY <1>1, PruneIs
    <2>. QED BY <2>1 DEF Pruned
  <1>3. Sound(P)
    BY <1>1, <1>2, PruneKeeps
  <1>4. CASE adding[p]
    <2> DEFINE M == Merge(mine[p], repo[p], read[p])
    <2>1. read[p] \in Contents
      BY <1>4 DEF IInv, ProcInv
    <2>2. Merged(M, P, repo[p], read[p])
      BY <1>1, <2>1, MergeIs
    <2>3. M.held = [P.held EXCEPT ![repo[p]] = read[p]]
      BY <2>2 DEF Merged
    <2>4. M.held = [mine[p].held EXCEPT ![repo[p]] = read[p]]
      BY <1>1, <1>2, <2>3 DEF Graphs
    <2> HIDE DEF P, M
    <2>5. Sound(M) /\ Linked(M)
      BY <1>1, <1>2, <2>1, <2>2, MergeKeeps
    <2>. QED BY <1>4, <2>4, <2>5 DEF Result, M
  <1>5. CASE ~adding[p]
    <2> DEFINE R == [P EXCEPT !.unlinked = TRUE]
    <2> HIDE DEF P
    <2>1. /\ R \in Graphs /\ R.unlinked = TRUE
          /\ R.held = P.held /\ R.libs = P.libs /\ R.uses = P.uses
          /\ R.calls = P.calls /\ R.severed = P.severed
      BY <1>2 DEF Graphs
    <2> HIDE DEF R
    <2>2. Sound(R)
      BY <1>3, <2>1 DEF Sound, Dangling, Sharing, Rewiring, Binding
    <2>3. Result(p) = R
      BY <1>5 DEF Result, R, P
    <2>. QED BY <1>2, <1>5, <2>1, <2>2, <2>3 DEF Linked
  <1>. QED BY <1>4, <1>5
-----------------------------------------------------------------------------
(* The steps. *)

(* No repository has anything yet. *)
LEMMA InitInv == Init => IInv
  <1> SUFFICES ASSUME Init PROVE IInv
    OBVIOUS
  <1>1. EmptyGraph \in Graphs /\ Sound(EmptyGraph) /\ Linked(EmptyGraph)
    BY EmptyIsSound DEF Sound
  <1>2. TypeOK
    <2>1. EmptyGraph.uses = {} /\ NoRows \in Manifests
      BY BoundsAssumption DEF EmptyGraph, NoRows, Manifests
    <2>2. 1 \in Contents
      BY BoundsAssumption DEF Contents
    <2>. QED BY <1>1, <2>1, <2>2, BoundsAssumption DEF Init, TypeOK, Location
  <1>3. RowsTellTheGraph
    BY DEF Init, RowsTellTheGraph, EmptyGraph
  <1>. QED BY <1>1, <1>2, <1>3 DEF Init, IInv, ProcInv, GraphInv, FlightInv

(* A process that ends leaves nothing in its own variables. *)
LEMMA ReturnKeeps ==
  ASSUME IInv, NEW p \in Procs, Return(p), UNCHANGED graph,
         src' \in [Repos -> Contents], row' \in Manifests, edits' \in 0..MaxEdits,
         ops' \in 0..MaxOps, torn' \in SUBSET Repos, raced' \in SUBSET Repos, raced \subseteq raced'
  PROVE  TypeOK' /\ ProcInv' /\ GraphInv' /\ FlightInv'
  <1> USE DEF IInv, Return, Goto
  <1>1. EmptyGraph \in Graphs /\ Sound(EmptyGraph) /\ Linked(EmptyGraph)
    BY EmptyIsSound DEF Sound
  <1>2. NoRows \in Manifests
    BY BoundsAssumption DEF NoRows, Manifests
  <1>3. TypeOK'
    BY <1>1, <1>2, BoundsAssumption DEF TypeOK, Location
  <1>4. ProcInv'
    BY DEF ProcInv, TypeOK
  <1>5. GraphInv'
    BY <1>1 DEF GraphInv, TypeOK
  <1>6. FlightInv'
    BY DEF FlightInv, TypeOK
  <1>. QED BY <1>3, <1>4, <1>5, <1>6

(* The sources are not the invariant's business, but what is read is one   *)
(* of the contents.                                                        *)
LEMMA RebuildKeeps == ASSUME IInv, NEW r \in Repos, NEW v \in Contents, Rebuild(r, v) PROVE IInv'
  BY BoundsAssumption
  DEF IInv, Rebuild, local, TypeOK, ProcInv, GraphInv, FlightInv, RowsTellTheGraph, InFlight

(* An operation begins away from the graph. *)
LEMMA BeginKeeps ==
  ASSUME IInv, NEW p \in Procs, NEW r \in Repos, NEW add \in BOOLEAN,
         NEW next \in {"hash", "load"}, add <=> next = "hash", Begin(p, r, add, next)
  PROVE  IInv'
  <1> USE BoundsAssumption DEF IInv, Begin, Goto
  <1>1. TypeOK'
    BY DEF TypeOK, Location
  <1>2. ProcInv'
    BY DEF ProcInv, TypeOK
  <1>3. GraphInv' /\ FlightInv'
    BY DEF GraphInv, FlightInv, TypeOK
  <1>4. RowsTellTheGraph'
    BY DEF RowsTellTheGraph, InFlight, TypeOK
  <1>. QED BY <1>1, <1>2, <1>3, <1>4

(* Nothing is in flight before the graph is written. *)
LEMMA SkipKeeps == ASSUME IInv, NEW p \in Procs, Skip(p) PROVE IInv'
  <1>1. TypeOK' /\ ProcInv' /\ GraphInv' /\ FlightInv'
    BY ReturnKeeps DEF IInv, Skip, TypeOK
  <1>2. RowsTellTheGraph'
    BY DEF IInv, Skip, Return, Goto, RowsTellTheGraph, InFlight, TypeOK
  <1>. QED BY <1>1, <1>2 DEF IInv

(* What is read of the disk stays with the process. *)
LEMMA InputKeeps ==
  ASSUME IInv, NEW p \in Procs, Hash(p) \/ Read(p) \/ Load(p)
  PROVE  IInv'
  <1> USE BoundsAssumption DEF IInv, Hash, Read, Load, Goto
  <1>1. repo[p] \in Repos /\ src[repo[p]] \in Contents /\ Contents \subseteq 0..MaxContents
    BY DEF ProcInv, TypeOK, Contents
  <1>2. TypeOK'
    <2>1. /\ hash' \in [Procs -> 0..MaxContents] /\ read' \in [Procs -> 0..MaxContents]
          /\ mine' \in [Procs -> Graphs] /\ rows' \in [Procs -> Manifests]
      BY <1>1 DEF TypeOK, local
    <2>2. pc' \in [Procs -> Location]
      BY DEF TypeOK, Location
    <2>. QED BY <2>1, <2>2 DEF TypeOK, local
  <1>3. ProcInv'
    BY <1>1 DEF ProcInv, TypeOK
  <1>4. GraphInv' /\ FlightInv'
    BY DEF GraphInv, FlightInv, TypeOK
  <1>5. RowsTellTheGraph'
    BY DEF RowsTellTheGraph, InFlight, TypeOK
  <1>. QED BY <1>2, <1>3, <1>4, <1>5

(* The written graph differs from the old one in the process's repository, *)
(* which is in flight now, and in others, which are `raced`.               *)
LEMMA SaveKeeps == ASSUME IInv, NEW p \in Procs, Save(p) PROVE IInv'
  <1> USE DEF Save, Goto, local
  <1>1. /\ Sound(graph') /\ Linked(graph')
        /\ graph'.held = [mine[p].held EXCEPT ![repo[p]] = IF adding[p] THEN read[p] ELSE 0]
    BY ResultIs
  <1>2. repo[p] \in Repos /\ mine[p].held \in [Repos -> 0..MaxContents]
    BY DEF IInv, ProcInv, TypeOK, Graphs
  <1>3. graph' \in Graphs /\ graph'.uses \subseteq Repos \X graph'.libs
    BY <1>1 DEF Sound, Dangling, Graphs
  <1>4. TypeOK'
    <2>1. raced' \in SUBSET Repos
      BY <1>2 DEF IInv, TypeOK
    <2>. QED BY <1>3, <2>1 DEF IInv, TypeOK, Location
  <1>5. ProcInv' /\ GraphInv'
    BY <1>1 DEF IInv, ProcInv, GraphInv, TypeOK
  <1>6. /\ raced \subseteq raced'
        /\ \A r \in Repos \ raced' : r # repo[p] => graph'.held[r] = graph.held[r]
        /\ graph'.held[repo[p]] = IF adding[p] THEN read[p] ELSE 0
        /\ \A q \in Procs \ {p} : InFlight(q, repo[p]) => repo[p] \in raced'
    BY <1>1, <1>2
  <1>7. FlightInv'
    <2> SUFFICES ASSUME NEW q \in Procs, pc'[q] \in {"sync", "record"}, repo[q] \notin raced'
                 PROVE  graph'.held[repo[q]] = IF adding[q] THEN read[q] ELSE 0
      BY DEF FlightInv
    <2>1. CASE q = p
      BY <2>1, <1>6
    <2>2. CASE q # p
      <3>1. pc[q] \in {"sync", "record"} /\ repo[q] \notin raced /\ repo[q] \in Repos
        BY <2>2, <1>6 DEF IInv, TypeOK, ProcInv
      <3>2. repo[q] # repo[p]
        BY <2>2, <3>1, <1>6 DEF InFlight
      <3>. QED BY <3>1, <3>2, <1>6 DEF IInv, FlightInv
    <2>. QED BY <2>1, <2>2
  <1>8. RowsTellTheGraph'
    <2> SUFFICES ASSUME NEW r \in Repos, r \notin torn \cup raced',
                        \A q \in Procs : ~InFlight(q, r)'
                 PROVE  row[r] = graph'.held[r]
      BY DEF RowsTellTheGraph
    <2>1. r # repo[p]
      BY DEF IInv, InFlight, TypeOK
    <2>2. \A q \in Procs : ~InFlight(q, r)
      BY DEF IInv, InFlight, TypeOK
    <2>. QED BY <2>1, <2>2, <1>6 DEF IInv, RowsTellTheGraph
  <1>. QED BY <1>4, <1>5, <1>7, <1>8 DEF IInv

(* The database changes neither file. *)
LEMMA SyncKeeps == ASSUME IInv, NEW p \in Procs, Sync(p) PROVE IInv'
  <1> USE DEF IInv, Sync, Goto, local
  <1>1. TypeOK'
    BY DEF TypeOK, Location
  <1>2. ProcInv' /\ GraphInv' /\ FlightInv'
    BY DEF ProcInv, GraphInv, FlightInv, TypeOK
  <1>3. RowsTellTheGraph'
    BY DEF RowsTellTheGraph, InFlight, TypeOK
  <1>. QED BY <1>1, <1>2, <1>3

(* The row is of the contents hashed, the graph of those read; other rows  *)
(* are as they were, or `raced`.                                           *)
LEMMA RecordKeeps == ASSUME IInv, NEW p \in Procs, Record(p) PROVE IInv'
  <1> USE BoundsAssumption DEF Record
  <1>1. /\ repo[p] \in Repos /\ rows[p] \in Manifests
        /\ hash[p] \in 0..MaxContents /\ pc[p] = "record"
    BY DEF IInv, ProcInv, TypeOK
  <1>2. /\ row' \in Manifests /\ torn' \in SUBSET Repos /\ raced' \in SUBSET Repos
        /\ raced \subseteq raced'
    BY <1>1 DEF IInv, TypeOK, Manifests
  <1>3. TypeOK' /\ ProcInv' /\ GraphInv' /\ FlightInv'
    BY <1>2, ReturnKeeps DEF IInv, TypeOK
  <1>4. RowsTellTheGraph'
    <2> SUFFICES ASSUME NEW r \in Repos, r \notin torn' \cup raced',
                        \A q \in Procs : ~InFlight(q, r)'
                 PROVE  row'[r] = graph.held[r]
      BY DEF RowsTellTheGraph
    <2>1. CASE r = repo[p]
      <3>1. hash[p] = read[p] /\ r \notin raced
        BY <2>1, <1>2
      <3>2. graph.held[r] = IF adding[p] THEN read[p] ELSE 0
        BY <2>1, <3>1, <1>1 DEF IInv, FlightInv
      <3>. QED BY <2>1, <3>1, <3>2, <1>1 DEF Manifests
    <2>2. CASE r # repo[p]
      <3>1. row'[r] = row[r] /\ r \notin torn \cup raced
        BY <2>2, <1>1, <1>2 DEF Manifests
      <3>2. \A q \in Procs : ~InFlight(q, r)
        BY <2>2 DEF IInv, Return, Goto, InFlight, TypeOK
      <3>. QED BY <3>1, <3>2 DEF IInv, RowsTellTheGraph
    <2>. QED BY <2>1, <2>2
  <1>. QED BY <1>3, <1>4 DEF IInv

(* What was in flight is `torn`. *)
LEMMA AbortKeeps == ASSUME IInv, NEW p \in Procs, Abort(p) PROVE IInv'
  <1>1. TypeOK' /\ ProcInv' /\ GraphInv' /\ FlightInv'
    <2>1. torn' \in SUBSET Repos
      BY DEF IInv, Abort, TypeOK, ProcInv
    <2>. QED BY <2>1, ReturnKeeps DEF IInv, Abort, TypeOK
  <1>2. RowsTellTheGraph'
    BY DEF IInv, Abort, Return, Goto, RowsTellTheGraph, InFlight, TypeOK
  <1>. QED BY <1>1, <1>2 DEF IInv

(* Every step keeps the invariant. *)
LEMMA NextInv == IInv /\ [Next]_vars => IInv'
  <1> SUFFICES ASSUME IInv, [Next]_vars PROVE IInv'
    OBVIOUS
  <1>1. CASE Next
    <2>1. ASSUME NEW p \in Procs, NEW r \in Repos, Add(p, r) \/ Remove(p, r) PROVE IInv'
      BY <2>1, BeginKeeps DEF Add, Remove
    <2>. QED
      BY <1>1, <2>1, RebuildKeeps, SkipKeeps, InputKeeps, SaveKeeps, SyncKeeps,
         RecordKeeps, AbortKeeps DEF Next
  <1>2. CASE UNCHANGED vars
    BY <1>2 DEF vars, local, IInv, TypeOK, ProcInv, GraphInv, FlightInv, RowsTellTheGraph, InFlight
  <1>. QED BY <1>1, <1>2

(* The inductive invariant holds throughout; the theorems below are parts  *)
(* of it.                                                                  *)
THEOREM Invariance == Spec => []IInv
  BY InitInv, NextInv, PTL DEF Spec

(* Every variable keeps its type, and no edge of the global graph dangles. *)
THEOREM TypeCorrect == Spec => []TypeOK
  <1>1. IInv => TypeOK
    BY DEF IInv
  <1>. QED BY <1>1, Invariance, PTL

(* The manifest's row is of what the graph has, but for operations that    *)
(* ended half way, hashed and read different contents, or raced.           *)
THEOREM RowsTellTheGraphHolds == Spec => []RowsTellTheGraph
  <1>1. IInv => RowsTellTheGraph
    BY DEF IInv
  <1>. QED BY <1>1, Invariance, PTL

(* Whatever is added, removed and overwritten, a library has one node, and *)
(* an owned one has a user in its repository.                              *)
THEOREM LibrariesAreSharedHolds == Spec => []LibrariesAreShared
  <1>1. IInv => LibrariesAreShared
    BY DEF IInv, GraphInv, Sound, Sharing, LibrariesAreShared
  <1>. QED BY <1>1, Invariance, PTL

(* Every use of a library is an edge to its one node, but the severed.     *)
THEOREM UsesAreRewiredHolds == Spec => []UsesAreRewired
  <1>1. ASSUME IInv PROVE UsesAreRewired
    <2>1. graph \in Graphs /\ Rewiring(graph)
      BY <1>1 DEF IInv, GraphInv, Sound
    <2>2. \A x \in Repos : Wants(graph.held, x) \subseteq Libraries
      <3> SUFFICES ASSUME NEW x \in Repos, Holds(graph.held, x)
                   PROVE  Shape[x][graph.held[x]].uses \subseteq Libraries
        BY DEF Wants
      <3>1. graph.held[x] \in Contents
        BY <2>1, BoundsAssumption DEF Holds, Graphs, Contents
      <3>. QED BY <3>1, ShapeAssumption
    <2>3. ASSUME NEW e \in graph.uses
          PROVE  <<e[1], e[2].label>> \in {d \in Repos \X Libraries : d[2] \in Wants(graph.held, d[1])}
                                            \ graph.severed
      <3>1. e[1] \in Repos /\ e[2] \in LibraryNodes /\ e = <<e[1], e[2]>>
        BY <2>1 DEF Graphs
      <3>2. e[2].label \in Libraries
        BY <3>1 DEF LibraryNodes
      <3>3. <<e[1], e[2]>> \in graph.uses
        BY <3>1
      <3>4. e[2].label \in Wants(graph.held, e[1]) /\ <<e[1], e[2].label>> \notin graph.severed
        BY <2>1, <3>1, <3>2, <3>3 DEF Rewiring
      <3>. QED BY <3>1, <3>2, <3>4
    <2>4. ASSUME NEW d \in Repos \X Libraries, d[2] \in Wants(graph.held, d[1]), d \notin graph.severed
          PROVE  d \in {<<e[1], e[2].label>> : e \in graph.uses}
      <3>1. d = <<d[1], d[2]>> /\ d[1] \in Repos /\ d[2] \in Libraries
        OBVIOUS
      <3>2. PICK n \in LibraryNodes : <<d[1], n>> \in graph.uses /\ n.label = d[2]
        <4>1. d[2] \in Wants(graph.held, d[1]) /\ <<d[1], d[2]>> \notin graph.severed
          BY <2>4, <3>1
        <4>. QED BY <2>1, <3>1, <4>1 DEF Rewiring
      <3>. QED BY <3>1, <3>2
    <2>. QED BY <2>3, <2>4 DEF UsesAreRewired
  <1>. QED BY <1>1, Invariance, PTL

(* The calls across repositories are those of one merge of what is held:   *)
(* all of them after an add, none but them after a removal.                *)
THEOREM CallsAgreeWithOneMergeHolds == Spec => []CallsAgreeWithOneMerge
  <1>1. IInv => CallsAgreeWithOneMerge
    BY DEF IInv, GraphInv, Sound, Binding, Linked, CallsAgreeWithOneMerge
  <1>. QED BY <1>1, Invariance, PTL
=============================================================================
