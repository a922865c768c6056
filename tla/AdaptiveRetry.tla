--------------------------- MODULE AdaptiveRetry ----------------------------
(***************************************************************************)
(* llm.py _extract_with_adaptive_retry: one chunk's extraction.  A request *)
(* is answered completely, cut off, without content (hollow), refused as   *)
(* too large, not in time, or with another error.  Outcomes(chunk) is the  *)
(* set of the results the recursion can come to for a sequence of units,   *)
(* over all the answers the model and its server can give:                 *)
(*   raised   the error that ends the chunk                                *)
(*   read     pieces a complete answer was about                           *)
(*   nodes    pieces the result has nodes of                               *)
(*   partial  files marked truncated (_partial, _partial_files)            *)
(*   lost     files refused or timed out for good (_context_lost_files)    *)
(***************************************************************************)
EXTENDS SemanticUnits, Functions

CONSTANTS Files,
          MaxDepth,  \* max_depth
          Halvings,  \* times the output budget can be halved (_MIN_OUTPUT_TOKENS)
          MayOmit    \* complete answers leave files out

ASSUME RetryAssumption ==
  MaxDepth \in Nat /\ Halvings \in Nat /\ MayOmit \in BOOLEAN

Slices == [file : Files, from : Nat, to : Nat]

(* A chunk is sent with an output budget.                                  *)
Requests == [chunk : Seq(Slices), budget : 0..Halvings]

TextOf(chunk)  == Pieces(Range(chunk))
NamesOf(chunk) == FilesOf(Range(chunk))

Outcome(nodes, read, partial, lost) ==
  [raised |-> FALSE, read |-> read, nodes |-> nodes, partial |-> partial,
   lost |-> lost]

Complete(chunk) ==
  {Outcome({p \in TextOf(chunk) : p[1] \notin omitted}, TextOf(chunk), {}, {}) :
     omitted \in IF MayOmit THEN SUBSET NamesOf(chunk) ELSE {{}}}

Error == {[Outcome({}, {}, {}, {}) EXCEPT !.raised = TRUE]}

(* Mutant of Hollow: an empty answer has no item to carry a marker, and    *)
(* its files are not named (#1950).                                        *)
HollowUnmarked(chunk) == {Outcome({}, {}, {}, {})}
Hollow(chunk) == {Outcome({}, {}, NamesOf(chunk), {})}

(* A truncated answer kept for want of a smaller chunk: what there is of   *)
(* it has been parsed, or nothing.                                         *)
Truncated(chunk) ==
  {Outcome(nodes, {}, NamesOf(chunk), {}) : nodes \in {{}, TextOf(chunk)}}

ContextLost(chunk) == {Outcome({}, {}, {}, NamesOf(chunk))}

(* The halves of a chunk, of a slice, or of a file alone in its chunk,     *)
(* while there are levels left.                                            *)
Splits(chunk, left) ==
  left > 0 /\ (Len(chunk) > 1 \/ (Len(chunk) = 1 /\ Bisectable(chunk[1])))

Halves(chunk) ==
  IF Len(chunk) > 1
  THEN LET mid == Len(chunk) \div 2
       IN  <<SubSeq(chunk, 1, mid), SubSeq(chunk, mid + 1, Len(chunk))>>
  ELSE LET halves == Bisect(chunk[1]) IN <<<<halves[1]>>, <<halves[2]>>>>

(* The first half's results and the second's; an error in either is the    *)
(* chunk's, and what the other half has read goes with it.                 *)
Both(l, r) ==
  IF r.raised THEN r
  ELSE Outcome(l.nodes \cup r.nodes, l.read \cup r.read,
              l.partial \cup r.partial, l.lost \cup r.lost)

MergeTwo(lefts, rights) ==
  {l \in lefts : l.raised} \cup
  {Both(l, r) : l \in {l \in lefts : ~l.raised}, r \in rights}

(* What the halves come to, given what requests one level down come to.    *)
Split(deeper, chunk, budget) ==
  MergeTwo(deeper[[chunk |-> Halves(chunk)[1], budget |-> budget]],
           deeper[[chunk |-> Halves(chunk)[2], budget |-> budget]])

Smaller(budget) == IF budget > 0 THEN budget - 1 ELSE 0

OnLength(deeper, left, q) ==
  IF Splits(q.chunk, left) THEN Split(deeper, q.chunk, q.budget) ELSE Truncated(q.chunk)

OnTimeout(deeper, left, q) ==
  IF Splits(q.chunk, left) THEN Split(deeper, q.chunk, q.budget) ELSE ContextLost(q.chunk)

(* A unit that cannot be cut is asked for with a smaller budget.           *)
OnContext(deeper, left, q) ==
  IF Splits(q.chunk, left) THEN Split(deeper, q.chunk, Smaller(q.budget))
  ELSE IF Len(q.chunk) = 1 /\ q.budget > 0 /\ left > 0
  THEN deeper[[q EXCEPT !.budget = Smaller(@)]]
  ELSE ContextLost(q.chunk)

Results(deeper, left, q) ==
  Complete(q.chunk) \cup Error \cup Hollow(q.chunk) \cup OnLength(deeper, left, q)
    \cup OnTimeout(deeper, left, q) \cup OnContext(deeper, left, q)

(* By the levels of retry that are left, max_depth - _depth.               *)
Extract[left \in 0..MaxDepth] ==
  [q \in Requests |-> Results(Extract[left - 1], left, q)]

Outcomes(chunk) == Extract[MaxDepth][[chunk |-> chunk, budget |-> Halvings]]
=============================================================================
