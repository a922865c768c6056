-------------------------- MODULE RebuildPassProofs --------------------------
(***************************************************************************)
(* Theorems about RebuildPass for any files, contents and options.         *)
(*   - HtmlInv: between MarkHtml and Replace the marker is set.            *)
(*   - CandidateInv, ScanInv, FailedInv: what the locals of a pass say     *)
(*     about the graph and the disk while the files go on changing.        *)
(*   - VouchInv: manifest.json vouches for graph.json, for the files       *)
(*     outside `slipped`, whenever a stamp of this graph.json exists or is *)
(*     about to be written.  This is what the gate relies on.              *)
(***************************************************************************)
EXTENDS RebuildPass, TLAPS

HtmlInv == /\ HtmlNeverLooksCurrent
           /\ pc = "replace" => marker /\ ~opts.raw

CandidateInv ==
  /\ pc \in {"idle", "extract"} => covered = {} /\ failed = {}
  /\ pc \in {"compare", "replace"} =>
        \A c \in Paths : /\ c \in failed => candidate[c] = NoShape
                         /\ c \notin covered \cup failed => candidate[c] = graph[c]

(* A file detect() did not find is gone, or was written since. *)
ScanInv == pc # "idle" => \A c \in Paths \ (scanned \cup dirty) : disk[c] = Absent

FailedInv ==
  /\ failed \subseteq dirty \cap scanned
  /\ pc \in {"manifest", "html", "publish", "stamp"} =>
        \A c \in failed : graph[c] = NoShape

(* The rows of manifest.json against graph.json, for a scan of S. *)
Vouches(S) ==
  \A c \in Paths \ slipped :
    /\ manifest[c] \in Contents => graph[c] = Shape[manifest[c]]
    /\ manifest[c] = NoRow /\ c \notin S => graph[c] = NoShape

VouchInv == /\ stamp # NoStamp /\ stamp.fresh => Vouches(stamp.key.scan)
            /\ pc \in {"html", "publish", "stamp"} => Vouches(scanned)

IInv == TypeOK /\ HtmlInv /\ CleanFilesAreInGraph /\ CandidateInv /\ ScanInv
               /\ FailedInv /\ VouchInv

-----------------------------------------------------------------------------
(* Nothing has been built. *)
LEMMA InitIInv == Init => IInv
<1> SUFFICES ASSUME Init PROVE IInv
  OBVIOUS
<1> USE DEF Init
<1>1. TypeOK
  <2>1. edits \in 0..MaxEdits
    BY MaxEditsAssumption
  <2>2. QED
    BY <2>1 DEF TypeOK, Location, NoNodes
<1>2. HtmlInv /\ CleanFilesAreInGraph /\ CandidateInv /\ ScanInv /\ FailedInv /\ VouchInv
  BY DEF HtmlInv, HtmlNeverLooksCurrent, CleanFilesAreInGraph, CandidateInv, ScanInv,
         FailedInv, VouchInv
<1>3. QED
  BY <1>1, <1>2 DEF IInv

(* An edited file is dirty from then on. *)
LEMMA EditIInv ==
  ASSUME IInv, NEW c \in Paths, NEW x \in Contents \cup {Absent}, Edit(c, x)
  PROVE  IInv'
<1> USE DEF IInv, Edit, world, outputs, pass
<1>1. TypeOK'
  <2>1. edits' \in 0..MaxEdits
    BY MaxEditsAssumption DEF TypeOK
  <2>2. QED
    BY <2>1 DEF TypeOK
<1>2. HtmlInv'
  BY DEF HtmlInv, HtmlNeverLooksCurrent
<1>3. CleanFilesAreInGraph'
  BY DEF TypeOK, CleanFilesAreInGraph, CandidateInv, FailedInv, ShapeOf
<1>4. CandidateInv'
  BY DEF TypeOK, CandidateInv
<1>5. ScanInv'
  BY DEF TypeOK, ScanInv
<1>6. FailedInv'
  BY DEF TypeOK, FailedInv, CandidateInv
<1>7. VouchInv'
  BY DEF TypeOK, VouchInv, Vouches
<1>8. QED
  BY <1>1, <1>2, <1>3, <1>4, <1>5, <1>6, <1>7

(* Passes that do nothing. *)
LEMMA IdleIInv ==
  ASSUME IInv, (\E o \in Options : Skip(o)) \/ NothingToDo
  PROVE  IInv'
<1> USE DEF IInv, Skip, NothingToDo, world, outputs, pass
<1>1. TypeOK'
  BY DEF TypeOK, Location, NoNodes
<1>2. HtmlInv'
  BY DEF HtmlInv, HtmlNeverLooksCurrent
<1>3. CleanFilesAreInGraph'
  BY DEF TypeOK, CleanFilesAreInGraph, CandidateInv, FailedInv, ShapeOf
<1>4. CandidateInv'
  BY DEF TypeOK, CandidateInv
<1>5. ScanInv'
  BY DEF TypeOK, ScanInv
<1>6. FailedInv'
  BY DEF TypeOK, FailedInv, CandidateInv
<1>7. VouchInv'
  BY DEF TypeOK, VouchInv, Vouches
<1>8. QED
  BY <1>1, <1>2, <1>3, <1>4, <1>5, <1>6, <1>7

(* The scan finds what is present. *)
LEMMA BeginIInv ==
  ASSUME IInv, NEW o \in Options, NEW f \in BOOLEAN, NEW S \in SUBSET Paths, Begin(o, f, S)
  PROVE  IInv'
<1> USE DEF IInv, Begin, Present, world, outputs, pass
<1>1. TypeOK'
  BY DEF TypeOK, Location, NoNodes
<1>2. HtmlInv'
  BY DEF HtmlInv, HtmlNeverLooksCurrent
<1>3. CleanFilesAreInGraph'
  BY DEF TypeOK, CleanFilesAreInGraph, CandidateInv, FailedInv, ShapeOf
<1>4. CandidateInv'
  BY DEF TypeOK, CandidateInv
<1>5. ScanInv'
  BY DEF TypeOK, ScanInv
<1>6. FailedInv'
  BY DEF TypeOK, FailedInv, CandidateInv
<1>7. VouchInv'
  BY DEF TypeOK, VouchInv, Vouches
<1>8. QED
  BY <1>1, <1>2, <1>3, <1>4, <1>5, <1>6, <1>7

(* Extracted files are as on disk, the other files as they were. *)
LEMMA ExtractIInv ==
  ASSUME IInv, Extract
  PROVE  IInv'
<1> USE DEF IInv, Extract, Merge, Present, world, outputs, pass
<1>1. TypeOK'
  <2>1. candidate' \in [Paths -> Shapes \cup {NoShape}]
    BY ShapeAssumption DEF TypeOK
  <2>2. covered' \in SUBSET Paths /\ failed' \in SUBSET Paths /\ dirty' \in SUBSET Paths
    BY DEF TypeOK
  <2>3. QED
    BY <2>1, <2>2 DEF TypeOK, Location
<1>2. HtmlInv'
  BY DEF HtmlInv, HtmlNeverLooksCurrent
<1>3. CleanFilesAreInGraph'
  BY DEF TypeOK, CleanFilesAreInGraph, CandidateInv, FailedInv, ShapeOf
<1>4. CandidateInv'
  BY DEF TypeOK, CandidateInv
<1>5. ScanInv'
  BY DEF TypeOK, ScanInv
<1>6. FailedInv'
  BY DEF TypeOK, FailedInv, CandidateInv
<1>7. VouchInv'
  BY DEF TypeOK, VouchInv, Vouches
<1>8. QED
  BY <1>1, <1>2, <1>3, <1>4, <1>5, <1>6, <1>7

(* The same topology: the candidate is the graph. *)
LEMMA UntouchedIInv ==
  ASSUME IInv, Untouched
  PROVE  IInv'
<1> USE DEF IInv, Untouched, SameGraph, world, outputs, pass
<1>1. TypeOK'
  BY DEF TypeOK, Location, NoNodes
<1>2. HtmlInv'
  BY DEF HtmlInv, HtmlNeverLooksCurrent
<1>3. CleanFilesAreInGraph'
  BY DEF TypeOK, CleanFilesAreInGraph, CandidateInv, FailedInv, ShapeOf
<1>4. CandidateInv'
  BY DEF TypeOK, CandidateInv
<1>5. ScanInv'
  BY DEF TypeOK, ScanInv
<1>6. FailedInv'
  BY DEF TypeOK, FailedInv, CandidateInv
<1>7. VouchInv'
  BY DEF TypeOK, VouchInv, Vouches
<1>8. QED
  BY <1>1, <1>2, <1>3, <1>4, <1>5, <1>6, <1>7

(* The marker is set before graph.json is replaced. *)
LEMMA MarkHtmlIInv ==
  ASSUME IInv, MarkHtml
  PROVE  IInv'
<1> USE DEF IInv, MarkHtml, world, outputs, pass
<1>1. TypeOK'
  BY DEF TypeOK, Location, NoNodes
<1>2. HtmlInv'
  BY DEF HtmlInv, HtmlNeverLooksCurrent
<1>3. CleanFilesAreInGraph'
  BY DEF TypeOK, CleanFilesAreInGraph, CandidateInv, FailedInv, ShapeOf
<1>4. CandidateInv'
  BY DEF TypeOK, CandidateInv
<1>5. ScanInv'
  BY DEF TypeOK, ScanInv
<1>6. FailedInv'
  BY DEF TypeOK, FailedInv, CandidateInv
<1>7. VouchInv'
  BY DEF TypeOK, VouchInv, Vouches
<1>8. QED
  BY <1>1, <1>2, <1>3, <1>4, <1>5, <1>6, <1>7

(* The candidate becomes the graph; every stamp is of an older one. *)
LEMMA ReplaceIInv ==
  ASSUME IInv, Replace
  PROVE  IInv'
<1> USE DEF IInv, Replace, SameGraph, world, outputs, pass
<1>1. TypeOK'
  <2>1. stamp' \in Stamps \cup {NoStamp}
    BY DEF TypeOK, Stamps
  <2>2. html' \in {"none", "old", "current"} /\ layout' \in {"none", "raw", "clustered"}
    BY DEF TypeOK
  <2>3. QED
    BY <2>1, <2>2 DEF TypeOK, Location
<1>2. HtmlInv'
  BY DEF HtmlInv, HtmlNeverLooksCurrent
<1>3. CleanFilesAreInGraph'
  BY DEF TypeOK, CleanFilesAreInGraph, CandidateInv, FailedInv, ShapeOf
<1>4. CandidateInv'
  BY DEF TypeOK, CandidateInv
<1>5. ScanInv'
  BY DEF TypeOK, ScanInv
<1>6. FailedInv'
  BY DEF TypeOK, FailedInv, CandidateInv
<1>7. VouchInv'
  BY DEF TypeOK, VouchInv, Vouches
<1>8. QED
  BY <1>1, <1>2, <1>3, <1>4, <1>5, <1>6, <1>7

(* Rows are as on disk, except those of files that slipped. *)
LEMMA SaveManifestIInv ==
  ASSUME IInv, SaveManifest
  PROVE  IInv'
<1> USE DEF IInv, SaveManifest, Present, world, outputs, pass
<1>1. TypeOK'
  BY DEF TypeOK, Location, NoNodes
<1>2. HtmlInv'
  BY DEF HtmlInv, HtmlNeverLooksCurrent
<1>3. CleanFilesAreInGraph'
  BY DEF TypeOK, CleanFilesAreInGraph, CandidateInv, FailedInv, ShapeOf
<1>4. CandidateInv'
  BY DEF TypeOK, CandidateInv
<1>5. ScanInv'
  BY DEF TypeOK, ScanInv
<1>6. FailedInv'
  BY DEF TypeOK, FailedInv, CandidateInv
(* Every row the save leaves speaks of this graph.json. *)
<1>7. VouchInv'
  <2>1. ASSUME NEW c \in Paths \ slipped', manifest'[c] \in Contents
        PROVE  graph'[c] = Shape[manifest'[c]]
    <3>1. c \in (scanned \cap Present) \ failed /\ manifest'[c] = disk[c]
      BY <2>1, AbsentAssumption DEF TypeOK
    <3>2. c \notin dirty
      BY <2>1, <3>1
    <3>3. graph[c] = ShapeOf(disk[c])
      BY <3>2 DEF CleanFilesAreInGraph
    <3>4. QED
      BY <3>1, <3>3 DEF ShapeOf
  <2>2. ASSUME NEW c \in Paths \ slipped', manifest'[c] = NoRow
        PROVE  graph'[c] = NoShape
    <3>1. CASE c \in failed
      BY <3>1 DEF FailedInv
    <3>2. CASE c \notin failed
      <4>1. c \notin dirty
        BY <2>2, <3>2
      <4>2. c \notin scanned \cap Present
        BY <2>2, <3>2, AbsentAssumption DEF TypeOK
      <4>3. disk[c] = Absent
        BY <4>1, <4>2 DEF ScanInv
      <4>4. QED
        BY <4>1, <4>3 DEF CleanFilesAreInGraph, ShapeOf
    <3>3. QED
      BY <3>1, <3>2
  <2>3. \A S \in SUBSET Paths : Vouches(S)'
    BY <2>1, <2>2 DEF Vouches
  <2>4. stamp # NoStamp => stamp.key.scan \in SUBSET Paths
    BY DEF TypeOK, Stamps
  <2>5. QED
    BY <2>3, <2>4 DEF VouchInv, Vouches, TypeOK
<1>8. QED
  BY <1>1, <1>2, <1>3, <1>4, <1>5, <1>6, <1>7

(* Old rows stay, so every one of them may have slipped. *)
LEMMA SaveFailsIInv ==
  ASSUME IInv, SaveFails
  PROVE  IInv'
<1> USE DEF IInv, SaveFails, Return, world, outputs, pass
<1>1. TypeOK'
  BY DEF TypeOK, Location, NoNodes
<1>2. HtmlInv'
  BY DEF HtmlInv, HtmlNeverLooksCurrent
<1>3. CleanFilesAreInGraph'
  BY DEF TypeOK, CleanFilesAreInGraph, CandidateInv, FailedInv, ShapeOf
<1>4. CandidateInv'
  BY DEF TypeOK, CandidateInv
<1>5. ScanInv'
  BY DEF TypeOK, ScanInv
<1>6. FailedInv'
  BY DEF TypeOK, FailedInv, CandidateInv
(* No row is left to vouch for anything outside `slipped`. *)
<1>7. VouchInv'
  <2>1. stamp # NoStamp /\ stamp.fresh => Vouches(stamp.key.scan)'
    BY DEF VouchInv, Vouches
  <2>2. ASSUME NEW c \in Paths \ slipped'
        PROVE  /\ manifest'[c] = NoRow
               /\ c \notin scanned => graph'[c] = NoShape
    <3>1. manifest[c] = NoRow
      BY <2>2
    <3>2. ASSUME c \notin scanned
          PROVE  graph[c] = NoShape
      <4>1. c \notin dirty
        BY <2>2, <3>2 DEF FailedInv
      <4>2. disk[c] = Absent
        BY <3>2, <4>1 DEF ScanInv
      <4>3. QED
        BY <4>1, <4>2 DEF CleanFilesAreInGraph, ShapeOf
    <3>3. QED
      BY <3>1, <3>2
  <2>3. ~opts.raw => Vouches(scanned)'
    BY <2>2, AbsentAssumption DEF Vouches
  <2>4. QED
    BY <2>1, <2>3 DEF VouchInv, Vouches
<1>8. QED
  BY <1>1, <1>2, <1>3, <1>4, <1>5, <1>6, <1>7

(* The marker goes only when the html is current or gone. *)
LEMMA ReconcileHtmlIInv ==
  ASSUME IInv, ReconcileHtml
  PROVE  IInv'
<1> USE DEF IInv, ReconcileHtml, world, outputs, pass
<1>1. TypeOK'
  BY DEF TypeOK, Location, NoNodes
<1>2. HtmlInv'
  BY DEF HtmlInv, HtmlNeverLooksCurrent
<1>3. CleanFilesAreInGraph'
  BY DEF TypeOK, CleanFilesAreInGraph, CandidateInv, FailedInv, ShapeOf
<1>4. CandidateInv'
  BY DEF TypeOK, CandidateInv
<1>5. ScanInv'
  BY DEF TypeOK, ScanInv
<1>6. FailedInv'
  BY DEF TypeOK, FailedInv, CandidateInv
<1>7. VouchInv'
  BY DEF TypeOK, VouchInv, Vouches
<1>8. QED
  BY <1>1, <1>2, <1>3, <1>4, <1>5, <1>6, <1>7

(* Only the snapshot changes. *)
LEMMA PublishIInv ==
  ASSUME IInv, Publish
  PROVE  IInv'
<1> USE DEF IInv, Publish, world, outputs, pass
<1>1. TypeOK'
  BY DEF TypeOK, Location, NoNodes
<1>2. HtmlInv'
  BY DEF HtmlInv, HtmlNeverLooksCurrent
<1>3. CleanFilesAreInGraph'
  BY DEF TypeOK, CleanFilesAreInGraph, CandidateInv, FailedInv, ShapeOf
<1>4. CandidateInv'
  BY DEF TypeOK, CandidateInv
<1>5. ScanInv'
  BY DEF TypeOK, ScanInv
<1>6. FailedInv'
  BY DEF TypeOK, FailedInv, CandidateInv
<1>7. VouchInv'
  BY DEF TypeOK, VouchInv, Vouches
<1>8. QED
  BY <1>1, <1>2, <1>3, <1>4, <1>5, <1>6, <1>7

(* The stamp is of this graph.json. *)
LEMMA StampIInv ==
  ASSUME IInv, Stamp
  PROVE  IInv'
<1> USE DEF IInv, Stamp, Return, Key, world, outputs, pass
<1>1. TypeOK'
  <2>1. stamp' \in Stamps \cup {NoStamp}
    <3>1. opts.raw \in BOOLEAN /\ opts.viz \in BOOLEAN
      BY OptionsAssumption DEF TypeOK, AllOptions
    <3>2. Key(opts, scanned) \in [raw : BOOLEAN, viz : BOOLEAN, scan : SUBSET Paths]
      BY <3>1 DEF TypeOK
    <3>3. (html # "none") \in BOOLEAN /\ full \in BOOLEAN
      BY DEF TypeOK
    <3>4. [key |-> Key(opts, scanned), full |-> full, fresh |-> TRUE,
           html |-> html # "none"] \in Stamps
      BY ONLY <3>2, <3>3 DEF Stamps
    <3>5. QED
      BY <3>4 DEF TypeOK
  <2>2. QED
    BY <2>1 DEF TypeOK, Location, NoNodes
<1>2. HtmlInv'
  BY DEF HtmlInv, HtmlNeverLooksCurrent
<1>3. CleanFilesAreInGraph'
  BY DEF TypeOK, CleanFilesAreInGraph, CandidateInv, FailedInv, ShapeOf
<1>4. CandidateInv'
  BY DEF TypeOK, CandidateInv
<1>5. ScanInv'
  BY DEF TypeOK, ScanInv
<1>6. FailedInv'
  BY DEF TypeOK, FailedInv, CandidateInv
<1>7. VouchInv'
  BY DEF TypeOK, VouchInv, Vouches
<1>8. QED
  BY <1>1, <1>2, <1>3, <1>4, <1>5, <1>6, <1>7

(* What a refused or abandoned pass has extracted is dirty again. *)
LEMMA StopIInv ==
  ASSUME IInv, Refuse \/ Abandon
  PROVE  IInv'
<1> USE DEF IInv, Refuse, Abandon, Return, world, outputs, pass
<1>1. TypeOK'
  BY DEF TypeOK, Location, NoNodes
<1>2. HtmlInv'
  BY DEF HtmlInv, HtmlNeverLooksCurrent
<1>3. CleanFilesAreInGraph'
  BY DEF TypeOK, CleanFilesAreInGraph, CandidateInv, FailedInv, ShapeOf
<1>4. CandidateInv'
  BY DEF TypeOK, CandidateInv
<1>5. ScanInv'
  BY DEF TypeOK, ScanInv
<1>6. FailedInv'
  BY DEF TypeOK, FailedInv, CandidateInv
<1>7. VouchInv'
  BY DEF TypeOK, VouchInv, Vouches
<1>8. QED
  BY <1>1, <1>2, <1>3, <1>4, <1>5, <1>6, <1>7

(* Every step keeps the invariant. *)
LEMMA NextIInv == IInv /\ [Next]_vars => IInv'
<1> SUFFICES ASSUME IInv, [Next]_vars PROVE IInv'
  OBVIOUS
<1>1. CASE Next
  BY <1>1, EditIInv, IdleIInv, BeginIInv, ExtractIInv, UntouchedIInv, MarkHtmlIInv,
     ReplaceIInv, SaveManifestIInv, SaveFailsIInv, ReconcileHtmlIInv, PublishIInv,
     StampIInv, StopIInv DEF Next, Step
<1>2. CASE UNCHANGED vars
  BY <1>2 DEF vars, world, outputs, pass, IInv, TypeOK, HtmlInv, HtmlNeverLooksCurrent,
     CleanFilesAreInGraph, CandidateInv, ScanInv, FailedInv, VouchInv, Vouches
<1>3. QED
  BY <1>1, <1>2

(* Everything above, in every reachable state. *)
THEOREM Invariance == Spec => []IInv
  BY InitIInv, NextIInv, PTL DEF Spec

(* The pass's locals and the files in graphify-out keep their types. *)
THEOREM TypeCorrect == Spec => []TypeOK
<1>1. IInv => TypeOK
  BY DEF IInv
<1>2. QED
  BY <1>1, Invariance, PTL

(* However the pass is cut short, graph.html made from an earlier          *)
(* clustered graph.json has its stale marker.                              *)
THEOREM HtmlNeverLooksCurrentHolds == Spec => []HtmlNeverLooksCurrent
<1>1. IInv => HtmlNeverLooksCurrent
  BY DEF IInv, HtmlInv
<1>2. QED
  BY <1>1, Invariance, PTL

(* Files nobody changed since a graph that has them are in graph.json as   *)
(* they are on disk.                                                       *)
THEOREM CleanFilesAreInGraphHolds == Spec => []CleanFilesAreInGraph
<1>1. IInv => CleanFilesAreInGraph
  BY DEF IInv
<1>2. QED
  BY <1>1, Invariance, PTL

(* The gate skips a full pass only over a graph.json that has every file   *)
(* outside `slipped` as it is on disk.                                     *)
THEOREM SkipIsSoundHolds == Spec => []SkipIsSound
<1>1. IInv => SkipIsSound
  <2> SUFFICES ASSUME IInv, NEW o \in Options, Skippable(o), NEW c \in Paths \ slipped
               PROVE  graph[c] = ShapeOf(disk[c])
    BY DEF SkipIsSound
  <2>1. /\ InputsUnchanged
        /\ stamp # NoStamp /\ stamp.fresh /\ stamp.key = Key(o, Present)
    BY DEF Skippable, StateMatches
  <2>2. Vouches(Present)
    BY <2>1 DEF IInv, VouchInv, Key
  <2>3. CASE c \in Present
    <3>1. manifest[c] = disk[c] /\ disk[c] \in Contents
      BY <2>1, <2>3 DEF InputsUnchanged, Present, IInv, TypeOK
    <3>2. QED
      BY <2>2, <2>3, <3>1 DEF Vouches, ShapeOf, Present
  <2>4. CASE c \notin Present
    BY <2>1, <2>2, <2>4 DEF InputsUnchanged, Vouches, ShapeOf, Present
  <2>5. QED
    BY <2>3, <2>4
<1>2. QED
  BY <1>1, Invariance, PTL
=============================================================================
