----------------------------- MODULE CacheProofs -----------------------------
(***************************************************************************)
(* What the caches behind an extraction promise.                           *)
(*                                                                         *)
(* First StatIndex: for any number of processes, cache roots, values and   *)
(* sizes, and any tick of the file system no longer than the assumed       *)
(* granularity.  Then SemanticRun, from SemanticInv on: for any files, cut *)
(* into any units and packed in any way.  What it needs of AdaptiveRetry,  *)
(* that a chunk comes to results of its own text only, is proved for every *)
(* depth of retries.                                                       *)
(***************************************************************************)
EXTENDS StatIndex, SemanticRun, FiniteSetTheorems, WellFoundedInduction, TLAPS

MayBe == Entries \cup {NoEntry}

(* A value that no renewed stamp vouches for is of the content, or its     *)
(* entry is racy or has another mtime than the file has.                   *)
Honest(e) ==
  /\ e.at <= now
  /\ \A v \in Values : e.values[v] # NoCell /\ ~e.values[v].renewed =>
       \/ ~exists \/ e.values[v].of = content
       \/ e.at < mtime + Tick \/ e.sig.mtime # mtime

(* All that an entry holds was computed under one root. *)
KeptFor(e, r) == \A v \in Values : e.values[v] # NoCell => e.values[v].for = r

HonestInv == /\ \A r \in Roots : Honest(disk[r])
             /\ \A p \in Procs : Honest(index[p])

RootInv == /\ \A r \in Roots : KeptFor(disk[r], r)
           /\ \A p \in Procs : KeptFor(index[p], root[p])

(* What a call has in hand; nothing is indexed before a root is bound. *)
ProcInv ==
  \A p \in Procs :
    /\ root[p] = NoRoot => index[p] = NoEntry /\ ~dirty[p] /\ pc[p] = "idle"
    /\ pc[p] # "idle" => call[p] \in Values
    /\ pc[p] \in {"observe", "read"} => st[p] \in Signatures
    /\ observed[p] <= now

IInv == /\ TypeOK
        /\ ProcInv
        /\ HonestInv
        /\ RootInv

-----------------------------------------------------------------------------
(* The stamp of a file written now is not later, and its tick is not over. *)
LEMMA StampIs ==
  ASSUME NEW t \in Nat
  PROVE  Stamp(t) \in 0..t /\ t < Stamp(t) + Tick
  <1>1. t % Tick \in 0..(Tick - 1)
    BY ClockAssumption
  <1>2. t % Tick <= t
    BY ClockAssumption
  <1>. QED BY <1>1, <1>2, ClockAssumption DEF Stamp

(* An entry that is not there says nothing. *)
LEMMA NoEntryIs ==
  ASSUME TypeOK
  PROVE  /\ NoEntry \notin Entries /\ NoSig \notin Signatures /\ NoEntry.sig = NoSig
         /\ Honest(NoEntry)
         /\ \A r : KeptFor(NoEntry, r)
  <1>1. \A v \in Values : NoEntry.values[v] = NoCell
    BY DEF NoEntry
  <1>2. NoEntry.at = -1 /\ NoEntry.sig = NoSig /\ NoSig.mtime = -1
    BY DEF NoEntry, NoSig
  <1>3. now \in Nat
    BY BoundsAssumption DEF TypeOK
  <1>4. NoSig \notin Signatures
    BY <1>2, BoundsAssumption DEF Signatures
  <1>5. NoEntry \notin Entries
    BY <1>2, <1>4 DEF Entries
  <1>. QED BY <1>1, <1>2, <1>3, <1>4, <1>5 DEF Honest, KeptFor

(* The parts of an entry. *)
LEMMA EntryIs ==
  ASSUME NEW e \in Entries
  PROVE  /\ e.sig \in Signatures /\ e.sig.mtime \in 0..MaxTime
         /\ e.at \in 0..MaxTime
         /\ e.values \in [Values -> Cells \cup {NoCell}]
  BY DEF Entries, Signatures

(* The empty index, and the cells of a root, are told apart. *)
LEMMA CellIs ==
  ASSUME NEW c \in Cells
  PROVE  /\ c # NoCell /\ c.for \in Roots
         /\ [c EXCEPT !.renewed = TRUE] \in Cells
         /\ [c EXCEPT !.renewed = TRUE].for = c.for
         /\ [c EXCEPT !.renewed = TRUE].renewed = TRUE
  <1> DEFINE d == [c EXCEPT !.renewed = TRUE]
  <1>1. c.for \in Roots
    BY DEF Cells
  <1>2. d \in Cells /\ d.for = c.for
    BY DEF Cells
  <1>3. d.renewed = TRUE
    BY DEF Cells
  <1>4. c # NoCell
    BY <1>1, NamesAssumption DEF NoCell
  <1>. QED BY <1>1, <1>2, <1>3, <1>4

(* _flush_stat_index writes the index of a process where its root is, or   *)
(* nothing.                                                                *)
LEMMA FlushIs ==
  ASSUME TypeOK, ProcInv, NEW p \in Procs, NEW next, NEW d \in Flush(p, next)
  PROVE  /\ d \in [Roots -> MayBe]
         /\ \A r \in Roots : d[r] \in {disk[r], NoEntry} \/ (r = root[p] /\ d[r] = index[p])
  <1>1. disk \in [Roots -> MayBe] /\ index[p] \in MayBe /\ NoEntry \in MayBe
    BY DEF TypeOK, MayBe
  <1>2. CASE d = disk
    BY <1>1, <1>2
  <1>3. CASE dirty[p] /\ d = [disk EXCEPT ![root[p]] = IF exists THEN index[p] ELSE NoEntry]
    <2>1. root[p] \in Roots
      BY <1>3 DEF ProcInv, TypeOK
    <2>. QED BY <1>1, <1>3, <2>1
  <1>. QED BY <1>2, <1>3 DEF Flush, FlushPath

(* _ensure_stat_index leaves the process with the index of its root, or    *)
(* with none.                                                              *)
LEMMA EnsureIs ==
  ASSUME IInv, NEW p \in Procs, NEW r \in Roots, Ensure(p, r)
  PROVE  /\ disk' \in [Roots -> MayBe]
         /\ \A s \in Roots : Honest(disk'[s]) /\ KeptFor(disk'[s], s)
         /\ root' \in [Procs -> Roots \cup {NoRoot}] /\ root'[p] = r
         /\ index' \in [Procs -> MayBe]
         /\ Honest(index'[p]) /\ KeptFor(index'[p], r)
         /\ dirty' \in [Procs -> BOOLEAN]
         /\ \A q \in Procs \ {p} : /\ root'[q] = root[q] /\ index'[q] = index[q]
                                   /\ dirty'[q] = dirty[q]
  <1>1. CASE root[p] = r /\ UNCHANGED <<disk, proc>>
    BY <1>1 DEF proc, IInv, TypeOK, HonestInv, RootInv, MayBe
  <1>2. CASE /\ root[p] # r
             /\ disk' \in Flush(p, r)
             /\ root' = [root EXCEPT ![p] = r]
             /\ \E e \in {disk'[r], NoEntry} : index' = [index EXCEPT ![p] = e]
             /\ dirty' = [dirty EXCEPT ![p] = FALSE]
    <2>1. /\ disk' \in [Roots -> MayBe]
          /\ \A s \in Roots :
               disk'[s] \in {disk[s], NoEntry} \/ (s = root[p] /\ disk'[s] = index[p])
      BY <1>2, FlushIs DEF IInv
    <2>2. \A s \in Roots : Honest(disk'[s]) /\ KeptFor(disk'[s], s)
      BY <2>1, NoEntryIs DEF IInv, HonestInv, RootInv
    <2>3. PICK e \in {disk'[r], NoEntry} : index' = [index EXCEPT ![p] = e]
      BY <1>2
    <2>4. e \in MayBe /\ Honest(e) /\ KeptFor(e, r)
      BY <2>1, <2>2, NoEntryIs DEF IInv, MayBe
    <2>. QED BY <1>2, <2>1, <2>2, <2>3, <2>4 DEF IInv, TypeOK, MayBe
  <1>. QED BY <1>1, <1>2 DEF Ensure

-----------------------------------------------------------------------------
(* The steps. *)

(* A fresh start: no entry anywhere. *)
LEMMA InitInv == Init => IInv
  <1> SUFFICES ASSUME Init PROVE IInv
    OBVIOUS
  <1> USE DEF Init
  <1>1. TypeOK
    BY BoundsAssumption DEF TypeOK
  <1>2. ProcInv
    <2>1. \A p \in Procs : /\ root[p] = NoRoot /\ index[p] = NoEntry /\ ~dirty[p]
                            /\ pc[p] = "idle"
      OBVIOUS
    <2>2. \A p \in Procs : observed[p] = now
      OBVIOUS
    <2>3. now <= now
      BY BoundsAssumption
    <2> HIDE DEF Init
    <2>. QED BY <2>1, <2>2, <2>3 DEF ProcInv
  <1>3. HonestInv /\ RootInv
    BY <1>1, NoEntryIs DEF HonestInv, RootInv
  <1>. QED BY <1>1, <1>2, <1>3 DEF IInv

(* Time passing makes no entry dishonest. *)
LEMMA AdvanceKeeps == ASSUME IInv, Advance PROVE IInv'
  <1>1. /\ now < MaxTime /\ now' = now + 1
        /\ UNCHANGED <<content, exists, size, mtime, disk, root, index, dirty, pc, call, st, observed>>
    BY DEF Advance, file, proc, calls
  <1>2. now \in Nat /\ MaxTime \in Nat
    BY BoundsAssumption DEF IInv, TypeOK
  <1>3. TypeOK'
    BY <1>1, <1>2 DEF IInv, TypeOK
  <1>4. ProcInv'
    BY <1>1, <1>2 DEF IInv, TypeOK, ProcInv
  <1>5. \A e \in MayBe : Honest(e) => Honest(e)'
    <2>1. \A e \in MayBe : e.at \in Int
      BY EntryIs, BoundsAssumption DEF MayBe, NoEntry
    <2>. QED BY <1>1, <1>2, <2>1 DEF Honest
  <1>6. HonestInv'
    BY <1>1, <1>5 DEF IInv, TypeOK, HonestInv, MayBe
  <1>7. RootInv'
    BY <1>1 DEF IInv, RootInv, KeptFor
  <1>. QED BY <1>3, <1>4, <1>6, <1>7 DEF IInv

(* A file rewritten makes every entry racy: none was read after now. *)
LEMMA WriteKeeps == ASSUME IInv, Write PROVE IInv'
  <1>1. /\ content < MaxContents /\ content' = content + 1
        /\ exists' = TRUE /\ size' \in Sizes /\ mtime' = Stamp(now)
        /\ UNCHANGED <<now, disk, root, index, dirty, pc, call, st, observed>>
    BY DEF Write, proc, calls
  <1>2. now \in Nat /\ mtime' \in 0..now /\ now < mtime' + Tick
    BY <1>1, StampIs, BoundsAssumption DEF IInv, TypeOK
  <1>3. TypeOK'
    BY <1>1, <1>2, BoundsAssumption DEF IInv, TypeOK
  <1>4. ProcInv'
    BY <1>1 DEF IInv, ProcInv
  <1>5. \A e \in MayBe : Honest(e) => Honest(e)'
    <2>1. \A e \in MayBe : e.at \in Int
      BY EntryIs, BoundsAssumption DEF MayBe, NoEntry
    <2>2. ASSUME NEW e \in MayBe, e.at <= now PROVE e.at < mtime' + Tick
      <3>1. e.at \in Int /\ mtime' + Tick \in Int
        BY <1>2, <2>1, ClockAssumption
      <3>. QED BY <1>2, <2>2, <3>1
    <2>. QED BY <1>1, <2>2 DEF Honest
  <1>6. HonestInv'
    BY <1>1, <1>5 DEF IInv, TypeOK, HonestInv, MayBe
  <1>7. RootInv'
    BY <1>1 DEF IInv, RootInv, KeptFor
  <1>. QED BY <1>3, <1>4, <1>6, <1>7 DEF IInv

(* Of a file that has gone nothing is served. *)
LEMMA DeleteKeeps == ASSUME IInv, Delete PROVE IInv'
  <1>1. /\ exists' = FALSE
        /\ UNCHANGED <<now, content, size, mtime, disk, root, index, dirty, pc, call, st, observed>>
    BY DEF Delete, proc, calls
  <1>2. TypeOK' /\ ProcInv' /\ RootInv'
    BY <1>1 DEF IInv, TypeOK, ProcInv, RootInv, KeptFor
  <1>3. HonestInv'
    BY <1>1 DEF IInv, HonestInv, Honest
  <1>. QED BY <1>2, <1>3 DEF IInv

(* A call under another root takes that root's index. *)
LEMMA CallKeeps ==
  ASSUME IInv, NEW p \in Procs, NEW r \in Roots, NEW v \in Values, Call(p, r, v)
  PROVE  IInv'
  <1>1. /\ pc[p] = "idle" /\ Ensure(p, r)
        /\ call' = [call EXCEPT ![p] = v] /\ pc' = [pc EXCEPT ![p] = "stat"]
        /\ UNCHANGED <<now, content, exists, size, mtime, st, observed>>
    BY DEF Call, Goto, file
  <1>2. /\ disk' \in [Roots -> MayBe]
        /\ \A s \in Roots : Honest(disk'[s]) /\ KeptFor(disk'[s], s)
        /\ root' \in [Procs -> Roots \cup {NoRoot}] /\ root'[p] = r
        /\ index' \in [Procs -> MayBe]
        /\ Honest(index'[p]) /\ KeptFor(index'[p], r)
        /\ dirty' \in [Procs -> BOOLEAN]
        /\ \A q \in Procs \ {p} : /\ root'[q] = root[q] /\ index'[q] = index[q]
                                  /\ dirty'[q] = dirty[q]
    BY <1>1, EnsureIs
  <1>3. TypeOK'
    BY <1>1, <1>2 DEF IInv, TypeOK, MayBe
  <1>4. ProcInv'
    BY <1>1, <1>2, NamesAssumption DEF IInv, TypeOK, ProcInv
  <1>5. HonestInv'
    BY <1>1, <1>2 DEF IInv, HonestInv, Honest
  <1>6. RootInv'
    BY <1>2 DEF IInv, RootInv, KeptFor
  <1>. QED BY <1>3, <1>4, <1>5, <1>6 DEF IInv

(* A process that is answered has nothing more in hand. *)
LEMMA AnswerKeeps ==
  ASSUME IInv, NEW p \in Procs, Answer(p), UNCHANGED <<now, file, disk, proc>>
  PROVE  IInv'
  <1>1. /\ pc' = [pc EXCEPT ![p] = "idle"] /\ call' = [call EXCEPT ![p] = None]
        /\ st' = [st EXCEPT ![p] = NoSig] /\ observed' = [observed EXCEPT ![p] = 0]
        /\ UNCHANGED <<now, content, exists, size, mtime, disk, root, index, dirty>>
    BY DEF Answer, Goto, file, proc
  <1>2. now \in Nat /\ 0 \in 0..MaxTime
    BY BoundsAssumption DEF IInv, TypeOK
  <1>3. TypeOK'
    BY <1>1, <1>2 DEF IInv, TypeOK
  <1>4. ProcInv'
    BY <1>1, <1>2 DEF IInv, TypeOK, ProcInv
  <1>5. HonestInv' /\ RootInv'
    BY <1>1 DEF IInv, HonestInv, Honest, RootInv, KeptFor
  <1>. QED BY <1>3, <1>4, <1>5 DEF IInv

(* The signature is read, or the call is served. *)
LEMMA StatKeeps == ASSUME IInv, NEW p \in Procs, Stat(p) PROVE IInv'
  <1>1. CASE Answer(p)
    BY <1>1, AnswerKeeps DEF Stat
  <1>2. CASE st' = [st EXCEPT ![p] = Current] /\ Goto(p, "observe") /\ UNCHANGED <<call, observed>>
    <2>1. /\ pc[p] = "stat" /\ pc' = [pc EXCEPT ![p] = "observe"]
          /\ UNCHANGED <<now, content, exists, size, mtime, disk, root, index, dirty>>
      BY <1>2 DEF Stat, Goto, file, proc
    <2>2. Current \in Signatures
      BY BoundsAssumption DEF IInv, TypeOK, Current, Signatures
    <2>3. TypeOK'
      BY <1>2, <2>1, <2>2 DEF IInv, TypeOK
    <2>4. ProcInv'
      BY <1>2, <2>1, <2>2 DEF IInv, TypeOK, ProcInv
    <2>5. HonestInv' /\ RootInv'
      BY <2>1 DEF IInv, HonestInv, Honest, RootInv, KeptFor
    <2>. QED BY <2>3, <2>4, <2>5 DEF IInv
  <1>. QED BY <1>1, <1>2 DEF Stat

(* The clock is read before the content. *)
LEMMA ObserveKeeps == ASSUME IInv, NEW p \in Procs, Observe(p) PROVE IInv'
  <1>1. /\ pc[p] = "observe" /\ pc' = [pc EXCEPT ![p] = "read"]
        /\ observed' = [observed EXCEPT ![p] = now]
        /\ UNCHANGED <<now, content, exists, size, mtime, disk, root, index, dirty, call, st>>
    BY DEF Observe, Goto, file, proc
  <1>2. now \in 0..MaxTime /\ now <= now
    BY BoundsAssumption DEF IInv, TypeOK
  <1>3. TypeOK'
    BY <1>1, <1>2 DEF IInv, TypeOK
  <1>4. ProcInv'
    BY <1>1, <1>2 DEF IInv, TypeOK, ProcInv
  <1>5. HonestInv' /\ RootInv'
    BY <1>1 DEF IInv, HonestInv, Honest, RootInv, KeptFor
  <1>. QED BY <1>3, <1>4, <1>5 DEF IInv

(* _stat_entry_for: what a renewed stamp vouches for wrongly is `renewed`, *)
(* for a value that was not racy is of the content, or of another mtime.   *)
LEMMA EntryForIs ==
  ASSUME IInv, NEW e \in MayBe, Honest(e), NEW r, KeptFor(e, r),
         NEW sig \in Signatures, NEW at \in 0..MaxTime, at <= now
  PROVE  /\ EntryFor(e, sig, at) \in Entries
         /\ Honest(EntryFor(e, sig, at))
         /\ KeptFor(EntryFor(e, sig, at), r)
  <1> DEFINE new == EntryFor(e, sig, at)
             none == [v \in Values |-> NoCell]
             cells == [v \in Values |-> IF e.values[v] # NoCell /\ ~Fresh(e, sig)
                                       THEN [e.values[v] EXCEPT !.renewed = TRUE]
                                       ELSE e.values[v]]
  <1>1. CASE e.sig # sig
    <2>1. new = [sig |-> sig, at |-> at, values |-> none]
      BY <1>1 DEF EntryFor
    <2>. QED BY <2>1 DEF Entries, Honest, KeptFor
  <1>2. CASE e.sig = sig
    <2>1. e \in Entries
      BY <1>2, NoEntryIs DEF IInv, MayBe
    <2>2. new = [e EXCEPT !.at = at, !.values = cells]
      BY <1>2 DEF EntryFor
    <2>3. \A v \in Values : e.values[v] \in Cells \cup {NoCell}
      BY <2>1, EntryIs
    <2>4. ASSUME NEW v \in Values
          PROVE  /\ cells[v] \in Cells \cup {NoCell}
                 /\ cells[v] # NoCell => /\ e.values[v] # NoCell
                                        /\ cells[v].for = e.values[v].for
                 /\ cells[v] # NoCell /\ ~cells[v].renewed => /\ Fresh(e, sig)
                                                            /\ cells[v] = e.values[v]
      BY <2>3, CellIs
    <2>5. cells \in [Values -> Cells \cup {NoCell}]
      BY <2>4
    <2> HIDE DEF cells
    <2>6. /\ new \in Entries
          /\ new.at = at /\ new.sig = sig /\ new.values = cells
      BY <1>2, <2>1, <2>2, <2>5 DEF Entries
    <2>7. KeptFor(new, r)
      BY <2>4, <2>6 DEF KeptFor
    <2>8. ASSUME NEW v \in Values, cells[v] # NoCell, ~cells[v].renewed,
                 exists, cells[v].of # content
          PROVE  sig.mtime # mtime
      <3>1. e.at < mtime + Tick \/ sig.mtime # mtime
        BY <1>2, <2>4, <2>8 DEF Honest
      <3>2. sig.mtime + Granularity <= e.at
        BY <2>4, <2>8 DEF Fresh
      <3>. QED BY <2>1, <3>1, <3>2, EntryIs, ClockAssumption, BoundsAssumption DEF IInv, TypeOK, Signatures
    <2>. QED BY <2>6, <2>7, <2>8 DEF Honest
  <1>. QED BY <1>1, <1>2

(* A value put into the entry is of the content, or the file has gone. *)
LEMMA ReadKeeps == ASSUME IInv, NEW p \in Procs, Read(p) PROVE IInv'
  <1> DEFINE e == EntryFor(index[p], st[p], observed[p])
             c == [of |-> IF exists THEN content ELSE 0, for |-> root[p], renewed |-> FALSE]
             new == [e EXCEPT !.values[call[p]] = c]
  <1>1. /\ pc[p] = "read" /\ index' = [index EXCEPT ![p] = new]
        /\ dirty' = [dirty EXCEPT ![p] = TRUE]
        /\ pc' = [pc EXCEPT ![p] = "idle"] /\ call' = [call EXCEPT ![p] = None]
        /\ st' = [st EXCEPT ![p] = NoSig] /\ observed' = [observed EXCEPT ![p] = 0]
        /\ UNCHANGED <<now, content, exists, size, mtime, disk, root>>
    BY DEF Read, Answer, Goto, file
  <1>2. /\ root[p] \in Roots /\ call[p] \in Values /\ st[p] \in Signatures
        /\ observed[p] \in 0..MaxTime /\ observed[p] <= now
        /\ index[p] \in MayBe /\ Honest(index[p]) /\ KeptFor(index[p], root[p])
    BY <1>1 DEF IInv, TypeOK, ProcInv, HonestInv, RootInv, MayBe
  <1>3. e \in Entries /\ Honest(e) /\ KeptFor(e, root[p])
    BY <1>2, EntryForIs
  <1>4. c \in Cells
    BY <1>2, BoundsAssumption DEF IInv, TypeOK, Cells
  <1>5. c.for = root[p] /\ (~exists \/ c.of = content)
    OBVIOUS
  <1> HIDE DEF e, c
  <1>6. /\ new \in Entries /\ new.at = e.at /\ new.sig = e.sig
        /\ new.values = [e.values EXCEPT ![call[p]] = c]
    BY <1>2, <1>3, <1>4 DEF Entries
  <1>7. \A v \in Values : new.values[v] = IF v = call[p] THEN c ELSE e.values[v]
    BY <1>3, <1>6, EntryIs
  <1> HIDE DEF new
  <1>8. Honest(new) /\ KeptFor(new, root[p])
    BY <1>3, <1>5, <1>6, <1>7 DEF Honest, KeptFor
  <1>9. now \in Nat /\ 0 \in 0..MaxTime
    BY BoundsAssumption DEF IInv, TypeOK
  <1>10. TypeOK'
    BY <1>1, <1>6, <1>9 DEF IInv, TypeOK
  <1>11. ProcInv'
    BY <1>1, <1>2, <1>9, NamesAssumption DEF IInv, TypeOK, ProcInv
  <1>12. \A q \in Procs : index'[q] = IF q = p THEN new ELSE index[q]
    BY <1>1 DEF IInv, TypeOK
  <1>13. HonestInv'
    BY <1>1, <1>8, <1>12 DEF IInv, HonestInv, Honest
  <1>14. RootInv'
    BY <1>1, <1>8, <1>12 DEF IInv, RootInv, KeptFor
  <1>. QED BY <1>10, <1>11, <1>13, <1>14 DEF IInv

(* A process without a root has no index. *)
LEMMA ExitKeeps == ASSUME IInv, NEW p \in Procs, Exit(p) PROVE IInv'
  <1>1. /\ pc[p] = "idle" /\ disk' \in Flush(p, NoRoot)
        /\ root' = [root EXCEPT ![p] = NoRoot] /\ index' = [index EXCEPT ![p] = NoEntry]
        /\ dirty' = [dirty EXCEPT ![p] = FALSE]
        /\ UNCHANGED <<now, content, exists, size, mtime, pc, call, st, observed>>
    BY DEF Exit, Unbind, file, calls
  <1>2. /\ disk' \in [Roots -> MayBe]
        /\ \A r \in Roots :
             disk'[r] \in {disk[r], NoEntry} \/ (r = root[p] /\ disk'[r] = index[p])
    BY <1>1, FlushIs DEF IInv
  <1>3. TypeOK'
    BY <1>1, <1>2 DEF IInv, TypeOK, MayBe
  <1>4. ProcInv'
    BY <1>1 DEF IInv, TypeOK, ProcInv
  <1>5. \A q \in Procs : index'[q] = IF q = p THEN NoEntry ELSE index[q]
    BY <1>1 DEF IInv, TypeOK
  <1>6. HonestInv'
    BY <1>1, <1>2, <1>5, NoEntryIs DEF IInv, HonestInv, Honest
  <1>7. RootInv'
    <2>1. \A q \in Procs \ {p} : root'[q] = root[q]
      BY <1>1 DEF IInv, TypeOK
    <2>2. \A r \in Roots : KeptFor(disk'[r], r)
      BY <1>2, NoEntryIs DEF IInv, RootInv
    <2>3. \A q \in Procs : KeptFor(index'[q], root'[q])
      BY <1>5, <2>1, NoEntryIs DEF IInv, RootInv
    <2>. QED BY <2>2, <2>3 DEF RootInv, KeptFor
  <1>. QED BY <1>3, <1>4, <1>6, <1>7 DEF IInv

(* A killed process flushes nothing. *)
LEMMA KillKeeps == ASSUME IInv, NEW p \in Procs, Kill(p) PROVE IInv'
  <1>1. /\ root' = [root EXCEPT ![p] = NoRoot] /\ index' = [index EXCEPT ![p] = NoEntry]
        /\ dirty' = [dirty EXCEPT ![p] = FALSE]
        /\ pc' = [pc EXCEPT ![p] = "idle"] /\ call' = [call EXCEPT ![p] = None]
        /\ st' = [st EXCEPT ![p] = NoSig] /\ observed' = [observed EXCEPT ![p] = 0]
        /\ UNCHANGED <<now, content, exists, size, mtime, disk>>
    BY DEF Kill, Unbind, Answer, Goto, file
  <1>2. now \in Nat /\ 0 \in 0..MaxTime
    BY BoundsAssumption DEF IInv, TypeOK
  <1>3. TypeOK'
    BY <1>1, <1>2 DEF IInv, TypeOK
  <1>4. ProcInv'
    BY <1>1, <1>2 DEF IInv, TypeOK, ProcInv
  <1>5. \A q \in Procs : /\ index'[q] = IF q = p THEN NoEntry ELSE index[q]
                         /\ q # p => root'[q] = root[q]
    BY <1>1 DEF IInv, TypeOK
  <1>6. HonestInv'
    BY <1>1, <1>5, NoEntryIs DEF IInv, HonestInv, Honest
  <1>7. RootInv'
    <2>1. \A q \in Procs : KeptFor(index'[q], root'[q])
      BY <1>5, NoEntryIs DEF IInv, RootInv
    <2>. QED BY <1>1, <2>1 DEF IInv, RootInv, KeptFor
  <1>. QED BY <1>3, <1>4, <1>6, <1>7 DEF IInv

(* Nothing else happens. *)
LEMMA NextInv == IInv /\ [Next]_vars => IInv'
  <1> SUFFICES ASSUME IInv, [Next]_vars PROVE IInv'
    OBVIOUS
  <1>1. CASE Advance \/ Write \/ Delete
    BY <1>1, AdvanceKeeps, WriteKeeps, DeleteKeeps
  <1>2. ASSUME NEW p \in Procs, NEW r \in Roots, NEW v \in Values, Call(p, r, v) PROVE IInv'
    BY <1>2, CallKeeps
  <1>3. ASSUME NEW p \in Procs, Stat(p) \/ Observe(p) \/ Read(p) PROVE IInv'
    BY <1>3, StatKeeps, ObserveKeeps, ReadKeeps
  <1>4. ASSUME NEW p \in Procs, Vanished(p) PROVE IInv'
    BY <1>4, AnswerKeeps DEF Vanished
  <1>5. ASSUME NEW p \in Procs, Exit(p) \/ Kill(p) PROVE IInv'
    BY <1>5, ExitKeeps, KillKeeps
  <1>6. CASE UNCHANGED vars
    BY <1>6 DEF vars, file, proc, calls, IInv, TypeOK, ProcInv,
                HonestInv, Honest, RootInv, KeptFor
  <1>. QED BY <1>1, <1>2, <1>3, <1>4, <1>5, <1>6 DEF Next

-----------------------------------------------------------------------------
(* The inductive invariant holds of every reachable state. *)
THEOREM Invariance == Spec => []IInv
  BY InitInv, NextInv, PTL DEF Spec

(* Every variable keeps its type. *)
THEOREM TypeCorrect == Spec => []TypeOK
  <1>1. IInv => TypeOK
    BY DEF IInv
  <1>. QED BY Invariance, <1>1, PTL

(* ServedIsCurrent: what file_hash and cached_word_count serve without a   *)
(* reading is of the content the file has, for any processes, switching    *)
(* between any roots, and any file system whose tick _mtime_granularity_ns *)
(* does not underrate; but for a value whose stamp another one renewed.    *)
THEOREM ServedIsCurrentHolds == Spec => []ServedIsCurrent
  <1>1. IInv => ServedIsCurrent
    <2> SUFFICES ASSUME IInv, NEW e \in AllEntries, Trusted(e), NEW v \in Values,
                        e.values[v] # NoCell, ~e.values[v].renewed
                 PROVE  e.values[v].of = content
      BY DEF ServedIsCurrent
    <2>1. e \in MayBe /\ Honest(e)
      BY DEF AllEntries, IInv, TypeOK, HonestInv, MayBe
    <2>2. exists /\ e.sig.mtime = mtime /\ mtime + Granularity <= e.at
      BY DEF Trusted, Fresh, Current
    <2>3. e.at \in Int /\ mtime \in Int
      BY <2>1, EntryIs, BoundsAssumption DEF MayBe, NoEntry, IInv, TypeOK
    <2>. QED BY <2>1, <2>2, <2>3, ClockAssumption DEF Honest
  <1>. QED BY Invariance, <1>1, PTL

(* RootsKeepApart: however late a process that has switched roots flushes, *)
(* a root's stat-index.json holds what was computed under that root alone  *)
(* (#3989).                                                                *)
THEOREM RootsKeepApartHolds == Spec => []RootsKeepApart
  <1>1. IInv => RootsKeepApart
    BY DEF IInv, RootInv, KeptFor, RootsKeepApart
  <1>. QED BY Invariance, <1>1, PTL

-----------------------------------------------------------------------------
(* Each piece of a chunk was read, or its file is marked or reported, or   *)
(* the chunk has raised; and what came of it is of its own text.           *)
Accounted(chunk, r) ==
  r.raised \/ \A p \in TextOf(chunk) : p \in r.read \/ p[1] \in r.partial \cup r.lost

OwnResult(chunk, r) ==
  /\ r.nodes \subseteq TextOf(chunk) /\ r.read \subseteq TextOf(chunk)
  /\ r.partial \subseteq NamesOf(chunk) /\ r.lost \subseteq NamesOf(chunk)

Sound(chunk, results) == \A r \in results : Accounted(chunk, r) /\ OwnResult(chunk, r)

(* A set of natural numbers has a least one. *)
LEMMA LeastIs ==
  ASSUME NEW T, T \subseteq Nat, T # {}
  PROVE  \E x \in T : \A y \in T : x <= y
  <1> DEFINE R == {ss \in Nat \X Nat : ss[1] < ss[2]}
  <1>1. IsWellFoundedOn(R, Nat)
    BY NatLessThanWellFounded DEF OpToRel
  <1>2. PICK x \in T : \A y \in T : ~(<<y, x>> \in R)
    <2> HIDE DEF R
    <2>. QED BY <1>1, WFMin
  <1>3. \A y \in T : ~(y < x)
    BY <1>2
  <1>. QED BY <1>3

(* The retries `f` of up to n levels are those of the recursion. *)
Retries(f, n) == f = [left \in 0..n |-> [q \in Requests |-> Results(f[left - 1], left, q)]]

(* A request with no level left makes no other. *)
LEMMA LastLevelIs ==
  ASSUME NEW f, NEW g, NEW q \in Requests
  PROVE  Results(f, 0, q) = Results(g, 0, q)
  BY DEF Results, OnLength, OnTimeout, OnContext, Splits

(* The recursion over the levels defines a function.                       *)
LEMMA RetriesExist == \A n \in Nat : \E f : Retries(f, n)
  <1> DEFINE T == {n \in Nat : ~\E f : Retries(f, n)}
  <1> SUFFICES ASSUME T # {} PROVE FALSE
    OBVIOUS
  <1>1. PICK n \in T : \A m \in T : n <= m
    <2>1. T \subseteq Nat
      OBVIOUS
    <2> HIDE DEF T
    <2>. QED BY <2>1, LeastIs
  <1>2. \E f : n # 0 => Retries(f, n - 1)
    <2>1. CASE n = 0
      BY <2>1
    <2>2. CASE n # 0
      <3>1. n - 1 \in Nat /\ n - 1 \notin T
        BY <1>1, <2>2
      <3>. QED BY <3>1
    <2>. QED BY <2>1, <2>2
  <1>3. PICK f : n # 0 => Retries(f, n - 1)
    BY <1>2
  <1> DEFINE g == [left \in 0..n |-> IF left = n
                                     THEN [q \in Requests |-> Results(f[left - 1], left, q)]
                                     ELSE f[left]]
  <1>4. ASSUME NEW left \in 0..n
        PROVE  g[left] = [q \in Requests |-> Results(g[left - 1], left, q)]
    <2>1. CASE left = 0 /\ n = 0
      <3>1. g[left] = [q \in Requests |-> Results(f[left - 1], left, q)]
        BY <2>1
      <3>2. \A q \in Requests : Results(f[left - 1], left, q) = Results(g[left - 1], left, q)
        BY <2>1, LastLevelIs
      <3> HIDE DEF g
      <3>. QED BY <3>1, <3>2
    <2>2. CASE left = 0 /\ n # 0
      <3>1. g[left] = f[left]
        BY <2>2
      <3>2. f[left] = [q \in Requests |-> Results(f[left - 1], left, q)]
        BY <1>3, <2>2 DEF Retries
      <3>3. \A q \in Requests : Results(f[left - 1], left, q) = Results(g[left - 1], left, q)
        BY <2>2, LastLevelIs
      <3> HIDE DEF g
      <3>. QED BY <3>1, <3>2, <3>3
    <2>3. CASE left # 0 /\ left # n
      <3>1. g[left] = f[left] /\ g[left - 1] = f[left - 1]
        BY <2>3
      <3>2. f[left] = [q \in Requests |-> Results(f[left - 1], left, q)]
        BY <1>3, <2>3 DEF Retries
      <3> HIDE DEF g
      <3>. QED BY <3>1, <3>2
    <2>4. CASE left # 0 /\ left = n
      <3>1. g[left] = [q \in Requests |-> Results(f[left - 1], left, q)] /\ g[left - 1] = f[left - 1]
        BY <2>4
      <3> HIDE DEF g
      <3>. QED BY <3>1
    <2>. QED BY <2>1, <2>2, <2>3, <2>4
  <1>5. g = [left \in 0..n |-> g[left]]
    OBVIOUS
  <1>6. Retries(g, n)
    <2> HIDE DEF g
    <2>. QED BY <1>4, <1>5 DEF Retries
  <1>. QED BY <1>1, <1>6

LEMMA ExtractIs == Extract = [left \in 0..MaxDepth |->
                                [q \in Requests |-> Results(Extract[left - 1], left, q)]]
  <1> DEFINE E == CHOOSE f : Retries(f, MaxDepth)
  <1>1. Extract = E
    BY DEF Extract, Retries
  <1>2. Retries(E, MaxDepth)
    BY RetriesExist, RetryAssumption
  <1> HIDE DEF E
  <1>3. Retries(Extract, MaxDepth)
    BY <1>1, <1>2
  <1>. QED BY <1>3 DEF Retries

-----------------------------------------------------------------------------
(* The pieces of some units together are those of each. *)
LEMMA PiecesIs ==
  ASSUME NEW A, NEW B
  PROVE  Pieces(A \cup B) = Pieces(A) \cup Pieces(B) /\ FilesOf(A \cup B) = FilesOf(A) \cup FilesOf(B)
  BY DEF Pieces, FilesOf

(* The halves of a chunk are chunks, and together have all of its text.    *)
LEMMA HalvesAre ==
  ASSUME NEW chunk \in Seq(Slices), NEW left, Splits(chunk, left)
  PROVE  /\ Halves(chunk)[1] \in Seq(Slices) /\ Halves(chunk)[2] \in Seq(Slices)
         /\ TextOf(chunk) = TextOf(Halves(chunk)[1]) \cup TextOf(Halves(chunk)[2])
         /\ NamesOf(chunk) = NamesOf(Halves(chunk)[1]) \cup NamesOf(Halves(chunk)[2])
  <1> DEFINE one == Halves(chunk)[1]
             two == Halves(chunk)[2]
  <1>1. CASE Len(chunk) > 1
    <2> DEFINE mid == Len(chunk) \div 2
    <2>1. mid \in 1..Len(chunk) - 1
      BY <1>1
    <2>2. one = SubSeq(chunk, 1, mid) /\ two = SubSeq(chunk, mid + 1, Len(chunk))
      BY <1>1 DEF Halves
    <2> HIDE DEF mid
    <2>3. one \in Seq(Slices) /\ two \in Seq(Slices)
      BY <2>1, <2>2
    <2>4. Range(chunk) = Range(one) \cup Range(two)
      <3>1. Len(one) = mid /\ \A i \in 1..mid : one[i] = chunk[i]
        BY <2>1, <2>2
      <3>2. Len(two) = Len(chunk) - mid /\ \A i \in 1..Len(chunk) - mid : two[i] = chunk[mid + i]
        BY <2>1, <2>2
      <3>3. ASSUME NEW u \in Range(chunk) PROVE u \in Range(one) \cup Range(two)
        <4>1. PICK i \in 1..Len(chunk) : u = chunk[i]
          BY DEF Range
        <4>2. CASE i <= mid
          BY <2>1, <2>3, <3>1, <4>1, <4>2 DEF Range
        <4>3. CASE i > mid
          <5>1. i - mid \in 1..Len(chunk) - mid /\ mid + (i - mid) = i
            BY <2>1, <4>1, <4>3
          <5>2. i - mid \in 1..Len(two) /\ u = two[i - mid]
            BY <3>2, <4>1, <5>1
          <5>. QED BY <2>3, <5>2 DEF Range
        <4>. QED BY <2>1, <4>1, <4>2, <4>3
      <3>4. ASSUME NEW u \in Range(one) PROVE u \in Range(chunk)
        <4>1. PICK i \in 1..mid : u = one[i]
          BY <2>3, <3>1 DEF Range
        <4>. QED BY <2>1, <3>1, <4>1 DEF Range
      <3>5. ASSUME NEW u \in Range(two) PROVE u \in Range(chunk)
        <4>1. PICK i \in 1..Len(chunk) - mid : u = two[i]
          BY <2>3, <3>2 DEF Range
        <4>2. mid + i \in 1..Len(chunk)
          BY <2>1, <4>1
        <4>. QED BY <3>2, <4>1, <4>2 DEF Range
      <3>. QED BY <3>3, <3>4, <3>5
    <2> HIDE DEF one, two
    <2>5. TextOf(chunk) = TextOf(one) \cup TextOf(two)
      BY <2>4, PiecesIs DEF TextOf
    <2>6. NamesOf(chunk) = NamesOf(one) \cup NamesOf(two)
      BY <2>4, PiecesIs DEF NamesOf
    <2>. QED BY <2>3, <2>5, <2>6 DEF one, two
  <1>2. CASE Len(chunk) = 1
    <2> DEFINE unit == chunk[1]
               cut  == (unit.from + unit.to) \div 2
               low  == [unit EXCEPT !.to = cut]
               high == [unit EXCEPT !.from = cut]
    <2>1. unit \in Slices /\ Range(chunk) = {unit}
      BY <1>2 DEF Range
    <2>2. unit.to - unit.from > 1
      BY <1>2 DEF Splits, Bisectable
    <2>3. cut \in Nat /\ unit.from <= cut /\ cut <= unit.to
      BY <2>1, <2>2 DEF Slices
    <2>4. one = <<low>> /\ two = <<high>>
      BY <1>2 DEF Halves, Bisect
    <2>5. /\ low \in Slices /\ low.file = unit.file /\ low.from = unit.from /\ low.to = cut
          /\ high \in Slices /\ high.file = unit.file /\ high.from = cut /\ high.to = unit.to
      BY <2>1, <2>3 DEF Slices
    <2> HIDE DEF unit, cut, low, high
    <2>6. one \in Seq(Slices) /\ two \in Seq(Slices) /\ Range(one) = {low} /\ Range(two) = {high}
      <3>1. \A v \in Slices : <<v>> \in Seq(Slices) /\ Range(<<v>>) = {v}
        BY DEF Range
      <3> HIDE DEF one, two
      <3>. QED BY <2>4, <2>5, <3>1
    <2>7. /\ TextOf(chunk) = {<<unit.file, p>> : p \in unit.from .. unit.to - 1}
          /\ TextOf(one) = {<<unit.file, p>> : p \in unit.from .. cut - 1}
          /\ TextOf(two) = {<<unit.file, p>> : p \in cut .. unit.to - 1}
      BY <2>1, <2>5, <2>6 DEF TextOf, Pieces
    <2>8. /\ NamesOf(chunk) = {unit.file}
          /\ NamesOf(one) = {unit.file} /\ NamesOf(two) = {unit.file}
      BY <2>1, <2>5, <2>6 DEF NamesOf, FilesOf
    <2>9. unit.from .. unit.to - 1 = (unit.from .. cut - 1) \cup (cut .. unit.to - 1)
      BY <2>1, <2>3 DEF Slices
    <2>. QED BY <2>6, <2>7, <2>8, <2>9
  <1>. QED BY <1>1, <1>2 DEF Splits

(* Sound results of the halves make sound results of the chunk.            *)
LEMMA SplitIsSound ==
  ASSUME NEW chunk \in Seq(Slices), NEW left, Splits(chunk, left), NEW deeper, NEW budget,
         Sound(Halves(chunk)[1], deeper[[chunk |-> Halves(chunk)[1], budget |-> budget]]),
         Sound(Halves(chunk)[2], deeper[[chunk |-> Halves(chunk)[2], budget |-> budget]])
  PROVE  Sound(chunk, Split(deeper, chunk, budget))
  <1> DEFINE one == Halves(chunk)[1]
             two == Halves(chunk)[2]
             lefts == deeper[[chunk |-> one, budget |-> budget]]
             rights == deeper[[chunk |-> two, budget |-> budget]]
  <1>1. /\ TextOf(chunk) = TextOf(one) \cup TextOf(two)
        /\ NamesOf(chunk) = NamesOf(one) \cup NamesOf(two)
    BY HalvesAre
  <1>2. Split(deeper, chunk, budget) = MergeTwo(lefts, rights)
    BY DEF Split
  <1>3. Sound(one, lefts) /\ Sound(two, rights)
    OBVIOUS
  <1> HIDE DEF one, two, lefts, rights
  <1>4. SUFFICES ASSUME NEW r \in MergeTwo(lefts, rights)
                 PROVE  Accounted(chunk, r) /\ OwnResult(chunk, r)
    BY <1>2 DEF Sound
  <1>5. CASE r \in lefts /\ r.raised
    BY <1>1, <1>3, <1>5 DEF Sound, Accounted, OwnResult
  <1>6. ASSUME NEW l \in lefts, ~l.raised, NEW s \in rights, r = Both(l, s)
        PROVE  Accounted(chunk, r) /\ OwnResult(chunk, r)
    <2>1. CASE s.raised
      BY <1>1, <1>3, <1>6, <2>1 DEF Sound, Accounted, OwnResult, Both
    <2>2. CASE ~s.raised
      <3>1. /\ r.raised = FALSE /\ r.nodes = l.nodes \cup s.nodes /\ r.read = l.read \cup s.read
            /\ r.partial = l.partial \cup s.partial /\ r.lost = l.lost \cup s.lost
        BY <1>6, <2>2 DEF Both, Outcome
      <3>2. Accounted(one, l) /\ OwnResult(one, l) /\ Accounted(two, s) /\ OwnResult(two, s)
        BY <1>3 DEF Sound
      <3>. QED BY <1>1, <1>6, <2>2, <3>1, <3>2 DEF Accounted, OwnResult
    <2>. QED BY <2>1, <2>2
  <1>. QED BY <1>4, <1>5, <1>6 DEF MergeTwo

(* The results of one answer, without a retry, are sound.                  *)
LEMMA AnswersAreSound ==
  ASSUME NEW chunk
  PROVE  /\ Sound(chunk, Complete(chunk)) /\ Sound(chunk, Error) /\ Sound(chunk, Hollow(chunk))
         /\ Sound(chunk, Truncated(chunk)) /\ Sound(chunk, ContextLost(chunk))
  <1>1. \A p \in TextOf(chunk) : p[1] \in NamesOf(chunk)
    BY DEF TextOf, NamesOf, Pieces, FilesOf
  <1>2. Sound(chunk, Complete(chunk))
    BY DEF Sound, Accounted, OwnResult, Complete, Outcome
  <1>3. Sound(chunk, Error)
    BY DEF Sound, Accounted, OwnResult, Error, Outcome
  <1>4. Sound(chunk, Hollow(chunk))
    BY <1>1 DEF Sound, Accounted, OwnResult, Hollow, Outcome
  <1>5. Sound(chunk, Truncated(chunk))
    BY <1>1 DEF Sound, Accounted, OwnResult, Truncated, Outcome
  <1>6. Sound(chunk, ContextLost(chunk))
    BY <1>1 DEF Sound, Accounted, OwnResult, ContextLost, Outcome
  <1>. QED BY <1>2, <1>3, <1>4, <1>5, <1>6

(* One level of retry keeps the results sound. *)
LEMMA ResultsAreSound ==
  ASSUME NEW deeper, NEW left \in Nat, NEW q \in Requests,
         left > 0 => \A p \in Requests : Sound(p.chunk, deeper[p])
  PROVE  Sound(q.chunk, Results(deeper, left, q))
  <1>1. q.chunk \in Seq(Slices) /\ q.budget \in 0..Halvings
    BY DEF Requests
  <1>2. Smaller(q.budget) \in 0..Halvings
    BY <1>1, RetryAssumption DEF Smaller
  <1>3. ASSUME Splits(q.chunk, left), NEW budget \in 0..Halvings
        PROVE  Sound(q.chunk, Split(deeper, q.chunk, budget))
    <2>1. Halves(q.chunk)[1] \in Seq(Slices) /\ Halves(q.chunk)[2] \in Seq(Slices)
      BY <1>1, <1>3, HalvesAre
    <2>2. /\ [chunk |-> Halves(q.chunk)[1], budget |-> budget] \in Requests
          /\ [chunk |-> Halves(q.chunk)[2], budget |-> budget] \in Requests
      BY <2>1 DEF Requests
    <2>3. /\ Sound(Halves(q.chunk)[1], deeper[[chunk |-> Halves(q.chunk)[1], budget |-> budget]])
          /\ Sound(Halves(q.chunk)[2], deeper[[chunk |-> Halves(q.chunk)[2], budget |-> budget]])
      BY <1>3, <2>2 DEF Splits
    <2>. QED BY <1>1, <1>3, <2>3, SplitIsSound
  <1>4. Sound(q.chunk, OnLength(deeper, left, q)) /\ Sound(q.chunk, OnTimeout(deeper, left, q))
    BY <1>1, <1>3, AnswersAreSound DEF OnLength, OnTimeout
  <1>5. Sound(q.chunk, OnContext(deeper, left, q))
    <2>1. CASE Splits(q.chunk, left)
      BY <1>2, <1>3, <2>1 DEF OnContext
    <2>2. CASE ~Splits(q.chunk, left) /\ Len(q.chunk) = 1 /\ q.budget > 0 /\ left > 0
      <3>1. [q EXCEPT !.budget = Smaller(@)] \in Requests
        BY <1>1, <1>2 DEF Requests
      <3>2. [q EXCEPT !.budget = Smaller(@)].chunk = q.chunk
        BY DEF Requests
      <3>. QED BY <2>2, <3>1, <3>2 DEF OnContext
    <2>3. CASE ~Splits(q.chunk, left) /\ ~(Len(q.chunk) = 1 /\ q.budget > 0 /\ left > 0)
      BY <2>3, AnswersAreSound DEF OnContext
    <2>. QED BY <2>1, <2>2, <2>3
  <1>. QED BY <1>4, <1>5, AnswersAreSound DEF Results, Sound

(* Whatever the model and its server answer, at whatever depth.            *)
THEOREM OutcomesAreSound == \A chunk \in Seq(Slices) : Sound(chunk, Outcomes(chunk))
  <1> DEFINE T == {n \in 0..MaxDepth : \E q \in Requests : ~Sound(q.chunk, Extract[n][q])}
  <1>1. T = {}
    <2> SUFFICES ASSUME T # {} PROVE FALSE
      OBVIOUS
    <2>1. PICK n \in T : \A m \in T : n <= m
      <3>1. T \subseteq Nat
        BY RetryAssumption
      <3> HIDE DEF T
      <3>. QED BY <3>1, LeastIs
    <2>2. n \in Nat /\ n \in 0..MaxDepth
      BY RetryAssumption
    <2>3. n > 0 => \A p \in Requests : Sound(p.chunk, Extract[n - 1][p])
      <3> SUFFICES ASSUME n > 0 PROVE \A p \in Requests : Sound(p.chunk, Extract[n - 1][p])
        OBVIOUS
      <3>1. n - 1 \in 0..MaxDepth /\ ~(n <= n - 1)
        BY <2>2, RetryAssumption
      <3>. QED BY <2>1, <3>1
    <2>4. \A q \in Requests : Extract[n][q] = Results(Extract[n - 1], n, q)
      <3> DEFINE level(left) == [q \in Requests |-> Results(Extract[left - 1], left, q)]
      <3>1. Extract = [left \in 0..MaxDepth |-> level(left)]
        BY ExtractIs
      <3> HIDE DEF level
      <3>2. Extract[n] = level(n)
        BY <2>2, <3>1
      <3>. QED BY <3>2 DEF level
    <2>5. \A q \in Requests : Sound(q.chunk, Results(Extract[n - 1], n, q))
      BY <2>2, <2>3, ResultsAreSound
    <2>. QED BY <2>1, <2>4, <2>5
  <1>2. MaxDepth \in 0..MaxDepth
    BY RetryAssumption
  <1>3. \A chunk \in Seq(Slices) : [chunk |-> chunk, budget |-> Halvings] \in Requests
    BY RetryAssumption DEF Requests
  <1>. QED BY <1>1, <1>2, <1>3 DEF Outcomes

-----------------------------------------------------------------------------
(* What the chunks that have ended were about. *)
Past == UNION {Text[c] : c \in done}

Asked(f) == \E c \in done : f \in Names[c]

(* The chunks of a run share no unit, and have all of the files it sends.  *)
ChunkInv == phase = "chunks" =>
  /\ \A c, d \in chunks : c # d => c \cap d = {}
  /\ UNION chunks = {i \in DOMAIN Corpus : Corpus[i].file \in Uncached}

(* What a cache entry or a result has is of the file it is said to be of.  *)
OwnInv ==
  /\ \A f \in Files : entry[f] # Absent => entry[f].nodes \subseteq Whole[f]
  /\ phase = "chunks" => /\ fresh.nodes \subseteq Past
                         /\ \A f \in fresh.partial : Asked(f)

(* A hit is whole, or, while its slices come in, what has come in.         *)
HitInv == \A f \in Files \ short : Hit(f) =>
  \/ entry[f].nodes = Whole[f]
  \/ phase = "chunks" /\ f \in Uncached /\ Asked(f) /\ entry[f].nodes = Of(f, Past)

(* Of a file that has left nothing in the cache only one chunk can have    *)
(* ended.                                                                  *)
NothingInv == phase = "chunks" => \A f \in Uncached \ short :
  entry[f] = Absent => \A c \in done : f \in Names[c] => InOneChunk(f, c)

(* The run has of a file all that was asked, or nothing at all.            *)
FreshInv == phase = "chunks" => \A f \in Uncached \ (short \cup fresh.partial) :
  \/ Of(f, fresh.nodes) = Of(f, Past)
  \/ Of(f, fresh.nodes) = {} /\ \E c \in done : InOneChunk(f, c)

KeptInv == \A f \in kept :
  /\ Hit(f) /\ entry[f].nodes = Whole[f]
  /\ phase = "chunks" /\ f \in Uncached =>
       /\ \E c \in done : InOneChunk(f, c)
       /\ Whole[f] \subseteq fresh.nodes /\ f \notin fresh.partial

(* So of every file the result has all or nothing. *)
SemInv ==
  /\ phase = "chunks" => \A f \in Files :
       /\ f \notin hits => Of(f, sem) = {}
       /\ f \notin short => Of(f, sem) \in {{}, Whole[f]}
  /\ phase \in {"write", "stamp"} => \A f \in Files :
       /\ f \notin dispatched => Of(f, sem) = {}
       /\ f \notin short \cup fresh.partial => Of(f, sem) \in {{}, Whole[f]}

GraphInv ==
  /\ \A f \in stamped \ short :
       Of(f, graph) \in {{}, Whole[f]} \/ (phase = "stamp" /\ f \in dispatched)
  /\ phase = "stamp" => \A f \in Files : NodesIn(f, sem) => Of(f, graph) = Of(f, sem)

SemanticInv == /\ SemanticTypeOK /\ ChunkInv /\ OwnInv /\ HitInv /\ NothingInv
               /\ FreshInv /\ KeptInv /\ SemInv /\ GraphInv

-----------------------------------------------------------------------------
(* The text of a chunk is that of its units, and these are of its files.   *)
Held(i) == Text[{i}]

LEMMA TextIs ==
  /\ \A c \in Chunks : Text[c] = UNION {Held(i) : i \in c}
  /\ \A c \in Chunks : \A f : f \in Names[c] <=> \E i \in c : Corpus[i].file = f
  /\ \A i \in DOMAIN Corpus : /\ Corpus[i].file \in Files /\ Held(i) # {}
                              /\ \A p \in Held(i) : p[1] = Corpus[i].file
  <1>1. \A i \in DOMAIN Corpus : {i} \in Chunks
    BY DEF Chunks
  <1>2. \A i \in DOMAIN Corpus : Corpus[i] \in Slices
    BY CorpusAssumption
  <1>3. \A c \in Chunks : c \subseteq DOMAIN Corpus
    BY DEF Chunks
  <1>4. ASSUME NEW i \in DOMAIN Corpus
        PROVE  Held(i) = {<<Corpus[i].file, p>> : p \in Corpus[i].from .. Corpus[i].to - 1}
    <2>1. {Corpus[j] : j \in {i}} = {Corpus[i]}
      OBVIOUS
    <2>2. Held(i) = Pieces({Corpus[i]})
      BY <1>1, <2>1 DEF Held, Text
    <2>. QED BY <2>2 DEF Pieces
  <1>5. ASSUME NEW c \in Chunks PROVE Text[c] = UNION {Held(i) : i \in c}
    <2>1. Text[c] = UNION {{<<u.file, p>> : p \in u.from .. u.to - 1} : u \in {Corpus[i] : i \in c}}
      BY DEF Text, Pieces
    <2>2. UNION {Held(i) : i \in c}
            = UNION {{<<Corpus[i].file, p>> : p \in Corpus[i].from .. Corpus[i].to - 1} : i \in c}
      BY <1>3, <1>4
    <2>. QED BY <2>1, <2>2
  <1>6. ASSUME NEW c \in Chunks, NEW f PROVE f \in Names[c] <=> \E i \in c : Corpus[i].file = f
    BY DEF Names, FilesOf
  <1>7. ASSUME NEW i \in DOMAIN Corpus
        PROVE  Held(i) # {} /\ \A p \in Held(i) : p[1] = Corpus[i].file
    <2>1. Corpus[i].from \in Corpus[i].from .. Corpus[i].to - 1
      BY <1>2, CorpusAssumption DEF Slices
    <2>2. <<Corpus[i].file, Corpus[i].from>> \in Held(i)
      BY <1>4, <2>1
    <2>3. ASSUME NEW p \in Held(i) PROVE p[1] = Corpus[i].file
      <3>1. PICK q \in Corpus[i].from .. Corpus[i].to - 1 : p = <<Corpus[i].file, q>>
        BY <1>4
      <3>. QED BY <3>1
    <2>. QED BY <2>2, <2>3
  <1>. QED BY <1>2, <1>5, <1>6, <1>7 DEF Slices

(* A chunk has text of the files it names, and of no others. *)
LEMMA NamesIs ==
  /\ \A c \in Chunks : Names[c] \subseteq Files /\ Text[c] \subseteq Everything
  /\ \A c \in Chunks, f \in Files : f \in Names[c] <=> Of(f, Text[c]) # {}
  /\ \A f \in Files : Whole[f] # {} /\ Whole[f] = Of(f, Everything)
  /\ \A p \in Everything : p[1] \in Files
  <1>1. DOMAIN Corpus \in Chunks /\ \A c \in Chunks : c \subseteq DOMAIN Corpus
    BY DEF Chunks
  <1>2. \A c \in Chunks : Names[c] \subseteq Files /\ Text[c] \subseteq Everything
    BY <1>1, TextIs DEF Everything
  <1>3. ASSUME NEW c \in Chunks, NEW f \in Files PROVE f \in Names[c] <=> Of(f, Text[c]) # {}
    <2>1. f \in Names[c] <=> \E i \in c : Corpus[i].file = f
      BY TextIs
    <2>2. \A p : p \in Of(f, Text[c]) <=> \E i \in c : p \in Held(i) /\ p[1] = f
      BY TextIs DEF Of
    <2>. QED BY <1>1, <2>1, <2>2, TextIs
  <1>4. ASSUME NEW f \in Files PROVE Whole[f] # {} /\ Whole[f] = Of(f, Everything)
    BY <1>1, <1>3, CorpusAssumption DEF Whole, Everything
  <1>5. \A p \in Everything : p[1] \in Files
    BY <1>1, TextIs DEF Everything
  <1>. QED BY <1>2, <1>3, <1>4, <1>5

(* Chunks without a common unit have no common text. *)
LEMMA ApartIs ==
  ASSUME NEW c \in Chunks, NEW d \in Chunks, c \cap d = {}
  PROVE  /\ Text[c] \cap Text[d] = {}
         /\ \A f \in Files : InOneChunk(f, c) => f \in Names[c] /\ f \notin Names[d]
  <1>1. c \subseteq DOMAIN Corpus /\ d \subseteq DOMAIN Corpus
    BY DEF Chunks
  <1>2. Text[c] \cap Text[d] = {}
    <2> SUFFICES ASSUME NEW p \in Text[c], p \in Text[d] PROVE FALSE
      OBVIOUS
    <2>1. PICK i \in c : p \in Held(i)
      BY TextIs
    <2>2. PICK j \in d : p \in Held(j)
      BY TextIs
    <2>. QED BY <1>1, <2>1, <2>2, CorpusAssumption DEF Held
  <1>3. ASSUME NEW f \in Files, InOneChunk(f, c) PROVE f \in Names[c] /\ f \notin Names[d]
    <2>1. Whole[f] \subseteq Text[c] /\ Whole[f] # {} /\ Whole[f] = Of(f, Everything)
      BY <1>3, NamesIs DEF InOneChunk
    <2>2. Of(f, Text[d]) \subseteq Whole[f]
      BY <2>1, NamesIs DEF Of
    <2>3. Of(f, Text[d]) = {} /\ Of(f, Text[c]) # {}
      BY <1>2, <2>1, <2>2 DEF Of
    <2>. QED BY <2>3, NamesIs
  <1>. QED BY <1>2, <1>3

(* All the chunks of a run have all of the files it sends. *)
LEMMA AllIs ==
  ASSUME NEW S \in SUBSET Chunks, NEW U,
         UNION S = {i \in DOMAIN Corpus : Corpus[i].file \in U}
  PROVE  /\ \A c \in S : Names[c] \subseteq U
         /\ \A f \in Files \cap U : Of(f, UNION {Text[c] : c \in S}) = Whole[f]
  <1>1. \A c \in S : Names[c] \subseteq U
    BY TextIs
  <1>2. ASSUME NEW f \in Files \cap U
        PROVE  Of(f, UNION {Text[c] : c \in S}) = Whole[f]
    <2>1. DOMAIN Corpus \in Chunks
      BY DEF Chunks
    <2>2. ASSUME NEW p \in Everything, p[1] = f
          PROVE  p \in UNION {Text[c] : c \in S}
      <3>1. PICK i \in DOMAIN Corpus : p \in Held(i)
        BY <2>1, TextIs DEF Everything
      <3>2. PICK c \in S : i \in c
        BY <2>2, <3>1, TextIs
      <3>. QED BY <3>1, <3>2, TextIs
    <2>3. UNION {Text[c] : c \in S} \subseteq Everything
      BY NamesIs
    <2>. QED BY <2>2, <2>3, NamesIs DEF Of
  <1>. QED BY <1>1, <1>2

LEMMA OfIs == \A f, A, B : /\ Of(f, A \cup B) = Of(f, A) \cup Of(f, B)
                           /\ Of(f, {}) = {}
                           /\ A \subseteq B => Of(f, A) \subseteq Of(f, B)
  BY DEF Of

(* What the end of a chunk adds to what has been asked: a file that is in  *)
(* it as a whole has not been asked before, nor is asked again.            *)
LEMMA EndIs ==
  ASSUME SemanticTypeOK, ChunkInv, phase = "chunks",
         NEW c \in chunks \ done, done' = done \cup {c}
  PROVE  /\ Past' = Past \cup Text[c]
         /\ c \in Chunks /\ Names[c] \subseteq Uncached /\ Names[c] \subseteq Files
         /\ \A f \in Files :
              /\ Asked(f)' <=> Asked(f) \/ f \in Names[c]
              /\ ~Asked(f) => Of(f, Past) = {}
              /\ f \notin Names[c] => Of(f, Text[c]) = {}
              /\ f \in Names[c] => Of(f, Text[c]) # {}
              /\ Of(f, Past') = Of(f, Past) \cup Of(f, Text[c])
              /\ Of(f, Past') \subseteq Whole[f]
              /\ InOneChunk(f, c) => f \in Names[c] /\ ~Asked(f) /\ Of(f, Text[c]) = Whole[f]
              /\ \A d \in done : InOneChunk(f, d) => f \notin Names[c]
  <1>1. chunks \subseteq Chunks /\ done \subseteq chunks /\ c \in Chunks
    BY DEF SemanticTypeOK
  <1>2. Past' = Past \cup Text[c]
    BY DEF Past
  <1>3. Names[c] \subseteq Uncached /\ Names[c] \subseteq Files
    BY <1>1, AllIs, NamesIs DEF ChunkInv
  <1>4. Past \subseteq Everything /\ Text[c] \subseteq Everything
    BY <1>1, NamesIs DEF Past
  <1>5. ASSUME NEW f \in Files
        PROVE  /\ Asked(f)' <=> Asked(f) \/ f \in Names[c]
               /\ ~Asked(f) => Of(f, Past) = {}
               /\ f \notin Names[c] => Of(f, Text[c]) = {}
               /\ f \in Names[c] => Of(f, Text[c]) # {}
               /\ Of(f, Past') = Of(f, Past) \cup Of(f, Text[c])
               /\ Of(f, Past') \subseteq Whole[f]
               /\ InOneChunk(f, c) => f \in Names[c] /\ ~Asked(f) /\ Of(f, Text[c]) = Whole[f]
               /\ \A d \in done : InOneChunk(f, d) => f \notin Names[c]
    <2>1. Asked(f)' <=> Asked(f) \/ f \in Names[c]
      BY DEF Asked
    <2>2. \A d \in done : f \notin Names[d] => Of(f, Text[d]) = {}
      BY <1>1, NamesIs
    <2>3. ~Asked(f) => Of(f, Past) = {}
      BY <2>2 DEF Asked, Past, Of
    <2>4. /\ f \notin Names[c] => Of(f, Text[c]) = {}
          /\ f \in Names[c] => Of(f, Text[c]) # {}
      BY <1>1, NamesIs
    <2>5. Of(f, Past') = Of(f, Past) \cup Of(f, Text[c])
      BY <1>2, OfIs
    <2>6. Of(f, Past') \subseteq Whole[f]
      BY <1>2, <1>4, NamesIs, OfIs
    <2>7. \A d \in done : c \cap d = {} /\ d \in Chunks
      BY <1>1 DEF ChunkInv
    <2>8. ASSUME InOneChunk(f, c)
          PROVE  f \in Names[c] /\ ~Asked(f) /\ Of(f, Text[c]) = Whole[f]
      <3>1. f \in Names[c]
        <4>1. Whole[f] \subseteq Text[c] /\ Whole[f] # {} /\ Whole[f] = Of(f, Everything)
          BY <2>8, NamesIs DEF InOneChunk
        <4>. QED BY <1>1, <4>1, NamesIs DEF Of
      <3>2. ~Asked(f)
        BY <1>1, <2>7, <2>8, ApartIs DEF Asked
      <3>3. Whole[f] \subseteq Text[c] /\ Whole[f] = Of(f, Everything)
        BY <2>8, NamesIs DEF InOneChunk
      <3>. QED BY <1>4, <3>1, <3>2, <3>3 DEF Of
    <2>9. \A d \in done : InOneChunk(f, d) => f \notin Names[c]
      BY <1>1, <2>7, ApartIs
    <2>. QED BY <2>1, <2>3, <2>4, <2>5, <2>6, <2>8, <2>9
  <1>. QED BY <1>1, <1>2, <1>3, <1>5

(* The results of a chunk of the corpus are those of its units in order.   *)
LEMMA AttemptsAre ==
  ASSUME NEW c \in Chunks, NEW r \in Attempts[c]
  PROVE  /\ r.nodes \subseteq Text[c] /\ r.partial \subseteq Names[c]
         /\ r.raised \/ \A p \in Text[c] : p \in r.read \/ p[1] \in r.partial \cup r.lost
  <1>1. PICK at \in InOrder(c) : r \in Outcomes([k \in DOMAIN at |-> Corpus[at[k]]])
    BY DEF Attempts
  <1> DEFINE n == Cardinality(c)
             units == [k \in DOMAIN at |-> Corpus[at[k]]]
  <1>2. c \subseteq DOMAIN Corpus /\ DOMAIN Corpus = 1..Len(Corpus) /\ Len(Corpus) \in Nat
    BY CorpusAssumption DEF Chunks
  <1>3. n \in Nat
    <2>1. IsFiniteSet(1..Len(Corpus))
      BY <1>2, FS_Interval
    <2>2. IsFiniteSet(c)
      BY <1>2, <2>1, FS_Subset
    <2>. QED BY <2>2, FS_CardinalityType
  <1>4. at \in [1..n -> c] /\ \A i \in c : \E k \in 1..n : at[k] = i
    BY DEF InOrder, Bijection, Injection, Surjection
  <1> HIDE DEF n
  <1>5. units \in Seq(Slices)
    BY <1>2, <1>3, <1>4, CorpusAssumption
  <1>6. Range(units) = {Corpus[i] : i \in c}
    BY <1>4 DEF Range
  <1>7. TextOf(units) = Text[c] /\ NamesOf(units) = Names[c]
    BY <1>6 DEF TextOf, NamesOf, Text, Names
  <1> HIDE DEF units
  <1>8. Accounted(units, r) /\ OwnResult(units, r)
    BY <1>1, <1>5, OutcomesAreSound DEF Sound, units
  <1>. QED BY <1>7, <1>8 DEF Accounted, OwnResult

-----------------------------------------------------------------------------
LEMMA SemanticInitInv == SemanticInit => SemanticInv
  <1> SUFFICES ASSUME SemanticInit PROVE SemanticInv
    OBVIOUS
  <1> USE SemanticBoundsAssumption DEF SemanticInit
  <1>1. SemanticTypeOK
    <2>1. fresh \in [nodes : SUBSET Everything, partial : SUBSET Files,
                     returned : BOOLEAN, missing : BOOLEAN]
      BY DEF NoFresh
    <2>2. entry \in [Files -> CacheEntries \cup {Absent}]
      OBVIOUS
    <2>3. /\ graph \subseteq Everything /\ sem \subseteq Everything
          /\ chunks \subseteq Chunks /\ done \subseteq chunks
      OBVIOUS
    <2>4. phase = "idle" /\ allow \in BOOLEAN /\ merging \in BOOLEAN
      OBVIOUS
    <2>6. runs \in 0..MaxRuns
      BY SemanticBoundsAssumption
    <2>5. hits \subseteq dispatched /\ dispatched \subseteq Files /\ stamped \subseteq Files
          /\ kept \subseteq Files /\ short \subseteq Files
      OBVIOUS
    <2>. QED BY ONLY <2>1, <2>2, <2>3, <2>4, <2>5, <2>6 DEF SemanticTypeOK
  <1>2. ChunkInv /\ OwnInv /\ NothingInv /\ FreshInv
    BY DEF ChunkInv, OwnInv, NothingInv, FreshInv
  <1>3. HitInv
    BY DEF HitInv, Hit
  <1>4. KeptInv /\ SemInv /\ GraphInv
    BY DEF KeptInv, SemInv, GraphInv
  <1>. QED BY <1>1, <1>2, <1>3, <1>4 DEF SemanticInv

(* Every packing has all the units of its files, each in one chunk.        *)
LEMMA PackingIs ==
  ASSUME NEW files, NEW S \in Packings(files)
  PROVE  /\ S \subseteq Chunks
         /\ \A c, d \in S : c # d => c \cap d = {}
         /\ UNION S = {i \in DOMAIN Corpus : Corpus[i].file \in files}
  <1> DEFINE I == {i \in DOMAIN Corpus : Corpus[i].file \in files}
  <1>1. PICK number \in [I -> I] :
          S = {{j \in I : number[j] = k} : k \in {number[j] : j \in I}}
    BY DEF Packings
  <1>2. ASSUME NEW c \in S
        PROVE  \E k \in I : \A i : i \in c <=> i \in I /\ number[i] = k
    BY <1>1
  <1>3. ASSUME NEW i \in I PROVE \E c \in S : i \in c
    <2>1. i \in {j \in I : number[j] = number[i]}
      OBVIOUS
    <2>2. {j \in I : number[j] = number[i]} \in S
      BY <1>1
    <2>. QED BY <2>1, <2>2
  <1>4. S \subseteq Chunks
    BY <1>2 DEF Chunks
  <1>5. ASSUME NEW c \in S, NEW d \in S, c # d PROVE c \cap d = {}
    <2>1. PICK k \in I : \A i : i \in c <=> i \in I /\ number[i] = k
      BY <1>2
    <2>2. PICK l \in I : \A i : i \in d <=> i \in I /\ number[i] = l
      BY <1>2
    <2>. QED BY <1>5, <2>1, <2>2
  <1>6. UNION S = I
    BY <1>2, <1>3
  <1>. QED BY <1>4, <1>5, <1>6

LEMMA SemanticBeginKeeps ==
  ASSUME SemanticInv, NEW force \in BOOLEAN, Begin(force)
  PROVE  SemanticInv'
  <1> USE DEF SemanticInv
  <1>1. /\ phase = "idle" /\ phase' = "chunks" /\ runs < MaxRuns /\ runs' = runs + 1
        /\ done' = {} /\ fresh' = NoFresh
        /\ sem' = UNION {entry[f].nodes : f \in hits'}
        /\ kept' = kept \ (dispatched' \ hits')
        /\ entry' = entry /\ graph' = graph /\ stamped' = stamped /\ allow' = allow
        /\ short' = short /\ merging' \in BOOLEAN
    BY DEF Begin, store
  <1>2. dispatched' \subseteq Files /\ hits' \subseteq dispatched' /\ \A f \in hits' : Hit(f)
    BY DEF Begin, Dispatched
  <1>3. Uncached' = dispatched' \ hits'
    BY DEF Uncached
  <1>4. /\ chunks' \subseteq Chunks
        /\ \A c, d \in chunks' : c # d => c \cap d = {}
        /\ UNION chunks' = {i \in DOMAIN Corpus : Corpus[i].file \in Uncached'}
    BY <1>3, PackingIs DEF Begin
  <1>5. ASSUME NEW f \in hits'
        PROVE  entry[f].nodes \subseteq Whole[f] /\ entry[f].nodes \subseteq Everything
    BY <1>2, NamesIs DEF OwnInv, Hit, Of
  <1>6. SemanticTypeOK'
    BY <1>1, <1>2, <1>4, <1>5, SemanticBoundsAssumption DEF SemanticTypeOK, NoFresh
  <1>7. ChunkInv'
    BY <1>4 DEF ChunkInv
  <1>8. Past' = {}
    BY <1>1 DEF Past
  <1>9. OwnInv' /\ NothingInv'
    BY <1>1 DEF OwnInv, NothingInv, NoFresh
  <1>10. HitInv'
    BY <1>1 DEF HitInv, Hit
  <1>11. FreshInv'
    BY <1>1, <1>8 DEF FreshInv, NoFresh
  <1>12. KeptInv'
    BY <1>1, <1>3 DEF KeptInv, Hit
  <1>13. SemInv'
    <2>1. ASSUME NEW f \in Files
          PROVE  Of(f, sem') = IF f \in hits' THEN entry[f].nodes ELSE {}
      <3>1. \A g \in hits' : Of(f, entry[g].nodes) = IF f = g THEN entry[g].nodes ELSE {}
        BY <1>2, <1>5, NamesIs DEF Of
      <3>2. \A p : p \in Of(f, sem') <=> \E g \in hits' : p \in Of(f, entry[g].nodes)
        BY <1>1 DEF Of
      <3>. QED BY <3>1, <3>2
    <2>2. \A f \in hits' \ short : entry[f].nodes = Whole[f]
      BY <1>1, <1>2 DEF HitInv
    <2>. QED BY <1>1, <2>1, <2>2 DEF SemInv
  <1>14. GraphInv'
    BY <1>1 DEF GraphInv
  <1>. QED BY <1>6, <1>7, <1>9, <1>10, <1>11, <1>12, <1>13, <1>14

(* A chunk that raises leaves the files it had a slice of in `short`.      *)
LEMMA SemanticRaisedKeeps ==
  ASSUME SemanticInv, NEW c \in chunks, Raised(c)
  PROVE  SemanticInv'
  <1> USE DEF SemanticInv
  <1>1. /\ phase = "chunks" /\ phase' = phase /\ c \in chunks \ done
        /\ done' = done \cup {c} /\ fresh' = [fresh EXCEPT !.missing = TRUE]
        /\ short' = short \cup {f \in Names[c] : ~InOneChunk(f, c)}
        /\ UNCHANGED <<entry, graph, stamped, runs, allow, merging, dispatched, hits, chunks,
                       sem, kept>>
    BY DEF Raised, store, run
  <1>2. /\ Past' = Past \cup Text[c]
        /\ c \in Chunks /\ Names[c] \subseteq Uncached /\ Names[c] \subseteq Files
        /\ \A f \in Files :
             /\ Asked(f)' <=> Asked(f) \/ f \in Names[c]
             /\ ~Asked(f) => Of(f, Past) = {}
             /\ f \notin Names[c] => Of(f, Text[c]) = {}
             /\ Of(f, Past') = Of(f, Past) \cup Of(f, Text[c])
             /\ InOneChunk(f, c) => f \in Names[c] /\ ~Asked(f) /\ Of(f, Text[c]) = Whole[f]
    BY <1>1, EndIs
  <1>3. Uncached' = Uncached /\ Uncached \subseteq Files
    BY <1>1 DEF Uncached, SemanticTypeOK
  <1>4. fresh'.nodes = fresh.nodes /\ fresh'.partial = fresh.partial
    BY <1>1 DEF SemanticTypeOK
  <1>5. SemanticTypeOK'
    BY <1>1, <1>2 DEF SemanticTypeOK
  <1>6. ChunkInv'
    BY <1>1, <1>3 DEF ChunkInv
  <1>7. OwnInv'
    BY <1>1, <1>2, <1>4 DEF OwnInv, SemanticTypeOK
  <1>8. HitInv'
    <2> SUFFICES ASSUME NEW f \in Files \ short', Hit(f)', entry'[f].nodes # Whole[f]
                 PROVE  f \in Uncached' /\ Asked(f)' /\ entry'[f].nodes = Of(f, Past')
      BY <1>1 DEF HitInv
    <2>1. Hit(f) /\ f \notin short /\ entry[f].nodes # Whole[f]
      BY <1>1 DEF Hit
    <2>2. f \in Uncached /\ Asked(f) /\ entry[f].nodes = Of(f, Past)
      BY <2>1 DEF HitInv
    <2>3. f \notin Names[c]
      BY <1>1, <1>2, <2>2
    <2>. QED BY <1>1, <1>2, <1>3, <2>2, <2>3
  <1>9. NothingInv'
    BY <1>1, <1>2, <1>3 DEF NothingInv, InOneChunk
  <1>10. FreshInv'
    <2> SUFFICES ASSUME NEW f \in Uncached \ (short' \cup fresh'.partial)
                 PROVE  \/ Of(f, fresh'.nodes) = Of(f, Past')
                        \/ Of(f, fresh'.nodes) = {} /\ \E d \in done' : InOneChunk(f, d)
      BY <1>1, <1>3 DEF FreshInv, InOneChunk
    <2>1. \/ Of(f, fresh.nodes) = Of(f, Past)
          \/ Of(f, fresh.nodes) = {} /\ \E d \in done : InOneChunk(f, d)
      BY <1>1, <1>4 DEF FreshInv
    <2>2. f \in Names[c] => InOneChunk(f, c)
      BY <1>1
    <2>3. f \in Names[c] => Of(f, fresh.nodes) = {}
      BY <1>1, <1>2, <1>3, <2>2, OfIs DEF OwnInv
    <2>. QED BY <1>1, <1>2, <1>3, <1>4, <2>1, <2>2, <2>3
  <1>11. KeptInv'
    BY <1>1, <1>3, <1>4 DEF KeptInv, Hit, InOneChunk
  <1>12. SemInv' /\ GraphInv'
    BY <1>1 DEF SemInv, GraphInv
  <1>. QED BY <1>5, <1>6, <1>7, <1>8, <1>9, <1>10, <1>11, <1>12

(* What a checkpoint makes of an entry. *)
LEMMA MergedIs ==
  ASSUME SemanticInv, NEW c \in Chunks, NEW r \in Attempts[c], NEW f \in Files
  PROVE  /\ Merged(f, r) \in CacheEntries /\ Merged(f, r) # Absent
         /\ Merged(f, r).nodes = IF entry[f] = Absent THEN Of(f, r.nodes)
                                 ELSE Of(f, r.nodes) \cup entry[f].nodes
         /\ Merged(f, r).nodes \subseteq Whole[f]
         /\ ~Merged(f, r).partial <=> f \notin r.partial /\ (entry[f] = Absent \/ Hit(f))
  <1>1. Of(f, r.nodes) \subseteq Whole[f]
    BY AttemptsAre, NamesIs, OfIs
  <1>2. Whole[f] \subseteq Everything
    BY NamesIs DEF Of
  <1>3. entry[f] # Absent => entry[f].nodes \subseteq Whole[f] /\ entry[f].partial \in BOOLEAN
    BY DEF SemanticInv, OwnInv, SemanticTypeOK, CacheEntries
  <1>4. Merged(f, r) \in CacheEntries
    BY <1>1, <1>2, <1>3 DEF Merged, CacheEntries
  <1>. QED BY <1>1, <1>3, <1>4, AbsentAssumption DEF Merged, Hit

(* A chunk that returns: what it leaves of a file in the cache, and in the *)
(* run, is all that was asked, or the file is in `short`.                  *)
LEMMA SemanticReturnedKeeps ==
  ASSUME SemanticInv, NEW c \in chunks, Returned(c)
  PROVE  SemanticInv'
  <1> USE DEF SemanticInv
  <1>1. /\ phase = "chunks" /\ phase' = phase /\ c \in chunks \ done
        /\ done' = done \cup {c}
        /\ UNCHANGED <<graph, stamped, runs, allow, merging, dispatched, hits, chunks, sem>>
    BY DEF Returned, run
  <1>2. /\ Past' = Past \cup Text[c]
        /\ c \in Chunks /\ Names[c] \subseteq Uncached /\ Names[c] \subseteq Files
        /\ \A f \in Files :
             /\ Asked(f)' <=> Asked(f) \/ f \in Names[c]
             /\ ~Asked(f) => Of(f, Past) = {}
             /\ f \notin Names[c] => Of(f, Text[c]) = {}
             /\ f \in Names[c] => Of(f, Text[c]) # {}
             /\ Of(f, Past') = Of(f, Past) \cup Of(f, Text[c])
             /\ Of(f, Past') \subseteq Whole[f]
             /\ InOneChunk(f, c) => f \in Names[c] /\ ~Asked(f) /\ Of(f, Text[c]) = Whole[f]
             /\ \A d \in done : InOneChunk(f, d) => f \notin Names[c]
    BY <1>1, EndIs
  <1>3. Uncached' = Uncached /\ Uncached \subseteq Files
    BY <1>1 DEF Uncached, SemanticTypeOK
  <1>4. PICK r \in {r \in Attempts[c] : ~r.raised} :
          \E written \in Writes(Groups(r, Names[c])) :
            /\ fresh' = [fresh EXCEPT !.nodes = @ \cup r.nodes,
                                      !.partial = @ \cup r.partial,
                                      !.returned = TRUE,
                                      !.missing = @ \/ r.lost # {}]
            /\ Checkpoint(r, written)
            /\ kept' = kept \cup {f \in written \ r.partial :
                                    /\ Whole[f] \subseteq r.nodes
                                    /\ entry[f] # Absent => ~entry[f].partial}
            /\ short' = short \cup Halved(c, r)
                              \cup {f \in Groups(r, Names[c]) \ written : ~InOneChunk(f, c)}
    BY DEF Returned
  <1>5. PICK written \in Writes(Groups(r, Names[c])) :
          /\ fresh' = [fresh EXCEPT !.nodes = @ \cup r.nodes,
                                    !.partial = @ \cup r.partial,
                                    !.returned = TRUE,
                                    !.missing = @ \/ r.lost # {}]
          /\ Checkpoint(r, written)
          /\ kept' = kept \cup {f \in written \ r.partial :
                                  /\ Whole[f] \subseteq r.nodes
                                  /\ entry[f] # Absent => ~entry[f].partial}
          /\ short' = short \cup Halved(c, r)
                            \cup {f \in Groups(r, Names[c]) \ written : ~InOneChunk(f, c)}
    BY <1>4
  <1>6. /\ r \in Attempts[c] /\ r.nodes \subseteq Text[c] /\ r.partial \subseteq Names[c]
        /\ written \subseteq Groups(r, Names[c])
        /\ Groups(r, Names[c]) \subseteq Names[c]
    BY <1>2, AttemptsAre DEF Writes, Groups
  <1>7. \A f \in Files : entry'[f] = IF f \in written THEN Merged(f, r) ELSE entry[f]
    BY <1>5 DEF Checkpoint
  <1>8. ASSUME NEW f \in written
         PROVE  /\ f \in Files /\ entry'[f] \in CacheEntries /\ entry'[f] # Absent
                /\ entry'[f].nodes = IF entry[f] = Absent THEN Of(f, r.nodes)
                                     ELSE Of(f, r.nodes) \cup entry[f].nodes
                /\ entry'[f].nodes \subseteq Whole[f]
                /\ ~entry'[f].partial <=> f \notin r.partial /\ (entry[f] = Absent \/ Hit(f))
    <2>1. f \in Files /\ entry'[f] = Merged(f, r)
      BY <1>2, <1>6, <1>7
    <2> HIDE DEF SemanticInv
    <2>2. r \in Attempts[c] /\ c \in Chunks
      BY <1>2, <1>6
    <2>3. /\ Merged(f, r) \in CacheEntries /\ Merged(f, r) # Absent
          /\ Merged(f, r).nodes = IF entry[f] = Absent THEN Of(f, r.nodes)
                                  ELSE Of(f, r.nodes) \cup entry[f].nodes
          /\ Merged(f, r).nodes \subseteq Whole[f]
          /\ ~Merged(f, r).partial <=> f \notin r.partial /\ (entry[f] = Absent \/ Hit(f))
      BY <2>1, <2>2, MergedIs
    <2>. QED BY <2>1, <2>3
  <1>9. fresh'.nodes = fresh.nodes \cup r.nodes /\ fresh'.partial = fresh.partial \cup r.partial
    BY <1>5 DEF SemanticTypeOK
  <1>10. short \subseteq short'
    BY <1>5
  \* What the run knows of a file that is not left in `short`.
  <1>11. ASSUME NEW f \in Files \ short', f \in Names[c], f \notin r.partial
         PROVE  \/ Of(f, r.nodes) = Of(f, Text[c]) /\ f \in Groups(r, Names[c])
                \/ Of(f, r.nodes) = {} /\ InOneChunk(f, c) /\ f \notin Groups(r, Names[c])
    <2>1. f \notin Halved(c, r)
      BY <1>5, <1>11
    <2>2. Of(f, Text[c]) \subseteq r.nodes \/ (InOneChunk(f, c) /\ Of(f, r.nodes) = {})
      BY <1>11, <2>1 DEF Halved, NodesIn
    <2>3. Of(f, Text[c]) \subseteq r.nodes => Of(f, r.nodes) = Of(f, Text[c])
      BY <1>6 DEF Of
    <2>. QED BY <1>2, <1>11, <2>2, <2>3 DEF Groups, NodesIn
  <1>12. \A f \in Files \ short' : f \in Groups(r, Names[c]) \ written => InOneChunk(f, c)
    BY <1>5
  <1>13. SemanticTypeOK'
    <2>1. entry' \in [Files -> CacheEntries \cup {Absent}]
      BY <1>5, <1>7, <1>8 DEF Checkpoint, SemanticTypeOK
    <2>2. r.nodes \subseteq Everything /\ r.partial \subseteq Files
      BY <1>2, <1>6, NamesIs
    <2>3. fresh' \in [nodes : SUBSET Everything, partial : SUBSET Files,
                      returned : BOOLEAN, missing : BOOLEAN]
      BY <1>5, <2>2 DEF SemanticTypeOK
    <2>4. kept' \subseteq Files /\ short' \subseteq Files
      BY <1>2, <1>5, <1>6 DEF SemanticTypeOK, Halved
    <2>. QED BY <1>1, <2>1, <2>3, <2>4 DEF SemanticTypeOK
  <1>14. ChunkInv'
    BY <1>1, <1>3 DEF ChunkInv
  <1>15. OwnInv'
    <2>1. \A f \in Files : entry'[f] # Absent => entry'[f].nodes \subseteq Whole[f]
      BY <1>2, <1>6, <1>7, <1>8 DEF OwnInv
    <2>2. fresh'.nodes \subseteq Past' /\ \A f \in fresh'.partial : Asked(f)'
      BY <1>1, <1>2, <1>6, <1>9 DEF OwnInv, SemanticTypeOK
    <2>. QED BY <2>1, <2>2 DEF OwnInv
  <1>16. HitInv'
    <2> SUFFICES ASSUME NEW f \in Files \ short', Hit(f)'
                 PROVE  \/ entry'[f].nodes = Whole[f]
                        \/ f \in Uncached' /\ Asked(f)' /\ entry'[f].nodes = Of(f, Past')
      BY <1>1 DEF HitInv
    <2>1. Hit(f) => \/ entry[f].nodes = Whole[f]
                    \/ f \in Uncached /\ Asked(f) /\ entry[f].nodes = Of(f, Past)
      BY <1>1, <1>10 DEF HitInv
    <2>2. CASE f \in written
      <3>1. f \in Names[c] /\ f \notin r.partial /\ (entry[f] = Absent \/ Hit(f))
        BY <1>6, <1>8, <2>2 DEF Hit
      <3>2. Of(f, r.nodes) = Of(f, Text[c])
        BY <1>6, <1>11, <2>2, <3>1
      <3>3. entry'[f].nodes = IF entry[f] = Absent THEN Of(f, Text[c])
                              ELSE Of(f, Text[c]) \cup entry[f].nodes
        BY <1>8, <2>2, <3>2
      <3>4. CASE entry[f] = Absent
        <4>1. CASE InOneChunk(f, c)
          BY <1>2, <3>3, <3>4, <4>1
        <4>2. CASE ~InOneChunk(f, c)
          <5>1. ~Asked(f)
            BY <1>1, <1>2, <1>10, <3>1, <3>4, <4>2 DEF NothingInv, Asked
          <5>. QED BY <1>2, <1>3, <3>1, <3>3, <3>4, <5>1
        <4>. QED BY <4>1, <4>2
      <3>5. CASE Hit(f)
        <4>1. Of(f, Text[c]) \subseteq Whole[f]
          BY <1>2
        <4>2. entry'[f].nodes = Of(f, Text[c]) \cup entry[f].nodes
          BY <3>3, <3>5 DEF Hit
        <4>3. CASE entry[f].nodes = Whole[f]
          BY <4>1, <4>2, <4>3
        <4>4. CASE f \in Uncached /\ Asked(f) /\ entry[f].nodes = Of(f, Past)
          BY <1>2, <1>3, <4>2, <4>4
        <4>. QED BY <2>1, <3>5, <4>3, <4>4
      <3>. QED BY <3>1, <3>4, <3>5
    <2>3. CASE f \notin written
      <3>1. Hit(f) /\ entry'[f] = entry[f]
        BY <1>7, <2>3 DEF Hit
      <3>2. CASE f \notin Names[c]
        BY <1>2, <1>3, <2>1, <3>1, <3>2
      <3>3. CASE f \in Names[c]
        <4>1. InOneChunk(f, c)
          BY <1>11, <1>12, <2>3, <3>3 DEF Groups
        <4>. QED BY <1>2, <2>1, <3>1, <4>1
      <3>. QED BY <3>2, <3>3
    <2>. QED BY <2>2, <2>3
  <1>17. NothingInv'
    <2> SUFFICES ASSUME NEW f \in Uncached \ short', entry'[f] = Absent,
                        NEW d \in done', f \in Names[d]
                 PROVE  InOneChunk(f, d)
      BY <1>1, <1>3 DEF NothingInv, InOneChunk
    <2>1. f \notin written /\ entry[f] = Absent
      BY <1>3, <1>7, <1>8
    <2>2. CASE d \in done
      BY <1>1, <1>10, <2>1, <2>2 DEF NothingInv
    <2>3. CASE d = c
      BY <1>3, <1>11, <1>12, <2>1, <2>3 DEF Groups
    <2>. QED BY <1>1, <2>2, <2>3
  <1>18. FreshInv'
    <2> SUFFICES ASSUME NEW f \in Uncached \ (short' \cup fresh'.partial)
                 PROVE  \/ Of(f, fresh'.nodes) = Of(f, Past')
                        \/ Of(f, fresh'.nodes) = {} /\ \E d \in done' : InOneChunk(f, d)
      BY <1>1, <1>3 DEF FreshInv, InOneChunk
    <2>1. \/ Of(f, fresh.nodes) = Of(f, Past)
          \/ Of(f, fresh.nodes) = {} /\ \E d \in done : InOneChunk(f, d)
      BY <1>1, <1>9, <1>10 DEF FreshInv
    <2>2. Of(f, fresh'.nodes) = Of(f, fresh.nodes) \cup Of(f, r.nodes)
      BY <1>9, OfIs
    <2>3. CASE f \notin Names[c]
      <3>1. Of(f, r.nodes) = {}
        BY <1>2, <1>3, <1>6, <2>3, OfIs
      <3>. QED BY <1>1, <1>2, <1>3, <2>1, <2>2, <2>3, <3>1
    <2>4. CASE f \in Names[c] /\ Of(f, r.nodes) = Of(f, Text[c])
      <3>1. Of(f, fresh.nodes) = Of(f, Past)
        BY <1>2, <1>3, <2>1, <2>4
      <3>. QED BY <1>2, <1>3, <2>2, <2>4, <3>1
    <2>5. CASE f \in Names[c] /\ Of(f, r.nodes) = {} /\ InOneChunk(f, c)
      <3>1. Of(f, fresh.nodes) = {}
        BY <1>1, <1>2, <1>3, <2>5, OfIs DEF OwnInv
      <3>. QED BY <1>1, <2>2, <2>5, <3>1
    <2>. QED BY <1>3, <1>9, <1>11, <2>3, <2>4, <2>5
  <1>19. KeptInv'
    <2> SUFFICES ASSUME NEW f \in kept'
                 PROVE  /\ Hit(f)' /\ entry'[f].nodes = Whole[f]
                        /\ f \in Uncached =>
                             /\ \E d \in done' : InOneChunk(f, d)
                             /\ Whole[f] \subseteq fresh'.nodes /\ f \notin fresh'.partial
      BY <1>1, <1>3 DEF KeptInv, InOneChunk
    <2>0. f \in Files
      BY <1>13 DEF SemanticTypeOK
    <2>1. CASE f \in kept
      <3>1. /\ Hit(f) /\ entry[f].nodes = Whole[f]
            /\ f \in Uncached => /\ \E d \in done : InOneChunk(f, d)
                                 /\ Whole[f] \subseteq fresh.nodes /\ f \notin fresh.partial
        BY <1>1, <2>1 DEF KeptInv
      <3>2. f \notin Names[c]
        BY <1>2, <2>0, <3>1
      <3>3. entry'[f] = entry[f]
        BY <1>6, <1>7, <2>0, <3>2
      <3>. QED BY <1>1, <1>6, <1>9, <3>1, <3>2, <3>3 DEF Hit
    <2>2. CASE f \in written \ r.partial /\ Whole[f] \subseteq r.nodes
                 /\ (entry[f] # Absent => ~entry[f].partial)
      <3>1. InOneChunk(f, c)
        BY <1>6, <2>2 DEF InOneChunk
      <3>2. Of(f, r.nodes) = Whole[f]
        BY <1>2, <1>6, <2>0, <2>2, <3>1, NamesIs, OfIs DEF Of
      <3>3. entry'[f].nodes = Whole[f]
        BY <1>3, <1>8, <2>2, <3>2
      <3>4. Hit(f)'
        BY <1>8, <2>2 DEF Hit
      <3>5. f \notin fresh.partial
        BY <1>1, <1>2, <2>0, <3>1 DEF OwnInv
      <3>. QED BY <1>1, <1>9, <2>2, <3>1, <3>3, <3>4, <3>5
    <2>. QED BY <1>5, <2>1, <2>2
  <1>20. SemInv' /\ GraphInv'
    BY <1>1, <1>10 DEF SemInv, GraphInv
  <1>. QED BY <1>13, <1>14, <1>15, <1>16, <1>17, <1>18, <1>19, <1>20

(* All the chunks of a run have ended.                                     *)
LEMMA DoneIs ==
  ASSUME SemanticTypeOK, ChunkInv, phase = "chunks", done = chunks
  PROVE  /\ Past \subseteq Everything
         /\ \A f \in Uncached : Of(f, Past) = Whole[f]
         /\ \A f \in Files \ Uncached : Of(f, Past) = {} /\ ~Asked(f)
  <1>1. done \in SUBSET Chunks /\ UNION done = {i \in DOMAIN Corpus : Corpus[i].file \in Uncached}
        /\ Uncached \subseteq Files
    BY DEF SemanticTypeOK, ChunkInv, Uncached
  <1>2. \A f \in Uncached : Of(f, Past) = Whole[f]
    BY <1>1, AllIs DEF Past
  <1>3. Past \subseteq Everything
    BY <1>1, NamesIs DEF Past
  <1>4. ASSUME NEW f \in Files \ Uncached PROVE Of(f, Past) = {} /\ ~Asked(f)
    <2>1. \A c \in done : f \notin Names[c]
      BY <1>1, AllIs
    <2>2. \A c \in done : Of(f, Text[c]) = {}
      BY <1>1, <2>1, NamesIs
    <2>. QED BY <2>1, <2>2 DEF Past, Asked, Of
  <1>. QED BY <1>2, <1>3, <1>4

(* Without a chunk, an exit leaves what was there before.                  *)
LEMMA SemanticAllFailedKeeps ==
  ASSUME SemanticInv, AllFailed
  PROVE  SemanticInv'
  <1> USE DEF SemanticInv
  <1>1. /\ phase = "chunks" /\ done = chunks /\ ExitRun
        /\ UNCHANGED <<entry, graph, stamped, runs, kept, short>>
    BY DEF AllFailed, store
  <1>2. phase' = "idle"
    BY <1>1 DEF ExitRun
  <1>3. SemanticTypeOK'
    BY <1>1 DEF ExitRun, SemanticTypeOK, NoFresh
  <1>4. HitInv'
    BY <1>1, <1>2, DoneIs DEF HitInv, Hit
  <1>5. ChunkInv' /\ OwnInv' /\ NothingInv' /\ FreshInv' /\ SemInv'
    BY <1>1, <1>2 DEF ChunkInv, OwnInv, NothingInv, FreshInv, SemInv
  <1>6. KeptInv' /\ GraphInv'
    BY <1>1, <1>2 DEF KeptInv, GraphInv, Hit
  <1>. QED BY <1>3, <1>4, <1>5, <1>6

LEMMA SemanticFinalSaveKeeps ==
  ASSUME SemanticInv, FinalSave
  PROVE  SemanticInv'
  <1> USE DEF SemanticInv
  <1>1. /\ phase = "chunks" /\ phase' = "write" /\ done = chunks
        /\ sem' = sem \cup fresh.nodes
        /\ allow' \in BOOLEAN /\ chunks' = {} /\ done' = {}
        /\ UNCHANGED <<graph, stamped, runs, merging, dispatched, hits, fresh, kept, short>>
    BY DEF FinalSave
  <1>2. PICK written \in Writes(Groups(fresh, Uncached)) :
          entry' = [f \in Files |-> IF f \in written THEN Replaced(f, fresh) ELSE entry[f]]
    BY DEF FinalSave
  <1>3. /\ Past \subseteq Everything
        /\ \A f \in Uncached : Of(f, Past) = Whole[f]
        /\ \A f \in Files \ Uncached : Of(f, Past) = {} /\ ~Asked(f)
    BY <1>1, DoneIs
  <1>4. Uncached \subseteq Files /\ Uncached = dispatched \ hits
    BY DEF Uncached, SemanticTypeOK
  <1>5. fresh.nodes \subseteq Past /\ fresh.nodes \subseteq Everything
    BY <1>1, <1>3 DEF OwnInv
  <1>6. \A f \in Files : Of(f, fresh.nodes) \subseteq Whole[f]
    BY <1>5, NamesIs, OfIs
  <1>7. \A f \in Files \ Uncached : Of(f, fresh.nodes) = {}
    BY <1>3, <1>5, OfIs
  <1>8. \A f \in Uncached \ (short \cup fresh.partial) : Of(f, fresh.nodes) \in {{}, Whole[f]}
    BY <1>1, <1>3 DEF FreshInv
  <1>9. ASSUME NEW f \in written
        PROVE  /\ f \in Uncached /\ entry'[f] \in CacheEntries /\ entry'[f] # Absent
               /\ entry'[f].nodes = Of(f, fresh.nodes)
               /\ ~entry'[f].partial <=> f \notin fresh.partial
               /\ f \notin fresh.partial => Of(f, fresh.nodes) # {}
    <2>1. f \in Uncached /\ (NodesIn(f, fresh.nodes) \/ f \in fresh.partial)
      BY DEF Writes, Groups
    <2>2. entry'[f] = Replaced(f, fresh)
      BY <1>2, <1>4, <2>1
    <2>3. Of(f, fresh.nodes) \subseteq Everything
      BY <1>5 DEF Of
    <2>4. Replaced(f, fresh) \in CacheEntries
      BY <2>3 DEF Replaced, CacheEntries
    <2>5. entry'[f] \in CacheEntries /\ entry'[f] # Absent
      BY <2>2, <2>4, AbsentAssumption
    <2>6. entry'[f].nodes = Of(f, fresh.nodes) /\ entry'[f].partial = (f \in fresh.partial)
      BY <2>2 DEF Replaced
    <2>. QED BY <2>1, <2>5, <2>6 DEF NodesIn
  <1>10. \A f \in Files \ written : entry'[f] = entry[f]
    BY <1>2
  <1>11. SemanticTypeOK'
    <2>1. entry' \in [Files -> CacheEntries \cup {Absent}]
      BY <1>2, <1>9, <1>10 DEF SemanticTypeOK
    <2>. QED BY <1>1, <1>5, <2>1 DEF SemanticTypeOK
  <1>12. ChunkInv' /\ NothingInv' /\ FreshInv'
    BY <1>1 DEF ChunkInv, NothingInv, FreshInv
  <1>13. OwnInv'
    BY <1>1, <1>4, <1>6, <1>9, <1>10 DEF OwnInv
  <1>14. HitInv'
    <2> SUFFICES ASSUME NEW f \in Files \ short, Hit(f)' PROVE entry'[f].nodes = Whole[f]
      BY <1>1 DEF HitInv
    <2>1. CASE f \in written
      BY <1>8, <1>9, <2>1 DEF Hit
    <2>2. CASE f \notin written
      BY <1>1, <1>3, <1>10, <2>2 DEF HitInv, Hit
    <2>. QED BY <2>1, <2>2
  <1>15. KeptInv'
    <2> SUFFICES ASSUME NEW f \in kept PROVE Hit(f)' /\ entry'[f].nodes = Whole[f]
      BY <1>1 DEF KeptInv
    <2>1. f \in Files /\ Hit(f) /\ entry[f].nodes = Whole[f]
      BY DEF KeptInv, SemanticTypeOK
    <2>2. CASE f \in written
      <3>1. Whole[f] \subseteq fresh.nodes /\ f \notin fresh.partial
        BY <1>1, <1>9, <2>2 DEF KeptInv
      <3>2. Of(f, fresh.nodes) = Whole[f]
        BY <1>6, <2>1, <3>1, NamesIs DEF Of
      <3>. QED BY <1>9, <2>2, <3>1, <3>2 DEF Hit
    <2>3. CASE f \notin written
      BY <1>10, <2>1, <2>3 DEF Hit
    <2>. QED BY <2>2, <2>3
  <1>16. SemInv'
    <2>1. \A f \in Files : Of(f, sem') = Of(f, sem) \cup Of(f, fresh.nodes)
      BY <1>1, OfIs
    <2>2. \A f \in Files : /\ f \notin hits => Of(f, sem) = {}
                           /\ f \notin short => Of(f, sem) \in {{}, Whole[f]}
      BY <1>1 DEF SemInv
    <2>3. \A f \in Files \ dispatched : Of(f, sem') = {}
      BY <1>4, <1>7, <2>1, <2>2 DEF SemanticTypeOK
    <2>4. \A f \in Files \ (short \cup fresh.partial) : Of(f, sem') \in {{}, Whole[f]}
      BY <1>4, <1>7, <1>8, <2>1, <2>2
    <2>. QED BY <1>1, <2>3, <2>4 DEF SemInv
  <1>17. GraphInv'
    BY <1>1 DEF GraphInv
  <1>. QED BY <1>11, <1>12, <1>13, <1>14, <1>15, <1>16, <1>17

(* An exit after the last chunk, by Refuse or KillRun: graph, entries and  *)
(* stamps stay.                                                            *)
LEMMA SemanticRefuseKeeps ==
  ASSUME SemanticInv, NEW clustered \in BOOLEAN, Refuse(clustered)
  PROVE  SemanticInv'
  <1> USE DEF SemanticInv
  <1>1. /\ phase = "write" /\ phase' = "idle" /\ ExitRun
        /\ UNCHANGED <<entry, graph, stamped, runs, kept, short>>
    BY DEF Refuse, store, ExitRun
  <1>2. SemanticTypeOK'
    BY <1>1 DEF ExitRun, SemanticTypeOK, NoFresh
  <1>3. ChunkInv' /\ OwnInv' /\ NothingInv' /\ FreshInv' /\ SemInv'
    BY <1>1 DEF ChunkInv, OwnInv, NothingInv, FreshInv, SemInv
  <1>4. HitInv' /\ KeptInv' /\ GraphInv'
    BY <1>1 DEF HitInv, KeptInv, GraphInv, Hit
  <1>. QED BY <1>2, <1>3, <1>4

(* build_merge replaces what the graph had of a file, or leaves it.        *)
LEMMA NewIs ==
  ASSUME SemanticTypeOK, NEW f \in Files
  PROVE  /\ New \subseteq Everything
         /\ NodesIn(f, sem) => Of(f, New) = Of(f, sem)
         /\ ~NodesIn(f, sem) => Of(f, New) \in {{}, Of(f, graph)}
  <1>1. New \subseteq Everything
    BY DEF New, SemanticTypeOK
  <1>2. CASE merging
    <2>1. Of(f, New) = Of(f, sem) \cup {p \in Of(f, graph) : ~NodesIn(f, sem)}
      BY <1>2 DEF New, Of
    <2>. QED BY <1>1, <2>1 DEF NodesIn
  <1>3. CASE ~merging
    BY <1>1, <1>3 DEF New, NodesIn
  <1>. QED BY <1>2, <1>3

LEMMA SemanticWriteKeeps ==
  ASSUME SemanticInv, NEW clustered \in BOOLEAN, WriteGraph(clustered)
  PROVE  SemanticInv'
  <1> USE DEF SemanticInv
  <1>1. /\ phase = "write" /\ phase' = "stamp" /\ graph' = New
        /\ UNCHANGED <<entry, stamped, runs, allow, merging, dispatched, hits, chunks,
                       done, fresh, sem, kept, short>>
    BY DEF WriteGraph, run
  <1>2. New \subseteq Everything
    BY DEF New, SemanticTypeOK
  <1>3. SemanticTypeOK'
    BY <1>1, <1>2 DEF SemanticTypeOK
  <1>4. ChunkInv' /\ OwnInv' /\ NothingInv' /\ FreshInv'
    BY <1>1 DEF ChunkInv, OwnInv, NothingInv, FreshInv
  <1>5. HitInv' /\ KeptInv' /\ SemInv'
    BY <1>1 DEF HitInv, KeptInv, SemInv, Hit
  <1>6. GraphInv'
    <2>1. ASSUME NEW f \in stamped \ short, f \notin dispatched
          PROVE  Of(f, graph') \in {{}, Whole[f]}
      <3>1. f \in Files /\ ~NodesIn(f, sem)
        BY <1>1, <2>1 DEF SemInv, SemanticTypeOK, NodesIn
      <3>2. Of(f, graph) \in {{}, Whole[f]}
        BY <1>1, <2>1 DEF GraphInv
      <3>. QED BY <1>1, <3>1, <3>2, NewIs
    <2>2. ASSUME NEW f \in Files, NodesIn(f, sem)
          PROVE  Of(f, graph') = Of(f, sem)
      BY <1>1, <2>2, NewIs
    <2>. QED BY <1>1, <2>1, <2>2 DEF GraphInv, NodesIn
  <1>. QED BY <1>3, <1>4, <1>5, <1>6

(* What is stamped is in the graph that has been written.                  *)
LEMMA StampableIs ==
  ASSUME SemanticInv, phase = "stamp", NEW f \in Stampable \ short
  PROVE  f \in Files /\ Of(f, graph) \in {{}, Whole[f]}
  <1>1. f \in Files /\ NodesIn(f, sem) /\ f \notin fresh.partial
    BY DEF Stampable
  <1>. QED BY <1>1 DEF SemanticInv, SemInv, GraphInv

LEMMA SemanticSaveManifestKeeps ==
  ASSUME SemanticInv, SaveManifest
  PROVE  SemanticInv'
  <1>1. /\ phase = "stamp" /\ phase' = "idle" /\ ExitRun
        /\ stamped' = (stamped \ dispatched) \cup Stampable
        /\ UNCHANGED <<entry, graph, runs, kept, short>>
    BY DEF SaveManifest, ExitRun
  <1>2. Stampable \subseteq Files
    BY DEF Stampable
  <1>3. \A f \in Stampable \ short : Of(f, graph) \in {{}, Whole[f]}
    BY <1>1, StampableIs
  <1> USE DEF SemanticInv
  <1>4. SemanticTypeOK'
    BY <1>1, <1>2 DEF ExitRun, SemanticTypeOK, NoFresh
  <1>5. ChunkInv' /\ OwnInv' /\ NothingInv' /\ FreshInv' /\ SemInv'
    BY <1>1 DEF ChunkInv, OwnInv, NothingInv, FreshInv, SemInv
  <1>6. HitInv' /\ KeptInv'
    BY <1>1 DEF HitInv, KeptInv, Hit
  <1>7. GraphInv'
    BY <1>1, <1>3 DEF GraphInv
  <1>. QED BY <1>4, <1>5, <1>6, <1>7

LEMMA SemanticKillKeeps ==
  ASSUME SemanticInv, KillRun
  PROVE  SemanticInv'
  <1> DEFINE Torn == IF phase = "chunks"
                     THEN {f \in Uncached : \E c \in done, d \in chunks \ done :
                                              f \in Names[c] \cap Names[d]}
                     ELSE {}
             Stuck == IF phase = "stamp" THEN (stamped \cap dispatched) \ Stampable ELSE {}
  <1>1. /\ phase \in {"chunks", "write", "stamp"} /\ phase' = "idle" /\ ExitRun
        /\ short' = short \cup Torn \cup Stuck
        /\ UNCHANGED <<entry, graph, stamped, runs, kept>>
    BY DEF KillRun, ExitRun, store, SemanticInv, SemanticTypeOK
  <1>2. \A f \in Stampable \ short : phase = "stamp" => Of(f, graph) \in {{}, Whole[f]}
    BY <1>1, StampableIs
  <1> USE DEF SemanticInv
  <1>3. Torn \subseteq Files /\ Stuck \subseteq Files /\ Uncached \subseteq Files
    BY DEF SemanticTypeOK, Uncached
  <1>4. SemanticTypeOK'
    BY <1>1, <1>3 DEF ExitRun, SemanticTypeOK, NoFresh
  <1>5. ChunkInv' /\ OwnInv' /\ NothingInv' /\ FreshInv' /\ SemInv'
    BY <1>1 DEF ChunkInv, OwnInv, NothingInv, FreshInv, SemInv
  <1>6. KeptInv'
    BY <1>1 DEF KeptInv, Hit
  <1>7. HitInv'
    <2> SUFFICES ASSUME NEW f \in Files \ short', Hit(f), entry[f].nodes # Whole[f]
                 PROVE  FALSE
      BY <1>1 DEF HitInv, Hit
    <2>1. phase = "chunks" /\ f \in Uncached /\ Asked(f) /\ entry[f].nodes = Of(f, Past)
      BY <1>1 DEF HitInv
    <2>2. \A d \in chunks \ done : f \notin Names[d]
      BY <1>1, <2>1 DEF Asked
    <2>3. \A d \in chunks : d \in Chunks /\ (f \notin Names[d] => Of(f, Text[d]) = {})
      BY <1>3, <2>1, NamesIs DEF SemanticTypeOK
    <2>4. Of(f, UNION {Text[d] : d \in chunks}) = Whole[f]
      BY <1>3, <2>1, <2>3, AllIs DEF ChunkInv
    <2>5. Of(f, UNION {Text[d] : d \in chunks}) \subseteq Of(f, Past)
      BY <2>2, <2>3 DEF Past, Of
    <2>6. Of(f, Past) \subseteq Whole[f]
      BY <2>1 DEF OwnInv, Hit
    <2>7. Whole[f] \subseteq Of(f, Past)
      BY <2>4, <2>5
    <2>. QED BY <2>1, <2>6, <2>7
  <1>8. GraphInv'
    <2> SUFFICES ASSUME NEW f \in stamped \ short' PROVE Of(f, graph) \in {{}, Whole[f]}
      BY <1>1 DEF GraphInv
    <2>1. CASE phase = "stamp" /\ f \in dispatched
      BY <1>1, <1>2, <2>1
    <2>2. CASE ~(phase = "stamp" /\ f \in dispatched)
      BY <1>1, <2>2 DEF GraphInv
    <2>. QED BY <2>1, <2>2
  <1>. QED BY <1>4, <1>5, <1>6, <1>7, <1>8

LEMMA SemanticNextInv == SemanticInv /\ [SemanticNext]_semanticVars => SemanticInv'
  <1> SUFFICES ASSUME SemanticInv, [SemanticNext]_semanticVars PROVE SemanticInv'
    OBVIOUS
  <1>1. ASSUME NEW force \in BOOLEAN, Begin(force) PROVE SemanticInv'
    BY <1>1, SemanticBeginKeeps
  <1>2. ASSUME NEW c \in chunks, Raised(c) PROVE SemanticInv'
    BY <1>2, SemanticRaisedKeeps
  <1>3. ASSUME NEW c \in chunks, Returned(c) PROVE SemanticInv'
    BY <1>3, SemanticReturnedKeeps
  <1>4. CASE AllFailed
    BY <1>4, SemanticAllFailedKeeps
  <1>5. CASE FinalSave
    BY <1>5, SemanticFinalSaveKeeps
  <1>6. ASSUME NEW clustered \in BOOLEAN, Refuse(clustered) PROVE SemanticInv'
    BY <1>6, SemanticRefuseKeeps
  <1>7. ASSUME NEW clustered \in BOOLEAN, WriteGraph(clustered) PROVE SemanticInv'
    BY <1>7, SemanticWriteKeeps
  <1>8. CASE SaveManifest
    BY <1>8, SemanticSaveManifestKeeps
  <1>9. CASE KillRun
    BY <1>9, SemanticKillKeeps
  <1>10. CASE UNCHANGED semanticVars
    BY <1>10 DEF SemanticInv, semanticVars, store, run, SemanticTypeOK, ChunkInv, OwnInv, HitInv,
                 NothingInv, FreshInv, KeptInv, SemInv, GraphInv, Past, Asked, Uncached, Hit
  <1>. QED BY <1>1, <1>2, <1>3, <1>4, <1>5, <1>6, <1>7, <1>8, <1>9, <1>10 DEF SemanticNext

-----------------------------------------------------------------------------
(* The inductive invariant: what a run has asked, what has come back, and  *)
(* what of it is in the cache, in memory, in the graph.                    *)
THEOREM SemanticInvariance == SemanticSpec => []SemanticInv
  BY SemanticInitInv, SemanticNextInv, PTL DEF SemanticSpec

(* The semantic cache, graph, stamps and the run keep their types.         *)
THEOREM SemanticTypeCorrect == SemanticSpec => []SemanticTypeOK
  <1>1. SemanticInv => SemanticTypeOK
    BY DEF SemanticInv
  <1>. QED BY <1>1, SemanticInvariance, PTL

(* An entry that later runs are served has the nodes of all of its file,   *)
(* however its slices were packed and in whatever order they ended.        *)
THEOREM HitsAreWholeHolds == SemanticSpec => []HitsAreWhole
  <1>1. SemanticInv => HitsAreWhole
    BY DEF SemanticInv, HitInv, HitsAreWhole
  <1>. QED BY <1>1, SemanticInvariance, PTL

(* A file stamped as done is in graph.json as a whole, or not at all.      *)
THEOREM StampedIsInTheGraphHolds == SemanticSpec => []StampedIsInTheGraph
  <1>1. SemanticInv => StampedIsInTheGraph
    BY DEF SemanticInv, GraphInv, StampedIsInTheGraph
  <1>. QED BY <1>1, SemanticInvariance, PTL

(* What a chunk has completed and checkpointed stays a hit.                *)
THEOREM CompletedChunksAreKeptHolds == SemanticSpec => []CompletedChunksAreKept
  <1>1. SemanticInv => CompletedChunksAreKept
    BY DEF SemanticInv, KeptInv, CompletedChunksAreKept
  <1>. QED BY <1>1, SemanticInvariance, PTL

(* Whatever the model answers, each piece that a chunk holds was read, or  *)
(* its file is marked or reported, or the chunk has raised.                *)
THEOREM AnswersAreAccountedHolds == SemanticSpec => []AnswersAreAccounted
  <1>1. SemanticInv => AnswersAreAccounted
    BY AttemptsAre DEF SemanticInv, SemanticTypeOK, AnswersAreAccounted
  <1>. QED BY <1>1, SemanticInvariance, PTL
=============================================================================
