----------------------------- MODULE StatIndex ------------------------------
(***************************************************************************)
(* cache.py: the stat index behind file_hash and cached_word_count.  An    *)
(* entry holds a file's (size, mtime), the clock when its content was      *)
(* read, and several co-located values computed from that content: a       *)
(* digest per salt and the word count.  A value is served without reading  *)
(* the file while the signature matches and the entry is racily clean.     *)
(*                                                                         *)
(* A process binds the index of a cache root, loading its file, and        *)
(* flushes it when it switches to another root and at exit; several        *)
(* processes do so with no lock, the last to write winning.                *)
(*                                                                         *)
(* Entries of different files are independent: the model has one file.     *)
(* Its contents are numbered in the order they are written, so a value is  *)
(* the number of the content it was computed from.  The file system        *)
(* rounds the clock down to a multiple of Tick when it stamps an mtime.    *)
(***************************************************************************)
EXTENDS Integers

CONSTANTS Procs,
          Roots, NoRoot,   \* cache roots: places of a stat-index.json
          Values,          \* what is computed from the content: salts, words
          Counts,          \* those that are zero when the file cannot be read
          Sizes,           \* sizes a content may have
          None,
          Tick,            \* granularity of the file system's mtime
          Granularity,     \* _mtime_granularity_ns(): the assumed one
          MaxTime,         \* bound: the clock
          MaxContents      \* bound: contents written to the file

ASSUME NamesAssumption  == /\ NoRoot \notin Roots /\ None \notin Values
                           /\ Counts \subseteq Values
ASSUME ClockAssumption  == /\ Tick \in Nat \ {0}
                           /\ Granularity \in Nat
                           /\ Tick <= Granularity
ASSUME BoundsAssumption == MaxTime \in Nat /\ MaxContents \in Nat \ {0}

VARIABLES now,
          content, exists, size, mtime,  \* the file
          disk,      \* root -> the file's entry in its stat-index.json
          root,      \* process -> _stat_index_root
          index,     \* process -> its entry in _stat_index
          dirty,     \* process -> _stat_index_dirty
          pc, call,  \* process -> where it is; the value it is asked for
          st,        \* process -> the signature it read
          observed   \* process -> observed_at_ns

file == <<content, exists, size, mtime>>
proc == <<root, index, dirty>>
calls == <<pc, call, st, observed>>
vars == <<now, file, disk, proc, calls>>

Signatures == [size : Sizes, mtime : 0..MaxTime]

(* A value's number, 0 for the count of a file that has gone, with two     *)
(* ghosts: the root whose index it was computed for, and whether it was    *)
(* already read in a racy tick when the reading of another value renewed   *)
(* its entry's stamp.                                                      *)
Cells == [of : 0..MaxContents, for : Roots, renewed : BOOLEAN]
NoCell == [of |-> 0, for |-> NoRoot, renewed |-> FALSE]
Entries == [sig : Signatures, at : 0..MaxTime,
            values : [Values -> Cells \cup {NoCell}]]
NoEntry == [sig |-> [size |-> 0, mtime |-> -1], at |-> -1,
            values |-> [v \in Values |-> NoCell]]
NoSig == NoEntry.sig

Stamp(t) == t - (t % Tick)
Current == [size |-> size, mtime |-> mtime]

TypeOK ==
  /\ now \in 0..MaxTime
  /\ content \in 1..MaxContents /\ exists \in BOOLEAN
  /\ size \in Sizes /\ mtime \in 0..now
  /\ disk \in [Roots -> Entries \cup {NoEntry}]
  /\ root \in [Procs -> Roots \cup {NoRoot}]
  /\ index \in [Procs -> Entries \cup {NoEntry}]
  /\ dirty \in [Procs -> BOOLEAN]
  /\ pc \in [Procs -> {"idle", "stat", "observe", "read"}]
  /\ call \in [Procs -> Values \cup {None}]
  /\ st \in [Procs -> Signatures \cup {NoSig}]
  /\ observed \in [Procs -> 0..MaxTime]

Init ==
  /\ now = 0
  /\ content = 1 /\ exists = TRUE /\ size \in Sizes /\ mtime = 0
  /\ disk = [r \in Roots |-> NoEntry]
  /\ root = [p \in Procs |-> NoRoot]
  /\ index = [p \in Procs |-> NoEntry]
  /\ dirty = [p \in Procs |-> FALSE]
  /\ pc = [p \in Procs |-> "idle"]
  /\ call = [p \in Procs |-> None]
  /\ st = [p \in Procs |-> NoSig]
  /\ observed = [p \in Procs |-> 0]

-----------------------------------------------------------------------------
(* The world: time passes, the file is rewritten or deleted. *)

Advance ==
  /\ now < MaxTime
  /\ now' = now + 1
  /\ UNCHANGED <<file, disk, proc, calls>>

Write ==
  /\ content < MaxContents
  /\ content' = content + 1
  /\ exists' = TRUE
  /\ size' \in Sizes
  /\ mtime' = Stamp(now)
  /\ UNCHANGED <<now, disk, proc, calls>>

Delete ==
  /\ exists
  /\ exists' = FALSE
  /\ UNCHANGED <<now, content, size, mtime, disk, proc, calls>>

-----------------------------------------------------------------------------
(* Mutant of Fresh: a matching signature is enough. *)
FreshAnyTick(e, sig) == e.sig = sig

(* _stat_sig_fresh: the signature matches, and the content was read after  *)
(* the tick of its mtime had closed.                                       *)
Fresh(e, sig) == e.sig = sig /\ sig.mtime + Granularity <= e.at

(* _stat_entry_for: the entry itself when the signature still matches, a   *)
(* new one otherwise; either way stamped with this reading.                *)
EntryFor(e, sig, at) ==
  IF e.sig # sig
  THEN [sig |-> sig, at |-> at, values |-> [v \in Values |-> NoCell]]
  ELSE [e EXCEPT !.at = at,
                 !.values = [v \in Values |->
                   IF e.values[v] # NoCell /\ ~Fresh(e, sig)
                   THEN [e.values[v] EXCEPT !.renewed = TRUE]
                   ELSE e.values[v]]]

(* Mutant of FlushPath: the path of the root about to be bound (#3989). *)
FlushPathLive(p, next) == IF next = NoRoot THEN root[p] ELSE next

(* Where _flush_stat_index writes: the path taken when the root was bound. *)
FlushPath(p, next) == root[p]

(* _flush_stat_index: the entry is left out when its file is gone, and     *)
(* nothing is written when the index is clean, or the root is gone or      *)
(* cannot be written (OSError is passed over).                             *)
Flush(p, next) ==
  IF ~dirty[p] THEN {disk}
  ELSE {disk, [disk EXCEPT ![FlushPath(p, next)] =
                             IF exists THEN index[p] ELSE NoEntry]}

(* _ensure_stat_index: nothing when r is bound; otherwise the outgoing     *)
(* root is flushed, and r's file loaded unless it cannot be read.          *)
Ensure(p, r) ==
  \/ /\ root[p] = r
     /\ UNCHANGED <<disk, proc>>
  \/ /\ root[p] # r
     /\ disk' \in Flush(p, r)
     /\ root' = [root EXCEPT ![p] = r]
     /\ \E e \in {disk'[r], NoEntry} : index' = [index EXCEPT ![p] = e]
     /\ dirty' = [dirty EXCEPT ![p] = FALSE]

Goto(p, l) == pc' = [pc EXCEPT ![p] = l]

(* file_hash, cached_word_count: the file must be there (file_hash raises; *)
(* a count of a file without a signature is not kept).                     *)
Call(p, r, v) ==
  /\ pc[p] = "idle" /\ exists
  /\ Ensure(p, r)
  /\ call' = [call EXCEPT ![p] = v]
  /\ Goto(p, "stat")
  /\ UNCHANGED <<now, file, st, observed>>

Answer(p) ==
  /\ Goto(p, "idle")
  /\ call' = [call EXCEPT ![p] = None]
  /\ st' = [st EXCEPT ![p] = NoSig]
  /\ observed' = [observed EXCEPT ![p] = 0]

(* p.stat(), and the fastpath: one system call, then private memory. *)
Stat(p) ==
  /\ pc[p] = "stat" /\ exists
  /\ IF Fresh(index[p], Current) /\ index[p].values[call[p]] # NoCell
     THEN Answer(p)
     ELSE /\ st' = [st EXCEPT ![p] = Current]
          /\ Goto(p, "observe")
          /\ UNCHANGED <<call, observed>>
  /\ UNCHANGED <<now, file, disk, proc>>

(* observed_at_ns = time.time_ns(), before the content is read. *)
Observe(p) ==
  /\ pc[p] = "observe"
  /\ observed' = [observed EXCEPT ![p] = now]
  /\ Goto(p, "read")
  /\ UNCHANGED <<now, file, disk, proc, call, st>>

(* p.read_bytes() or compute(path), and the value put into the entry;      *)
(* compute comes to zero when the file has gone since it was found.        *)
Read(p) ==
  /\ pc[p] = "read" /\ (exists \/ call[p] \in Counts)
  /\ LET e == EntryFor(index[p], st[p], observed[p])
     IN  index' = [index EXCEPT ![p] =
           [e EXCEPT !.values[call[p]] =
             [of |-> IF exists THEN content ELSE 0, for |-> root[p],
              renewed |-> FALSE]]]
  /\ dirty' = [dirty EXCEPT ![p] = TRUE]
  /\ Answer(p)
  /\ UNCHANGED <<now, file, disk, root>>

(* The file disappears in the middle of a call, which leaves the index as  *)
(* it is: there is no signature, or the reading raises.                    *)
Vanished(p) ==
  /\ ~exists
  /\ pc[p] = "stat" \/ (pc[p] = "read" /\ call[p] \notin Counts)
  /\ Answer(p)
  /\ UNCHANGED <<now, file, disk, proc>>

Unbind(p) ==
  /\ root' = [root EXCEPT ![p] = NoRoot]
  /\ index' = [index EXCEPT ![p] = NoEntry]
  /\ dirty' = [dirty EXCEPT ![p] = FALSE]

(* The process ends and another takes its place: atexit flushes. *)
Exit(p) ==
  /\ pc[p] = "idle" /\ root[p] # NoRoot
  /\ disk' \in Flush(p, NoRoot)
  /\ Unbind(p)
  /\ UNCHANGED <<now, file, calls>>

(* It is killed, or is a pool worker, which ends without atexit. *)
Kill(p) ==
  /\ root[p] # NoRoot
  /\ Unbind(p)
  /\ Answer(p)
  /\ UNCHANGED <<now, file, disk>>

Next ==
  \/ Advance \/ Write \/ Delete
  \/ \E p \in Procs :
       \/ \E r \in Roots, v \in Values : Call(p, r, v)
       \/ Stat(p) \/ Observe(p) \/ Read(p) \/ Vanished(p)
       \/ Exit(p) \/ Kill(p)

Spec == Init /\ [][Next]_vars

-----------------------------------------------------------------------------
AllEntries == {index[p] : p \in Procs} \cup {disk[r] : r \in Roots}
Trusted(e) == exists /\ Fresh(e, Current)

(* What a call would be served without a reading was computed from the     *)
(* content the file has now, whoever wrote the entry and however often     *)
(* the file was rewritten within a tick; but for a value that was racy     *)
(* when the reading of another value renewed the stamp of both.            *)
ServedIsCurrent ==
  \A e \in AllEntries : Trusted(e) =>
    \A v \in Values : e.values[v] # NoCell =>
      e.values[v].of = content \/ e.values[v].renewed

(* The stat-index.json of a root holds what was computed under that root   *)
(* alone, though a process may switch roots and flush late (#3989).        *)
RootsKeepApart ==
  \A r \in Roots : \A v \in Values :
    disk[r].values[v] # NoCell => disk[r].values[v].for = r

(* cache.py:533: "two different contents can never share a digest".        *)
(* Expected to fail: _stat_entry_for renews the stamp of every value of    *)
(* the entry when it reads the content for one of them.                    *)
DigestsAreCurrent ==
  \A e \in AllEntries : Trusted(e) =>
    \A v \in Values : e.values[v] # NoCell => e.values[v].of = content
=============================================================================
