----------------------------- MODULE ExtractRun -----------------------------
(***************************************************************************)
(* extract.py extract(), phases 1 and 2: the files whose extraction the    *)
(* cache holds are served from it, the others go to a pool of worker       *)
(* processes, whose futures are taken as they complete, or are extracted   *)
(* one after another in the calling process.  A future that fails is       *)
(* retried there, and so is what a broken pool left undone.                *)
(*                                                                         *)
(* Workers and caller share the AST cache of cache.py, an entry for each   *)
(* file and content.  save_cached hashes the file anew, after it was       *)
(* extracted; files are edited, back and forth, at any time.  The digest   *)
(* of a content is the content here: StatIndex says when that may fail.    *)
(***************************************************************************)
EXTENDS FiniteSets, Integers

CONSTANTS Files,        \* paths an extractor exists for
          Uncached,     \* those with a suffix of _JS_CACHE_BYPASS_SUFFIXES
          Workers, Contents, None,
          MaxEdits,     \* bound: edits of the files
          MaxRuns,      \* bound: calls of extract()
          MayFail       \* extractors, workers, cache writes fail

ASSUME NamesAssumption ==
  /\ Uncached \subseteq Files
  /\ None \notin Files \cup Contents
ASSUME BoundsAssumption == MaxEdits \in Nat /\ MaxRuns \in Nat
ASSUME FaultsAssumption == MayFail \in BOOLEAN

VARIABLES content,   \* file -> its content
          cache,     \* file -> content -> cached extraction
          mpc,       \* where extract() is
          per_file,  \* file -> its result
          todo,      \* files the current loop of the caller has to go through
          uncached_work,
          current,   \* what the sequential loop has extracted, to be saved
          pending,   \* futures submitted and not started
          completed, \* file -> what its future has come to
          failed,    \* files whose future failed
          wpc, task, result,  \* worker -> where it is, its file, its result
          edits, runs,
          slipped    \* ghost: files edited between extraction and save

caller == <<mpc, per_file, todo, uncached_work, current, failed>>
pool == <<pending, completed, wpc, task, result>>
vars == <<content, cache, caller, pool, edits, runs, slipped>>

(* What an extractor makes of a content: nodes, a decline that says so     *)
(* (`skipped`), no node at all, or an error.                               *)
(* "internal" is the marker extract() fills a forgotten slot with.         *)
Results == [file : Files, of : Contents, kind : {"nodes", "skipped", "empty", "error"}]
Internal(f) == [file |-> f, of |-> None, kind |-> "internal"]
Good == [file : Files, of : Contents, kind : {"nodes", "skipped"}]
(* What a future comes to other than a result. *)
Raised == [file |-> None, of |-> None, kind |-> "raised"]
BrokenPool == [file |-> None, of |-> None, kind |-> "broken"]

(* Python's None is no dict. *)
ASSUME NoneAssumption ==
  None \notin Results \cup {Raised, BrokenPool} \cup {Internal(f) : f \in Files}

TypeOK ==
  /\ content \in [Files -> Contents]
  /\ cache \in [Files -> [Contents -> Good \cup {None}]]
  /\ mpc \in {"idle", "scan", "pool", "sequential", "save", "done", "raised"}
  /\ per_file \in [Files -> Results \cup {None} \cup {Internal(f) : f \in Files}]
  /\ todo \subseteq Files /\ uncached_work \subseteq Files
  /\ failed \subseteq uncached_work
  /\ current \in Results \cup {None}
  /\ pending \subseteq uncached_work
  /\ completed \in [Files -> Results \cup {None, Raised, BrokenPool}]
  /\ wpc \in [Workers -> {"idle", "check", "extract", "save"}]
  /\ task \in [Workers -> Files \cup {None}]
  /\ result \in [Workers -> Results \cup {None}]
  /\ edits \in 0..MaxEdits /\ runs \in 0..MaxRuns
  /\ slipped \subseteq Files

NoPool ==
  /\ pending = {}
  /\ completed = [f \in Files |-> None]
  /\ wpc = [w \in Workers |-> "idle"]
  /\ task = [w \in Workers |-> None]
  /\ result = [w \in Workers |-> None]

Init ==
  /\ content \in [Files -> Contents]
  /\ cache = [f \in Files |-> [c \in Contents |-> None]]
  /\ mpc = "idle"
  /\ per_file = [f \in Files |-> None]
  /\ todo = {} /\ uncached_work = {} /\ current = None /\ failed = {}
  /\ NoPool
  /\ edits = 0 /\ runs = 0
  /\ slipped = {}

-----------------------------------------------------------------------------
(* The user's editor. *)
Unsaved(f) == \/ \E w \in Workers : wpc[w] = "save" /\ task[w] = f
              \/ mpc = "save" /\ current.file = f

Edit(f) ==
  /\ edits < MaxEdits
  /\ edits' = edits + 1
  /\ \E c \in Contents \ {content[f]} : content' = [content EXCEPT ![f] = c]
  /\ slipped' = IF Unsaved(f) THEN slipped \cup {f} ELSE slipped
  /\ UNCHANGED <<cache, caller, pool, runs>>

-----------------------------------------------------------------------------
(* load_cached and save_cached, with the test both callers make of a       *)
(* result: an error, or no node, is never cached (#1666), a decline is    *)
(* (#3910).                                                                *)
Lookup(f) == IF f \in Uncached THEN None ELSE cache[f][content[f]]

Cacheable(r) == r.file \notin Uncached /\ r.kind \in {"nodes", "skipped"}

(* Mutant of Save: under a key of the path alone, for every content. *)
SaveByPath(r) ==
  IF Cacheable(r)
  THEN cache' = [cache EXCEPT ![r.file] = [c \in Contents |-> r]]
  ELSE UNCHANGED cache

Save(r) == IF Cacheable(r)
           THEN cache' = [cache EXCEPT ![r.file][content[r.file]] = r]
           ELSE UNCHANGED cache

Extraction(f) == {[file |-> f, of |-> content[f], kind |-> k] :
                   k \in {"nodes", "skipped"} \cup (IF MayFail THEN {"empty", "error"} ELSE {})}

-----------------------------------------------------------------------------
(* Phase 1 of a call. *)
Start ==
  /\ mpc \in {"idle", "done", "raised"} /\ runs < MaxRuns
  /\ runs' = runs + 1
  /\ mpc' = "scan"
  /\ todo' = Files
  /\ per_file' = [f \in Files |-> None]
  /\ uncached_work' = {} /\ failed' = {} /\ current' = None
  /\ UNCHANGED <<content, cache, pool, edits, slipped>>

Scan(f) ==
  /\ mpc = "scan" /\ f \in todo
  /\ todo' = todo \ {f}
  /\ per_file' = [per_file EXCEPT ![f] = Lookup(f)]
  /\ uncached_work' = IF Lookup(f) = None THEN uncached_work \cup {f}
                      ELSE uncached_work
  /\ UNCHANGED <<content, cache, mpc, current, failed, pool, edits, runs,
                 slipped>>

(* Phase 2: with enough work and more than one worker, the pool. *)
Submit ==
  /\ mpc = "scan" /\ todo = {} /\ uncached_work # {}
  /\ mpc' = "pool"
  /\ pending' = uncached_work
  /\ todo' = uncached_work
  /\ UNCHANGED <<content, cache, per_file, uncached_work, current, failed,
                 completed, wpc, task, result, edits, runs, slipped>>

(* Mutant of Unfinished: the whole batch again (#2444). *)
UnfinishedAll == uncached_work
Unfinished == {f \in uncached_work : per_file[f] = None}

(* No pool: too little work, one worker, or one that cannot start. *)
Sequential ==
  /\ mpc = "scan" /\ todo = {}
  /\ mpc' = "sequential"
  /\ todo' = Unfinished
  /\ UNCHANGED <<content, cache, per_file, uncached_work, current, failed,
                 pool, edits, runs, slipped>>

-----------------------------------------------------------------------------
(* _extract_single_file in a worker. *)
Take(w, f) ==
  /\ mpc = "pool" /\ wpc[w] = "idle" /\ f \in pending
  /\ pending' = pending \ {f}
  /\ task' = [task EXCEPT ![w] = f]
  /\ wpc' = [wpc EXCEPT ![w] = "check"]
  /\ UNCHANGED <<content, cache, caller, completed, result, edits, runs,
                 slipped>>

Complete(w, r) ==
  /\ completed' = [completed EXCEPT ![task[w]] = r]
  /\ task' = [task EXCEPT ![w] = None]
  /\ result' = [result EXCEPT ![w] = None]
  /\ wpc' = [wpc EXCEPT ![w] = "idle"]

Check(w) ==
  /\ wpc[w] = "check"
  /\ LET r == Lookup(task[w])
     IN  IF r # None THEN Complete(w, r)
         ELSE /\ wpc' = [wpc EXCEPT ![w] = "extract"]
              /\ UNCHANGED <<completed, task, result>>
  /\ UNCHANGED <<content, cache, caller, pending, edits, runs, slipped>>

Extract(w) ==
  /\ wpc[w] = "extract"
  /\ \E r \in Extraction(task[w]) : result' = [result EXCEPT ![w] = r]
  /\ wpc' = [wpc EXCEPT ![w] = "save"]
  /\ UNCHANGED <<content, cache, caller, pending, completed, task, edits, runs,
                 slipped>>

WorkerSave(w) ==
  /\ wpc[w] = "save"
  /\ Save(result[w])
  /\ Complete(w, result[w])
  /\ UNCHANGED <<content, caller, pending, edits, runs, slipped>>

(* The task raises: the entry cannot be written, memory runs out. *)
TaskRaises(w) ==
  /\ MayFail /\ wpc[w] # "idle"
  /\ Complete(w, Raised)
  /\ UNCHANGED <<content, cache, caller, pending, edits, runs, slipped>>

(* A worker process dies: the executor fails every future it has not       *)
(* completed and terminates the other workers.                             *)
PoolBreaks ==
  /\ MayFail /\ mpc = "pool"
  /\ \A f \in Files : completed[f] # BrokenPool
  /\ completed' = [f \in Files |->
       IF f \in pending \/ \E w \in Workers : task[w] = f THEN BrokenPool
       ELSE completed[f]]
  /\ pending' = {}
  /\ wpc' = [w \in Workers |-> "idle"]
  /\ task' = [w \in Workers |-> None]
  /\ result' = [w \in Workers |-> None]
  /\ UNCHANGED <<content, cache, caller, edits, runs, slipped>>

-----------------------------------------------------------------------------
(* The caller takes futures as they complete. *)
Drop(f) == completed' = [completed EXCEPT ![f] = None]

Consume(f) ==
  /\ mpc = "pool" /\ f \in todo
  /\ completed[f] \in Results
  /\ per_file' = [per_file EXCEPT ![f] = completed[f]]
  /\ todo' = todo \ {f}
  /\ Drop(f)
  /\ UNCHANGED <<content, cache, mpc, uncached_work, current, failed, pending,
                 wpc, task, result, edits, runs, slipped>>

(* Mutant of Failed: the failed future is still waited for. *)
FailedKept(f) ==
  /\ mpc = "pool" /\ f \in todo
  /\ completed[f] = Raised
  /\ failed' = failed \cup {f}
  /\ Drop(f)
  /\ UNCHANGED <<content, cache, mpc, per_file, todo, uncached_work, current,
                 pending, wpc, task, result, edits, runs, slipped>>

Failed(f) ==
  /\ mpc = "pool" /\ f \in todo
  /\ completed[f] = Raised
  /\ failed' = failed \cup {f}
  /\ todo' = todo \ {f}
  /\ Drop(f)
  /\ UNCHANGED <<content, cache, mpc, per_file, uncached_work, current, pending,
                 wpc, task, result, edits, runs, slipped>>

(* Mutant of Broken: a future's BrokenProcessPool is passed over (#2444). *)
BrokenSwallowed(f) ==
  /\ mpc = "pool" /\ f \in todo
  /\ completed[f] = BrokenPool
  /\ todo' = todo \ {f}
  /\ Drop(f)
  /\ UNCHANGED <<content, cache, mpc, per_file, uncached_work, current, failed,
                 pending, wpc, task, result, edits, runs, slipped>>

(* A broken future ends the loop: False is returned, and extract() goes    *)
(* through what has no result yet.                                         *)
Broken(f) ==
  /\ mpc = "pool" /\ f \in todo
  /\ completed[f] = BrokenPool
  /\ mpc' = "sequential"
  /\ todo' = Unfinished
  /\ completed' = [g \in Files |-> None]
  /\ UNCHANGED <<content, cache, per_file, uncached_work, current, failed,
                 pending, wpc, task, result, edits, runs, slipped>>

(* Every future taken: the failed ones are retried (#2445). *)
Retry ==
  /\ mpc = "pool" /\ todo = {}
  /\ mpc' = "sequential"
  /\ todo' = failed
  /\ UNCHANGED <<content, cache, per_file, uncached_work, current, failed, pool,
                 edits, runs, slipped>>

-----------------------------------------------------------------------------
(* _extract_sequential: the cache is not consulted again. *)
ExtractOne(f) ==
  /\ mpc = "sequential" /\ f \in todo
  /\ \E r \in Extraction(f) : current' = r
  /\ mpc' = "save"
  /\ UNCHANGED <<content, cache, per_file, todo, uncached_work, failed, pool,
                 edits, runs, slipped>>

SaveOne ==
  /\ mpc = "save"
  /\ Save(current)
  /\ per_file' = [per_file EXCEPT ![current.file] = current]
  /\ todo' = todo \ {current.file}
  /\ current' = None
  /\ mpc' = "sequential"
  /\ UNCHANGED <<content, uncached_work, failed, pool, edits, runs, slipped>>

(* The entry cannot be written: here nothing catches the exception. *)
SaveRaises ==
  /\ MayFail /\ mpc = "save" /\ Cacheable(current)
  /\ mpc' = "raised"
  /\ current' = None
  /\ UNCHANGED <<content, cache, per_file, todo, uncached_work, failed, pool,
                 edits, runs, slipped>>

(* Slots without a result get the error marker, and extract() goes on. *)
Fill ==
  /\ mpc = "sequential" /\ todo = {}
  /\ per_file' = [f \in Files |-> IF per_file[f] = None THEN Internal(f)
                                  ELSE per_file[f]]
  /\ mpc' = "done"
  /\ UNCHANGED <<content, cache, todo, uncached_work, current, failed, pool,
                 edits, runs, slipped>>

-----------------------------------------------------------------------------
Worker(w) == \/ \E f \in Files : Take(w, f)
             \/ Check(w) \/ Extract(w) \/ WorkerSave(w) \/ TaskRaises(w)

Caller == \/ \E f \in Files : \/ Scan(f) \/ Consume(f) \/ Failed(f) \/ Broken(f)
                              \/ ExtractOne(f)
          \/ Submit \/ Sequential \/ Retry \/ SaveOne \/ SaveRaises \/ Fill

Next == \/ \E f \in Files : Edit(f)
        \/ Start \/ Caller \/ PoolBreaks
        \/ \E w \in Workers : Worker(w)

Spec == Init /\ [][Next]_vars

(* The caller and each worker keep running; nothing has to fail. *)
FairSpec == /\ Spec
            /\ WF_vars(Caller)
            /\ \A w \in Workers : WF_vars(Worker(w))

-----------------------------------------------------------------------------
(* When extract() returns, each file has the result of an extraction of    *)
(* that very file: "this is unreachable", says extract.py:9706 of the      *)
(* marker, whichever futures failed and whenever the pool broke.           *)
EveryFileIsAnswered ==
  mpc = "done" =>
    \A f \in Files : per_file[f].file = f /\ per_file[f].kind # "internal"

(* A result once in its slot stays there until the call is over: a broken  *)
(* pool does not throw work away (#2444).                                  *)
WorkIsKept ==
  [][runs' = runs => \A f \in Files : per_file[f] # None =>
                                        per_file'[f] = per_file[f]]_vars

(* The cache holds under a content what was extracted from that content,   *)
(* but for files edited after an extraction and before its save, whose     *)
(* old extraction is kept under the digest of the new content.             *)
CacheIsTrue ==
  \A f \in Files \ slipped : \A c \in Contents :
    cache[f][c] # None => cache[f][c].file = f /\ cache[f][c].of = c

(* A call of extract() comes to an end, whatever fails. *)
CallsEnd == (mpc = "scan") ~> (mpc \in {"done", "raised"})
=============================================================================
