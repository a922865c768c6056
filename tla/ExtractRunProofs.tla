-------------------------- MODULE ExtractRunProofs --------------------------
(***************************************************************************)
(* What ExtractRun promises, for any number of files, workers and edits,   *)
(* and whatever fails.                                                     *)
(***************************************************************************)
EXTENDS ExtractRun, TLAPS

Busy(w) == task[w] # None

(* There is a pool only while the caller waits for it. *)
PoolInv == /\ mpc # "pool" => NoPool
           /\ mpc = "scan" => failed = {} /\ uncached_work \cap todo = {}
           /\ mpc = "pool" => failed \cap todo = {} /\ todo \subseteq uncached_work

(* A future is pending, with one worker, or come to something: never two   *)
(* of them, and always one the caller still waits for.                     *)
FutureInv ==
  /\ pending \subseteq todo
  /\ \A f \in Files : completed[f] # None => f \in todo \ pending
  /\ \A w \in Workers : Busy(w) => /\ task[w] \in todo \ pending
                                   /\ completed[task[w]] = None
  /\ \A v, w \in Workers : Busy(v) /\ task[v] = task[w] => v = w
  /\ \A f \in Files : completed[f] = BrokenPool =>
       pending = {} /\ \A w \in Workers : ~Busy(w)

(* What a worker holds is of its own file. *)
WorkerInv ==
  \A w \in Workers :
    /\ Busy(w) <=> wpc[w] # "idle"
    /\ wpc[w] = "save" => result[w] \in Results /\ result[w].file = task[w]
    /\ wpc[w] # "save" => result[w] = None

(* A slot is empty exactly while somebody is to fill it. *)
SlotInv ==
  /\ mpc = "save" => current \in Results /\ current.file \in todo
  /\ mpc # "save" => current = None
  /\ mpc \in {"scan", "pool", "sequential", "save"} =>
       \A f \in todo : per_file[f] = None
  /\ mpc = "scan" => \A f \in uncached_work : per_file[f] = None
  /\ mpc = "pool" => \A f \in failed : per_file[f] = None
  /\ mpc \in {"scan", "pool"} => \A f \in Files :
       per_file[f] = None => f \in todo \cup uncached_work
  /\ mpc = "pool" => \A f \in Files : per_file[f] = None => f \in todo \cup failed
  /\ mpc \in {"sequential", "save"} => \A f \in Files :
       per_file[f] = None => f \in todo

(* Whatever is handed around under a file's name is of that file. *)
NameInv ==
  /\ \A f \in Files : per_file[f] # None =>
       per_file[f] \in Results /\ per_file[f].file = f
  /\ \A f \in Files : completed[f] \in Results => completed[f].file = f
  /\ \A f \in Files, c \in Contents : cache[f][c] # None => cache[f][c].file = f

(* An extraction not yet saved is of the content the file still has, or    *)
(* the file has slipped.                                                   *)
UnsavedInv ==
  /\ \A w \in Workers : wpc[w] = "save" /\ task[w] \notin slipped =>
       result[w].of = content[task[w]]
  /\ mpc = "save" /\ current.file \notin slipped =>
       current.of = content[current.file]

IInv == /\ TypeOK
        /\ PoolInv
        /\ FutureInv
        /\ WorkerInv
        /\ SlotInv
        /\ NameInv
        /\ UnsavedInv
        /\ EveryFileIsAnswered
        /\ CacheIsTrue

(* Nothing has been looked at yet. *)
LEMMA InitInv == Init => IInv
  BY NamesAssumption, BoundsAssumption, NoneAssumption
  DEF Init, IInv, NoPool, TypeOK, PoolInv, FutureInv, WorkerInv, SlotInv, NameInv, UnsavedInv,
      EveryFileIsAnswered, CacheIsTrue, Busy

(* A cached extraction is a result, and the file's own. *)
LEMMA LookupIs == ASSUME IInv, NEW f \in Files
                  PROVE  /\ Lookup(f) \in Good \cup {None}
                         /\ Lookup(f) \in Results \cup {None}
                         /\ Lookup(f) # None => Lookup(f).file = f
  <1>1. content[f] \in Contents /\ cache[f][content[f]] \in Good \cup {None}
    BY DEF IInv, TypeOK
  <1>2. Good \subseteq Results
    BY DEF Good, Results
  <1>. QED BY <1>1, <1>2 DEF IInv, NameInv, Lookup

(* What is saved goes under the content the file has, and it was extracted *)
(* from that content or the file has slipped.                              *)
LEMMA SaveIs ==
  ASSUME IInv, NEW r \in Results, Save(r), UNCHANGED <<content, slipped>>,
         r.file \notin slipped => r.of = content[r.file]
  PROVE  /\ cache' \in [Files -> [Contents -> Good \cup {None}]]
         /\ \A f \in Files, c \in Contents : cache'[f][c] # None => cache'[f][c].file = f
         /\ CacheIsTrue'
  <1> USE DEF IInv, TypeOK, NameInv, CacheIsTrue
  <1>1. CASE UNCHANGED cache
    BY <1>1
  <1>2. CASE Cacheable(r)
    <2>1. r.file \in Files /\ r \in Good
      BY <1>2 DEF Cacheable, Results, Good
    <2>2. cache' = [cache EXCEPT ![r.file][content[r.file]] = r]
      BY <1>2 DEF Save
    <2>3. \A f \in Files, c \in Contents :
            cache'[f][c] = IF f = r.file /\ c = content[f] THEN r ELSE cache[f][c]
      BY <2>1, <2>2
    <2>4. cache' \in [Files -> [Contents -> Good \cup {None}]]
      BY <2>1, <2>2
    <2>5. \A f \in Files, c \in Contents : cache'[f][c] # None => cache'[f][c].file = f
      BY <2>1, <2>3
    <2>6. CacheIsTrue'
      BY <2>1, <2>3
    <2>. QED BY <2>4, <2>5, <2>6
  <1>. QED BY <1>1, <1>2 DEF Save

(* A worker that ends its task leaves the future with its own result, or   *)
(* with none.                                                              *)
LEMMA CompleteKeeps ==
  ASSUME IInv, NEW w \in Workers, wpc[w] # "idle",
         NEW r \in Results \cup {Raised}, r \in Results => r.file = task[w],
         Complete(w, r), UNCHANGED <<content, caller, pending, edits, runs, slipped>>,
         cache' \in [Files -> [Contents -> Good \cup {None}]],
         \A f \in Files, c \in Contents : cache'[f][c] # None => cache'[f][c].file = f,
         CacheIsTrue'
  PROVE  IInv'
  <1> USE NamesAssumption, NoneAssumption DEF IInv, Complete, caller
  <1>0. task[w] \in Files /\ r # BrokenPool /\ Raised \notin Results
    BY DEF WorkerInv, Busy, TypeOK, Raised, BrokenPool, Results
  <1>1. TypeOK'
    BY <1>0 DEF TypeOK
  <1>2. PoolInv'
    BY DEF PoolInv, NoPool, WorkerInv, Busy, TypeOK
  <1>3. FutureInv'
    BY <1>0 DEF FutureInv, WorkerInv, Busy, TypeOK
  <1>4. WorkerInv' /\ UnsavedInv'
    BY DEF WorkerInv, UnsavedInv, Busy, TypeOK
  <1>5. SlotInv' /\ EveryFileIsAnswered'
    BY DEF SlotInv, EveryFileIsAnswered
  <1>6. NameInv'
    BY <1>0 DEF NameInv, TypeOK
  <1>. QED BY <1>1, <1>2, <1>3, <1>4, <1>5, <1>6

(* Only what is not saved yet notices an edit, and those files slip. *)
LEMMA EditKeeps == ASSUME IInv, NEW f \in Files, Edit(f) PROVE IInv'
  <1> USE NamesAssumption, BoundsAssumption, NoneAssumption DEF IInv, Edit, Unsaved, caller, pool
  <1>1. TypeOK'
    BY DEF TypeOK, PoolInv, FutureInv, WorkerInv, SlotInv, NameInv
  <1>2. PoolInv' /\ FutureInv'
    BY DEF PoolInv, FutureInv, WorkerInv, NoPool, Busy, TypeOK
  <1>3. WorkerInv' /\ UnsavedInv'
    BY DEF PoolInv, FutureInv, WorkerInv, UnsavedInv, SlotInv, NoPool, Busy, TypeOK
  <1>4. SlotInv' /\ EveryFileIsAnswered'
    BY DEF PoolInv, FutureInv, SlotInv, NameInv, EveryFileIsAnswered, TypeOK
  <1>5. NameInv' /\ CacheIsTrue'
    BY DEF NameInv, CacheIsTrue, UnsavedInv, WorkerInv, SlotInv, FutureInv, Busy, TypeOK
  <1>. QED BY <1>1, <1>2, <1>3, <1>4, <1>5

(* A call starts with every slot empty. *)
LEMMA StartKeeps == ASSUME IInv, Start PROVE IInv'
  <1> USE NamesAssumption, BoundsAssumption, NoneAssumption DEF IInv, Start, caller, pool
  <1>1. TypeOK'
    BY DEF TypeOK, PoolInv, NoPool
  <1>2. PoolInv' /\ FutureInv'
    BY DEF PoolInv, FutureInv, WorkerInv, NoPool, Busy, TypeOK
  <1>3. WorkerInv' /\ UnsavedInv'
    BY DEF PoolInv, FutureInv, WorkerInv, UnsavedInv, SlotInv, NoPool, Busy, TypeOK
  <1>4. SlotInv' /\ EveryFileIsAnswered'
    BY DEF PoolInv, FutureInv, SlotInv, NameInv, EveryFileIsAnswered, TypeOK
  <1>5. NameInv' /\ CacheIsTrue'
    BY DEF NameInv, CacheIsTrue, UnsavedInv, WorkerInv, SlotInv, FutureInv, Busy, TypeOK
  <1>. QED BY <1>1, <1>2, <1>3, <1>4, <1>5

(* A slot is filled from the cache, or the file is work. *)
LEMMA ScanKeeps == ASSUME IInv, NEW f \in Files, Scan(f) PROVE IInv'
  <1> USE NamesAssumption, BoundsAssumption, NoneAssumption DEF IInv, Scan, caller, pool
  <1>1. TypeOK'
    BY LookupIs DEF TypeOK
  <1>2. PoolInv' /\ FutureInv'
    BY DEF PoolInv, FutureInv, WorkerInv, NoPool, Busy, TypeOK
  <1>3. WorkerInv' /\ UnsavedInv'
    BY DEF PoolInv, FutureInv, WorkerInv, UnsavedInv, SlotInv, NoPool, Busy, TypeOK
  <1>4. SlotInv' /\ EveryFileIsAnswered'
    BY DEF PoolInv, FutureInv, SlotInv, NameInv, EveryFileIsAnswered, TypeOK
  <1>5. NameInv' /\ CacheIsTrue'
    BY LookupIs DEF NameInv, CacheIsTrue, TypeOK
  <1>. QED BY <1>1, <1>2, <1>3, <1>4, <1>5

(* All the work is submitted, or gone through here. *)
LEMMA SubmitKeeps == ASSUME IInv, Submit \/ Sequential PROVE IInv'
  <1> USE NamesAssumption, BoundsAssumption, NoneAssumption DEF IInv, Submit, Sequential, Unfinished, NoPool, caller, pool
  <1>1. TypeOK'
    BY DEF TypeOK, PoolInv, FutureInv, WorkerInv, SlotInv, NameInv
  <1>2. PoolInv' /\ FutureInv'
    BY DEF PoolInv, FutureInv, Busy, TypeOK
  <1>3. WorkerInv' /\ UnsavedInv'
    BY DEF PoolInv, FutureInv, WorkerInv, UnsavedInv, SlotInv, NoPool, Busy, TypeOK
  <1>4. SlotInv' /\ EveryFileIsAnswered'
    BY DEF SlotInv, EveryFileIsAnswered, TypeOK
  <1>5. NameInv' /\ CacheIsTrue'
    BY DEF NameInv, CacheIsTrue, UnsavedInv, WorkerInv, SlotInv, FutureInv, Busy, TypeOK
  <1>. QED BY <1>1, <1>2, <1>3, <1>4, <1>5

(* A future leaves the queue for one worker. *)
LEMMA TakeKeeps == ASSUME IInv, NEW w \in Workers, NEW f \in Files, Take(w, f) PROVE IInv'
  <1> USE NamesAssumption, BoundsAssumption, NoneAssumption DEF IInv, Take, caller, pool
  <1>1. TypeOK'
    BY DEF TypeOK, PoolInv, FutureInv, WorkerInv, SlotInv, NameInv
  <1>2. PoolInv' /\ FutureInv'
    BY DEF PoolInv, FutureInv, WorkerInv, NoPool, Busy, TypeOK
  <1>3. WorkerInv' /\ UnsavedInv'
    BY DEF PoolInv, FutureInv, WorkerInv, UnsavedInv, SlotInv, NoPool, Busy, TypeOK
  <1>4. SlotInv' /\ EveryFileIsAnswered'
    BY DEF PoolInv, FutureInv, SlotInv, NameInv, EveryFileIsAnswered, TypeOK
  <1>5. NameInv' /\ CacheIsTrue'
    BY DEF NameInv, CacheIsTrue, UnsavedInv, WorkerInv, SlotInv, FutureInv, Busy, TypeOK
  <1>. QED BY <1>1, <1>2, <1>3, <1>4, <1>5

(* The worker finds the entry of another call, or goes on. *)
LEMMA CheckKeeps == ASSUME IInv, NEW w \in Workers, Check(w) PROVE IInv'
  <1> USE NamesAssumption, NoneAssumption DEF Check
  <1>0. task[w] \in Files /\ wpc[w] = "check"
    BY DEF IInv, WorkerInv, Busy, TypeOK
  <1>1. CASE Lookup(task[w]) # None
    BY <1>0, <1>1, LookupIs, CompleteKeeps DEF IInv, TypeOK, NameInv, CacheIsTrue
  <1>2. CASE Lookup(task[w]) = None
    <2>1. wpc' = [wpc EXCEPT ![w] = "extract"]
      BY <1>2
    <2>2. UNCHANGED <<content, cache, caller, pending, completed, task, result, edits, runs, slipped>>
      BY <1>2
    <2> USE DEF IInv, caller
    <2> HIDE DEF Check
    <2>3. TypeOK' /\ FutureInv'
      BY <2>1, <2>2 DEF TypeOK, FutureInv, Busy
    <2>4. WorkerInv' /\ UnsavedInv'
      BY <1>0, <2>1, <2>2 DEF WorkerInv, UnsavedInv, Busy, TypeOK
    <2>5. SlotInv' /\ NameInv' /\ EveryFileIsAnswered' /\ CacheIsTrue'
      BY <2>2 DEF SlotInv, NameInv, EveryFileIsAnswered, CacheIsTrue
    <2>6. PoolInv'
      BY <1>0, <2>1, <2>2 DEF PoolInv, NoPool, WorkerInv, Busy, TypeOK
    <2>. QED BY <2>3, <2>4, <2>5, <2>6
  <1>. QED BY <1>1, <1>2

(* The extraction is of the content the file has now. *)
LEMMA ExtractKeeps == ASSUME IInv, NEW w \in Workers, Extract(w) PROVE IInv'
  <1> USE NamesAssumption, BoundsAssumption, NoneAssumption DEF IInv, Extract, Extraction, Results, caller, pool
  <1>1. TypeOK'
    BY DEF TypeOK, PoolInv, FutureInv, WorkerInv, SlotInv, NameInv
  <1>2. PoolInv' /\ FutureInv'
    BY DEF PoolInv, FutureInv, WorkerInv, NoPool, Busy, TypeOK
  <1>3. WorkerInv' /\ UnsavedInv'
    BY DEF PoolInv, FutureInv, WorkerInv, UnsavedInv, SlotInv, NoPool, Busy, TypeOK
  <1>4. SlotInv' /\ EveryFileIsAnswered'
    BY DEF PoolInv, FutureInv, SlotInv, NameInv, EveryFileIsAnswered, TypeOK
  <1>5. NameInv' /\ CacheIsTrue'
    BY DEF NameInv, CacheIsTrue, UnsavedInv, WorkerInv, SlotInv, FutureInv, Busy, TypeOK
  <1>. QED BY <1>1, <1>2, <1>3, <1>4, <1>5

(* An extraction goes under the content it was made of, or has slipped. *)
LEMMA WorkerSaveKeeps == ASSUME IInv, NEW w \in Workers, WorkerSave(w) PROVE IInv'
  <1>1. /\ result[w] \in Results /\ result[w].file = task[w]
        /\ task[w] \notin slipped => result[w].of = content[task[w]]
    BY DEF IInv, WorkerInv, UnsavedInv, WorkerSave
  <1>. QED BY <1>1, SaveIs, CompleteKeeps DEF WorkerSave

(* A task that raises leaves its future without a result. *)
LEMMA TaskRaisesKeeps == ASSUME IInv, NEW w \in Workers, TaskRaises(w) PROVE IInv'
  <1>1. Raised \notin Results
    BY NamesAssumption DEF Raised, Results
  <1>. QED BY <1>1, CompleteKeeps DEF TaskRaises, IInv, TypeOK, NameInv, CacheIsTrue

(* The break ends every future that is not completed, and every worker. *)
LEMMA PoolBreaksKeeps == ASSUME IInv, PoolBreaks PROVE IInv'
  <1> USE NamesAssumption, BoundsAssumption, NoneAssumption DEF IInv, PoolBreaks, caller, pool
  <1>1. TypeOK'
    BY DEF TypeOK, PoolInv, FutureInv, WorkerInv, SlotInv, NameInv
  <1>2. PoolInv' /\ FutureInv'
    BY DEF PoolInv, FutureInv, WorkerInv, NoPool, Busy, TypeOK
  <1>3. WorkerInv' /\ UnsavedInv'
    BY DEF PoolInv, FutureInv, WorkerInv, UnsavedInv, SlotInv, NoPool, Busy, TypeOK
  <1>4. SlotInv' /\ EveryFileIsAnswered'
    BY DEF PoolInv, FutureInv, SlotInv, NameInv, EveryFileIsAnswered, TypeOK
  <1>5. NameInv' /\ CacheIsTrue'
    <2>1. BrokenPool \notin Results
      BY DEF BrokenPool, Results
    <2>. QED BY <2>1 DEF NameInv, CacheIsTrue, TypeOK
  <1>. QED BY <1>1, <1>2, <1>3, <1>4, <1>5

(* A slot is filled with what its future came to. *)
LEMMA ConsumeKeeps == ASSUME IInv, NEW f \in Files, Consume(f) PROVE IInv'
  <1> USE NamesAssumption, BoundsAssumption, NoneAssumption DEF IInv, Consume, Drop, caller, pool
  <1>1. TypeOK'
    BY DEF TypeOK, PoolInv, FutureInv, WorkerInv, SlotInv, NameInv
  <1>2. PoolInv' /\ FutureInv'
    BY DEF PoolInv, FutureInv, WorkerInv, NoPool, Busy, TypeOK
  <1>3. WorkerInv' /\ UnsavedInv'
    BY DEF PoolInv, FutureInv, WorkerInv, UnsavedInv, SlotInv, NoPool, Busy, TypeOK
  <1>4. SlotInv' /\ EveryFileIsAnswered'
    BY DEF PoolInv, FutureInv, SlotInv, NameInv, EveryFileIsAnswered, TypeOK
  <1>5. NameInv' /\ CacheIsTrue'
    BY DEF NameInv, CacheIsTrue, UnsavedInv, WorkerInv, SlotInv, FutureInv, Busy, TypeOK
  <1>. QED BY <1>1, <1>2, <1>3, <1>4, <1>5

(* A failed future is remembered for the retry. *)
LEMMA FailedKeeps == ASSUME IInv, NEW f \in Files, Failed(f) PROVE IInv'
  <1> USE NamesAssumption, BoundsAssumption, NoneAssumption DEF IInv, Failed, Drop, caller, pool
  <1>1. TypeOK'
    BY DEF TypeOK, PoolInv, FutureInv, WorkerInv, SlotInv, NameInv
  <1>2. PoolInv' /\ FutureInv'
    BY DEF PoolInv, FutureInv, WorkerInv, NoPool, Busy, TypeOK
  <1>3. WorkerInv' /\ UnsavedInv'
    BY DEF PoolInv, FutureInv, WorkerInv, UnsavedInv, SlotInv, NoPool, Busy, TypeOK
  <1>4. SlotInv' /\ EveryFileIsAnswered'
    BY DEF PoolInv, FutureInv, SlotInv, NameInv, EveryFileIsAnswered, TypeOK
  <1>5. NameInv' /\ CacheIsTrue'
    BY DEF NameInv, CacheIsTrue, UnsavedInv, WorkerInv, SlotInv, FutureInv, Busy, TypeOK
  <1>. QED BY <1>1, <1>2, <1>3, <1>4, <1>5

(* The loop ends with nothing running, and what has no result is gone through. *)
LEMMA BrokenKeeps == ASSUME IInv, NEW f \in Files, Broken(f) PROVE IInv'
  <1> USE NamesAssumption, BoundsAssumption, NoneAssumption DEF IInv, Broken, Unfinished, NoPool, caller, pool
  <1>1. TypeOK'
    BY DEF TypeOK, PoolInv, FutureInv, WorkerInv, SlotInv, NameInv
  <1>2. PoolInv' /\ FutureInv'
    BY DEF PoolInv, FutureInv, WorkerInv, NoPool, Busy, TypeOK
  <1>3. WorkerInv' /\ UnsavedInv'
    BY DEF PoolInv, FutureInv, WorkerInv, UnsavedInv, SlotInv, NoPool, Busy, TypeOK
  <1>4. SlotInv' /\ EveryFileIsAnswered'
    BY DEF PoolInv, FutureInv, SlotInv, NameInv, EveryFileIsAnswered, TypeOK
  <1>5. NameInv' /\ CacheIsTrue'
    BY DEF NameInv, CacheIsTrue, UnsavedInv, WorkerInv, SlotInv, FutureInv, Busy, TypeOK
  <1>. QED BY <1>1, <1>2, <1>3, <1>4, <1>5

(* Every future is taken: nothing is pending, and no worker is busy. *)
LEMMA RetryKeeps == ASSUME IInv, Retry PROVE IInv'
  <1> USE NamesAssumption, BoundsAssumption, NoneAssumption DEF IInv, Retry, NoPool, caller, pool
  <1>1. TypeOK'
    BY DEF TypeOK, PoolInv, FutureInv, WorkerInv, SlotInv, NameInv
  <1>2. PoolInv' /\ FutureInv'
    BY DEF PoolInv, FutureInv, WorkerInv, NoPool, Busy, TypeOK
  <1>3. WorkerInv' /\ UnsavedInv'
    BY DEF PoolInv, FutureInv, WorkerInv, UnsavedInv, SlotInv, NoPool, Busy, TypeOK
  <1>4. SlotInv' /\ EveryFileIsAnswered'
    BY DEF PoolInv, FutureInv, SlotInv, NameInv, EveryFileIsAnswered, TypeOK
  <1>5. NameInv' /\ CacheIsTrue'
    BY DEF NameInv, CacheIsTrue, UnsavedInv, WorkerInv, SlotInv, FutureInv, Busy, TypeOK
  <1>. QED BY <1>1, <1>2, <1>3, <1>4, <1>5

(* The caller's own extraction, of the content the file has now. *)
LEMMA ExtractOneKeeps == ASSUME IInv, NEW f \in Files, ExtractOne(f) PROVE IInv'
  <1> USE NamesAssumption, BoundsAssumption, NoneAssumption DEF IInv, ExtractOne, Extraction, Results, caller, pool
  <1>1. TypeOK'
    BY DEF TypeOK, PoolInv, FutureInv, WorkerInv, SlotInv, NameInv
  <1>2. PoolInv' /\ FutureInv'
    BY DEF PoolInv, FutureInv, WorkerInv, NoPool, Busy, TypeOK
  <1>3. WorkerInv' /\ UnsavedInv'
    BY DEF PoolInv, FutureInv, WorkerInv, UnsavedInv, SlotInv, NoPool, Busy, TypeOK
  <1>4. SlotInv' /\ EveryFileIsAnswered'
    BY DEF PoolInv, FutureInv, SlotInv, NameInv, EveryFileIsAnswered, TypeOK
  <1>5. NameInv' /\ CacheIsTrue'
    BY DEF NameInv, CacheIsTrue, UnsavedInv, WorkerInv, SlotInv, FutureInv, Busy, TypeOK
  <1>. QED BY <1>1, <1>2, <1>3, <1>4, <1>5

(* The slot of the extracted file is filled, and its entry written. *)
LEMMA SaveOneKeeps == ASSUME IInv, SaveOne PROVE IInv'
  <1> USE NamesAssumption, BoundsAssumption, NoneAssumption DEF IInv, SaveOne, caller, pool
  <1>0. /\ current \in Results /\ current.file \in Files
        /\ current.file \notin slipped => current.of = content[current.file]
    BY DEF SlotInv, UnsavedInv, TypeOK, Results
  <1>1. TypeOK'
    BY <1>0, SaveIs DEF TypeOK, SlotInv
  <1>2. PoolInv' /\ FutureInv'
    BY DEF PoolInv, FutureInv, WorkerInv, NoPool, Busy, TypeOK
  <1>3. WorkerInv' /\ UnsavedInv'
    BY DEF PoolInv, FutureInv, WorkerInv, UnsavedInv, SlotInv, NoPool, Busy, TypeOK
  <1>4. SlotInv' /\ EveryFileIsAnswered'
    BY DEF PoolInv, FutureInv, SlotInv, NameInv, EveryFileIsAnswered, TypeOK
  <1>5. NameInv' /\ CacheIsTrue'
    BY <1>0, SaveIs DEF NameInv, TypeOK, SlotInv
  <1>. QED BY <1>1, <1>2, <1>3, <1>4, <1>5

(* An entry that cannot be written ends the call. *)
LEMMA SaveRaisesKeeps == ASSUME IInv, SaveRaises PROVE IInv'
  <1> USE NamesAssumption, BoundsAssumption, NoneAssumption DEF IInv, SaveRaises, NoPool, caller, pool
  <1>1. TypeOK'
    BY DEF TypeOK, PoolInv, FutureInv, WorkerInv, SlotInv, NameInv
  <1>2. PoolInv' /\ FutureInv'
    BY DEF PoolInv, FutureInv, WorkerInv, NoPool, Busy, TypeOK
  <1>3. WorkerInv' /\ UnsavedInv'
    BY DEF PoolInv, FutureInv, WorkerInv, UnsavedInv, SlotInv, NoPool, Busy, TypeOK
  <1>4. SlotInv' /\ EveryFileIsAnswered'
    BY DEF PoolInv, FutureInv, SlotInv, NameInv, EveryFileIsAnswered, TypeOK
  <1>5. NameInv' /\ CacheIsTrue'
    BY DEF NameInv, CacheIsTrue, UnsavedInv, WorkerInv, SlotInv, FutureInv, Busy, TypeOK
  <1>. QED BY <1>1, <1>2, <1>3, <1>4, <1>5

(* Nothing is left to fill. *)
LEMMA FillKeeps == ASSUME IInv, Fill PROVE IInv'
  <1> USE NamesAssumption, BoundsAssumption, NoneAssumption DEF IInv, Fill, NoPool, caller, pool
  <1>1. TypeOK'
    BY DEF TypeOK, PoolInv, FutureInv, WorkerInv, SlotInv, NameInv
  <1>2. PoolInv' /\ FutureInv'
    BY DEF PoolInv, FutureInv, WorkerInv, NoPool, Busy, TypeOK
  <1>3. WorkerInv' /\ UnsavedInv'
    BY DEF PoolInv, FutureInv, WorkerInv, UnsavedInv, SlotInv, NoPool, Busy, TypeOK
  <1>4. SlotInv' /\ EveryFileIsAnswered'
    BY DEF SlotInv, NameInv, Results, EveryFileIsAnswered, TypeOK
  <1>5. NameInv' /\ CacheIsTrue'
    BY DEF NameInv, CacheIsTrue, UnsavedInv, WorkerInv, SlotInv, FutureInv, Busy, TypeOK
  <1>. QED BY <1>1, <1>2, <1>3, <1>4, <1>5

(* Every step keeps the invariant. *)
LEMMA NextInv == IInv /\ [Next]_vars => IInv'
  <1> SUFFICES ASSUME IInv, [Next]_vars PROVE IInv'
    OBVIOUS
  <1>1. CASE Next
    <2>1. ASSUME Caller PROVE IInv'
      BY <2>1, ScanKeeps, SubmitKeeps, ConsumeKeeps, FailedKeeps, BrokenKeeps, RetryKeeps,
         ExtractOneKeeps, SaveOneKeeps, SaveRaisesKeeps, FillKeeps DEF Caller
    <2>2. ASSUME NEW w \in Workers, Worker(w) PROVE IInv'
      BY <2>2, TakeKeeps, CheckKeeps, ExtractKeeps, WorkerSaveKeeps, TaskRaisesKeeps DEF Worker
    <2>. QED BY <1>1, <2>1, <2>2, EditKeeps, StartKeeps, PoolBreaksKeeps DEF Next
  <1>2. CASE UNCHANGED vars
    BY <1>2 DEF vars, caller, pool, IInv, TypeOK, PoolInv, FutureInv, WorkerInv, SlotInv, NameInv,
       UnsavedInv, EveryFileIsAnswered, CacheIsTrue, NoPool, Busy
  <1>. QED BY <1>1, <1>2

(* The inductive invariant holds throughout; the theorems below are parts  *)
(* of it.                                                                  *)
THEOREM Invariance == Spec => []IInv
  BY InitInv, NextInv, PTL DEF Spec

(* Every variable of a call, of its pool and of the cache keeps its type,  *)
(* whatever fails.                                                         *)
THEOREM TypeCorrect == Spec => []TypeOK
  <1>1. IInv => TypeOK
    BY DEF IInv
  <1>. QED BY <1>1, Invariance, PTL

(* extract() returns a result of the very file for every file: the marker  *)
(* of a forgotten slot is unreachable.                                     *)
THEOREM EveryFileIsAnsweredHolds == Spec => []EveryFileIsAnswered
  <1>1. IInv => EveryFileIsAnswered
    BY DEF IInv
  <1>. QED BY <1>1, Invariance, PTL

(* The cache answers a content with what was extracted from it, but for    *)
(* files edited between an extraction and its save.                        *)
THEOREM CacheIsTrueHolds == Spec => []CacheIsTrue
  <1>1. IInv => CacheIsTrue
    BY DEF IInv
  <1>. QED BY <1>1, Invariance, PTL

(* No step of a call takes a result out of its slot, a broken pool's least *)
(* of all.                                                                 *)
THEOREM WorkIsKeptHolds == Spec => WorkIsKept
  <1> DEFINE Kept == runs' = runs => \A f \in Files : per_file[f] # None =>
                                        per_file'[f] = per_file[f]
  <1>1. IInv /\ [Next]_vars => [Kept]_vars
    <2> SUFFICES ASSUME IInv, Next PROVE Kept
      BY DEF vars, caller
    <2>1. ASSUME NEW f \in Files, Scan(f) \/ Consume(f) PROVE Kept
      BY <2>1 DEF IInv, Scan, Consume, SlotInv, TypeOK
    <2>2. ASSUME SaveOne \/ Fill PROVE Kept
      BY <2>2 DEF IInv, SaveOne, Fill, SlotInv, TypeOK, Results
    <2>3. ASSUME Start PROVE Kept
      BY <2>3, BoundsAssumption DEF IInv, Start, TypeOK
    <2>4. ASSUME NEW f \in Files, Failed(f) \/ Broken(f) \/ ExtractOne(f) \/ Edit(f) PROVE Kept
      BY <2>4 DEF Failed, Broken, ExtractOne, Edit, caller
    <2>5. ASSUME Submit \/ Sequential \/ Retry \/ SaveRaises \/ PoolBreaks PROVE Kept
      BY <2>5 DEF Submit, Sequential, Retry, SaveRaises, PoolBreaks, caller
    <2>6. ASSUME NEW w \in Workers, Worker(w) PROVE Kept
      BY <2>6 DEF Worker, Take, Check, Extract, WorkerSave, TaskRaises, caller
    <2>. QED BY <2>1, <2>2, <2>3, <2>4, <2>5, <2>6 DEF Next, Caller
  <1>. QED BY <1>1, Invariance, PTL DEF Spec, WorkIsKept
=============================================================================
