------------------------- MODULE FileManifestProofs -------------------------
(***************************************************************************)
(* What FileManifest promises, for any number of files and contents and    *)
(* any length of the clock's window.                                       *)
(***************************************************************************)
EXTENDS FileManifest, TLAPS

Busy(u) == user[u].pc # "idle"
Stamping(u) == user[u].pc = "stamp"
Replaced(u) == user[u].pc \in {"hash", "stamp"}

(* A row is taken after the mtime it has, and its semantic hash is of the  *)
(* contents its ast hash is of.                                            *)
Dated(row) == row # None => /\ row.mtime <= row.seen
                            /\ row.seen <= clock
                            /\ row.sem \in {None, row.ast}

(* A row of the mtime but not the contents on disk looks young. *)
Truthful(row, d) ==
  row # None /\ row.ast # None /\ row.mtime = d.mtime /\ row.ast # d.content =>
    row.seen >= d.mtime /\ row.seen - d.mtime < Window

RowInv == \A f \in Files : /\ disk[f].mtime <= clock
                           /\ Dated(rows[f])
                           /\ f \notin hidden => Truthful(rows[f], disk[f])

(* So are the rows a user has loaded, and what it hashed is not of the     *)
(* future.                                                                 *)
LoadedInv ==
  \A u \in Users : Stamping(u) => \A f \in Files :
    /\ Dated(user[u].loaded[f])
    /\ f \notin user[u].stale => Truthful(user[u].loaded[f], disk[f])
    /\ f \in Stamped(u) => user[u].hashed[f] \in Stats /\ user[u].hashed[f].mtime <= clock

(* What a user has in memory: what it extracted is still so, unless the    *)
(* file is `unseen`; what it did not try is to stay as in the graph.       *)
Consistent(u) ==
  /\ ~Busy(u) => user[u] = Idle
  /\ user[u].fresh \cap user[u].failed = {}
  /\ user[u].pc = "read" => user[u].fresh = {} /\ user[u].failed = {}
  /\ u = "update" /\ Busy(u) => user[u].todo \subseteq Code /\ user[u].merging
  /\ Busy(u) /\ ~user[u].merging => user[u].todo = Files
  /\ user[u].pc = "merge" => \A f \in Files \ user[u].fresh : user[u].cand[f] = None
  /\ user[u].pc = "write" => \A f \in Files \ user[u].fresh :
       user[u].cand[f] \in {None, user[u].base[f]}
  /\ user[u].pc = "write" => \A f \in Files \ user[u].todo :
       user[u].cand[f] = user[u].base[f]
  /\ user[u].pc \in {"merge", "write", "hash"} =>
       \A f \in user[u].fresh \ user[u].unseen : user[u].cand[f] = disk[f].content
  /\ Stamping(u) => \A f \in user[u].fresh \ user[u].unseen :
       user[u].cand[f] = user[u].hashed[f].content

UserInv == \A u \in Users : Consistent(u)

(* Two runs that overlap leave every file in `slipped`. *)
OverlapInv == \A u \in Users : Busy(u) /\ ~Alone(u) => slipped = Files

(* The row of a file outside `slipped` says done of what is in the graph,  *)
(* save while its run is between the two files.                            *)
Agree(f) == rows[f] # None /\ rows[f].sem # None /\ graph[f] # None => graph[f] = rows[f].sem

AgreeInv ==
  \A f \in Files \ slipped :
    (\A u \in Users : ~(Replaced(u) /\ f \in user[u].fresh)) => Agree(f)

(* A run that is alone sees the graph and the rows as they are. *)
AloneInv ==
  \A u \in Users, f \in Files \ slipped :
    /\ Replaced(u) /\ f \in user[u].fresh => graph[f] = user[u].cand[f]
    /\ user[u].pc = "write" => user[u].base[f] = graph[f]
    /\ Stamping(u) => /\ user[u].loaded[f] = rows[f]
                      /\ f \in user[u].stale <=> f \in hidden

(* What an extract leaves out as done is in the graph as it is on disk. *)
LeftOutInv ==
  \A f \in Files \ slipped :
    f \notin user["extract"].todo \cup user["extract"].unseen =>
      /\ user["extract"].pc \in {"read", "merge", "write", "hash"} /\ f \notin hidden =>
           graph[f] = disk[f].content
      /\ Stamping("extract") /\ f \notin hidden /\ f \in Stamped("extract") =>
           graph[f] = user["extract"].hashed[f].content

IInv == /\ TypeOK
        /\ RowInv
        /\ LoadedInv
        /\ UserInv
        /\ OverlapInv
        /\ AgreeInv
        /\ AloneInv
        /\ LeftOutInv

(* Nobody runs, and what the rows say done is in the graph. *)
LEMMA InitInv == Init => IInv
  <1> SUFFICES ASSUME Init PROVE IInv
    OBVIOUS
  <1> USE FilesAssumption, BoundsAssumption, NoneAssumption DEF Init
  <1>1. Idle \in Memories
    BY DEF Idle, Memories, Hashes
  <1>2. TypeOK
    <2>1. rows \in [Files -> Rows \cup {None}] /\ graph \in [Files -> Hashes]
      BY DEF Extracted, Rows, Hashes
    <2>. QED BY <1>1, <2>1 DEF TypeOK, Stats, Idle
  <1>3. RowInv
    BY DEF RowInv, Dated, Truthful, Extracted
  <1>4. LoadedInv /\ UserInv /\ OverlapInv
    BY DEF LoadedInv, UserInv, Consistent, OverlapInv, Busy, Stamping, Idle
  <1>5. AgreeInv /\ AloneInv /\ LeftOutInv
    BY DEF AgreeInv, Agree, AloneInv, LeftOutInv, Replaced, Stamping, Idle, Extracted, Users
  <1>. QED BY <1>2, <1>3, <1>4, <1>5 DEF IInv

-----------------------------------------------------------------------------
(* classify_manifest_files is right about a file that is not `hidden`: an  *)
(* old row of the mtime on disk is of the contents on disk.                *)
LEMMA VerdictIs ==
  ASSUME TypeOK, RowInv, NEW f \in Files \ hidden, NEW kind \in {"ast", "semantic"},
         ~Changed(f, kind)
  PROVE  rows[f] # None /\ disk[f].content = HashOf(f, kind) /\ rows[f].ast = disk[f].content
  <1>1. rows[f] # None /\ HashOf(f, kind) # None /\ rows[f] \in Rows
    BY DEF Changed, TypeOK
  <1>2. rows[f].sem \in {None, rows[f].ast}
    BY <1>1 DEF RowInv, Dated
  <1>3. HashOf(f, kind) = rows[f].ast
    BY <1>1, <1>2 DEF HashOf
  <1>4. CASE disk[f].mtime # rows[f].mtime \/ MayHideARewrite(f)
    BY <1>1, <1>3, <1>4 DEF Changed
  <1>5. CASE disk[f].mtime = rows[f].mtime /\ ~MayHideARewrite(f)
    BY <1>1, <1>3, <1>5 DEF RowInv, Truthful, MayHideARewrite
  <1>. QED BY <1>1, <1>3, <1>4, <1>5

-----------------------------------------------------------------------------
(* What each action makes of the memory of its user. *)

(* One user's memory changes, the other's does not. *)
LEMMA MemoryIs ==
  ASSUME TypeOK, NEW u \in Users, NEW m \in Memories, user' = [user EXCEPT ![u] = m]
  PROVE  /\ user' \in [Users -> Memories]
         /\ user'[u] = m
         /\ \A v \in Users \ {u} : user'[v] = user[v]
  BY DEF TypeOK

(* The types of what is compared. *)
LEMMA TimesAreNat ==
  /\ \A row \in Rows : row.mtime \in Nat /\ row.seen \in Nat
  /\ \A d \in Stats : d.mtime \in Nat
  BY BoundsAssumption DEF Rows, Stats

(* A run that ends forgets what it had, whichever way it ends. *)
LEMMA EndIs ==
  ASSUME TypeOK, NEW u \in Users, user' = [user EXCEPT ![u] = Idle]
  PROVE  /\ user' \in [Users -> Memories]
         /\ user'[u] = Idle
         /\ \A v \in Users \ {u} : user'[v] = user[v]
  <1>1. Idle \in Memories
    BY DEF Idle, Memories, Hashes
  <1>. QED BY <1>1, MemoryIs

(* A file edited under a run that has not hashed it yet is unseen. *)
LEMMA EditIs ==
  ASSUME TypeOK, NEW f \in Files, NEW c \in Contents, Edit(f, c)
  PROVE  /\ user' \in [Users -> Memories]
         /\ \A u \in Users :
              /\ user[u].pc \in {"idle", "stamp"} => user'[u] = user[u]
              /\ user[u].pc \notin {"idle", "stamp"} =>
                   user'[u].unseen = user[u].unseen \cup {f}
              /\ user'[u].pc = user[u].pc /\ user'[u].merging = user[u].merging
              /\ user'[u].todo = user[u].todo /\ user'[u].failed = user[u].failed
              /\ user'[u].fresh = user[u].fresh /\ user'[u].base = user[u].base
              /\ user'[u].cand = user[u].cand
  <1> DEFINE m(u) == IF user[u].pc \in {"idle", "stamp"} THEN user[u]
                     ELSE [user[u] EXCEPT !.unseen = @ \cup {f}]
  <1>1. \A u \in Users : user[u] \in Memories
    BY DEF TypeOK
  <1>2. \A u \in Users : m(u) \in Memories
    BY <1>1 DEF Memories
  <1>3. user' = [u \in Users |-> m(u)]
    BY DEF Edit
  <1> HIDE DEF m
  <1>4. user' \in [Users -> Memories] /\ \A u \in Users : user'[u] = m(u)
    BY <1>2, <1>3
  <1>5. ASSUME NEW u \in Users
        PROVE  /\ user[u].pc \in {"idle", "stamp"} => m(u) = user[u]
               /\ user[u].pc \notin {"idle", "stamp"} => m(u).unseen = user[u].unseen \cup {f}
               /\ m(u).pc = user[u].pc /\ m(u).merging = user[u].merging
               /\ m(u).todo = user[u].todo /\ m(u).failed = user[u].failed
               /\ m(u).fresh = user[u].fresh /\ m(u).base = user[u].base
               /\ m(u).cand = user[u].cand
    BY <1>1 DEF m, Memories
  <1>. QED BY <1>4, <1>5

(* An extract sets out. *)
LEMMA BeginIs ==
  ASSUME TypeOK, NEW force \in BOOLEAN, Begin(force)
  PROVE  /\ user' \in [Users -> Memories]
         /\ \A v \in Users \ {"extract"} : user'[v] = user[v]
         /\ user'["extract"].pc = "read"
         /\ user'["extract"].merging = (HasGraph /\ ~force)
         /\ user'["extract"].todo = (IF HasGraph /\ ~force
             THEN {f \in Files : Changed(f, "semantic") \/ graph[f] = None} ELSE Files)
         /\ user'["extract"].failed = user["extract"].failed /\ user'["extract"].fresh = user["extract"].fresh
         /\ user'["extract"].unseen = user["extract"].unseen /\ user'["extract"].base = user["extract"].base
         /\ user'["extract"].cand = user["extract"].cand /\ user'["extract"].loaded = user["extract"].loaded
         /\ user'["extract"].hashed = user["extract"].hashed /\ user'["extract"].stale = user["extract"].stale
  <1> DEFINE m == [user["extract"] EXCEPT !.pc = "read",
           !.merging = (HasGraph /\ ~force),
           !.todo = (IF HasGraph /\ ~force
             THEN {f \in Files : Changed(f, "semantic") \/ graph[f] = None} ELSE Files)]
  <1>1. user["extract"] \in Memories /\ "extract" \in Users
    BY DEF TypeOK, Users
  <1>2. (HasGraph /\ ~force) \in BOOLEAN
    BY DEF HasGraph
  <1>3. m \in Memories
    BY <1>1, <1>2 DEF Memories
  <1>4. user' = [user EXCEPT !["extract"] = m]
    BY <1>1 DEF Begin, TypeOK
  <1>5. user' \in [Users -> Memories] /\ user'["extract"] = m
        /\ \A v \in Users \ {"extract"} : user'[v] = user[v]
    BY <1>1, <1>3, <1>4, MemoryIs
  <1>. QED BY <1>1, <1>5 DEF Memories

(* A rebuild sets out. *)
LEMMA BeginUpdateIs ==
  ASSUME TypeOK, NEW S \in SUBSET Code, BeginUpdate(S)
  PROVE  /\ user' \in [Users -> Memories]
         /\ \A v \in Users \ {"update"} : user'[v] = user[v]
         /\ user'["update"].pc = "read"
         /\ user'["update"].merging = TRUE
         /\ user'["update"].todo = S
         /\ user'["update"].failed = user["update"].failed /\ user'["update"].fresh = user["update"].fresh
         /\ user'["update"].unseen = user["update"].unseen /\ user'["update"].base = user["update"].base
         /\ user'["update"].cand = user["update"].cand /\ user'["update"].loaded = user["update"].loaded
         /\ user'["update"].hashed = user["update"].hashed /\ user'["update"].stale = user["update"].stale
  <1> DEFINE m == [user["update"] EXCEPT !.pc = "read",
           !.merging = TRUE,
           !.todo = S]
  <1>1. user["update"] \in Memories /\ "update" \in Users
    BY DEF TypeOK, Users
  <1>2. S \in SUBSET Files
    BY DEF Files
  <1>3. m \in Memories
    BY <1>1, <1>2 DEF Memories
  <1>4. user' = [user EXCEPT !["update"] = m]
    BY <1>1 DEF BeginUpdate, TypeOK
  <1>5. user' \in [Users -> Memories] /\ user'["update"] = m
        /\ \A v \in Users \ {"update"} : user'[v] = user[v]
    BY <1>1, <1>3, <1>4, MemoryIs
  <1>. QED BY <1>1, <1>5 DEF Memories

(* What is extracted is of the disk as it is read. *)
LEMMA ReadIs ==
  ASSUME TypeOK, NEW u \in Users, Read(u)
  PROVE  /\ user' \in [Users -> Memories]
         /\ \A v \in Users \ {u} : user'[v] = user[v]
         /\ user'[u].pc = "merge"
         /\ user'[u].failed \cup user'[u].fresh \subseteq user[u].todo
         /\ user'[u].failed \cap user'[u].fresh = {}
         /\ user'[u].unseen = user[u].unseen \ user[u].todo
         /\ \A f \in Files : user'[u].cand[f] =
              IF f \in user'[u].fresh THEN disk[f].content ELSE None
         /\ user'[u].todo = user[u].todo /\ user'[u].merging = user[u].merging
         /\ user'[u].base = user[u].base /\ user'[u].loaded = user[u].loaded
         /\ user'[u].hashed = user[u].hashed /\ user'[u].stale = user[u].stale
  <1>1. user[u] \in Memories
    BY DEF TypeOK
  <1>2. PICK F \in IF MayFail THEN SUBSET user[u].todo ELSE {{}},
             crash \in IF MayFail /\ u = "extract" THEN BOOLEAN ELSE {FALSE} :
          user' = [user EXCEPT ![u].pc = "merge",
                     ![u].failed = IF crash THEN F \ Code ELSE F,
                     ![u].fresh = user[u].todo \ (F \cup (IF crash THEN Code ELSE {})),
                     ![u].unseen = @ \ user[u].todo,
                     ![u].cand = [f \in Files |->
                        IF f \in user[u].todo \ (F \cup (IF crash THEN Code ELSE {}))
                        THEN disk[f].content ELSE None]]
    BY DEF Read
  <1> DEFINE new == user[u].todo \ (F \cup (IF crash THEN Code ELSE {}))
             bad == IF crash THEN F \ Code ELSE F
             cand == [f \in Files |-> IF f \in new THEN disk[f].content ELSE None]
             m == [user[u] EXCEPT !.pc = "merge", !.failed = bad, !.fresh = new,
                                  !.unseen = user[u].unseen \ user[u].todo, !.cand = cand]
  <1>3. F \subseteq user[u].todo /\ new \in SUBSET Files /\ bad \in SUBSET Files
    BY <1>1 DEF Memories
  <1>4. cand \in [Files -> Hashes]
    BY DEF TypeOK, Stats, Hashes
  <1>5. new \cup bad \subseteq user[u].todo /\ new \cap bad = {}
    BY <1>3
  <1>6. user' = [user EXCEPT ![u] = m]
    BY <1>2 DEF TypeOK
  <1>7. \A f \in Files : cand[f] = IF f \in new THEN disk[f].content ELSE None
    OBVIOUS
  <1> HIDE DEF new, bad, cand
  <1>8. m \in Memories
    BY <1>1, <1>3, <1>4 DEF Memories
  <1>9. user' \in [Users -> Memories] /\ user'[u] = m
        /\ \A v \in Users \ {u} : user'[v] = user[v]
    BY <1>6, <1>8, MemoryIs
  <1>. QED BY <1>1, <1>5, <1>7, <1>9 DEF Memories

(* What was not tried is taken from the graph. *)
LEMMA MergeIs ==
  ASSUME TypeOK, NEW u \in Users, Merge(u)
  PROVE  /\ user' \in [Users -> Memories]
         /\ \A v \in Users \ {u} : user'[v] = user[v]
         /\ user'[u].pc = "write"
         /\ user'[u].base = graph
         /\ \A f \in Files : user'[u].cand[f] =
              IF f \in user[u].fresh \cup (user[u].failed \cap Code) \/ ~user[u].merging
              THEN user[u].cand[f] ELSE graph[f]
         /\ user'[u].merging = user[u].merging /\ user'[u].todo = user[u].todo
         /\ user'[u].failed = user[u].failed /\ user'[u].fresh = user[u].fresh
         /\ user'[u].unseen = user[u].unseen /\ user'[u].loaded = user[u].loaded
         /\ user'[u].hashed = user[u].hashed /\ user'[u].stale = user[u].stale
  <1> DEFINE cand == [f \in Files |->
                        IF f \in user[u].fresh \cup (user[u].failed \cap Code) \/ ~user[u].merging
                        THEN user[u].cand[f] ELSE graph[f]]
             m == [user[u] EXCEPT !.pc = "write", !.base = graph, !.cand = cand]
  <1>1. user[u] \in Memories
    BY DEF TypeOK
  <1>2. cand \in [Files -> Hashes] /\ graph \in [Files -> Hashes]
    BY <1>1 DEF Memories, TypeOK
  <1>3. user' = [user EXCEPT ![u] = m]
    BY DEF Merge, TypeOK
  <1>4. \A f \in Files : cand[f] =
          IF f \in user[u].fresh \cup (user[u].failed \cap Code) \/ ~user[u].merging
          THEN user[u].cand[f] ELSE graph[f]
    OBVIOUS
  <1> HIDE DEF cand
  <1>5. m \in Memories
    BY <1>1, <1>2 DEF Memories
  <1>6. user' \in [Users -> Memories] /\ user'[u] = m
        /\ \A v \in Users \ {u} : user'[v] = user[v]
    BY <1>3, <1>5, MemoryIs
  <1>. QED BY <1>1, <1>4, <1>6 DEF Memories

(* The graph is written; the base has served. *)
LEMMA WriteIs ==
  ASSUME TypeOK, NEW u \in Users, Write(u)
  PROVE  /\ user' \in [Users -> Memories]
         /\ \A v \in Users \ {u} : user'[v] = user[v]
         /\ user'[u].pc = "hash"
         /\ user'[u].base = Idle.base
         /\ user'[u].merging = user[u].merging /\ user'[u].todo = user[u].todo
         /\ user'[u].failed = user[u].failed /\ user'[u].fresh = user[u].fresh
         /\ user'[u].unseen = user[u].unseen /\ user'[u].cand = user[u].cand
         /\ user'[u].loaded = user[u].loaded /\ user'[u].hashed = user[u].hashed
         /\ user'[u].stale = user[u].stale
  <1> DEFINE m == [user[u] EXCEPT !.pc = "hash",
           !.base = Idle.base]
  <1>1. user[u] \in Memories /\ u \in Users
    BY DEF TypeOK, Users
  <1>2. Idle.base \in [Files -> Hashes]
    BY DEF Idle, Hashes
  <1>3. m \in Memories
    BY <1>1, <1>2 DEF Memories
  <1>4. user' = [user EXCEPT ![u] = m]
    BY <1>1 DEF Write, TypeOK
  <1>5. user' \in [Users -> Memories] /\ user'[u] = m
        /\ \A v \in Users \ {u} : user'[v] = user[v]
    BY <1>1, <1>3, <1>4, MemoryIs
  <1>. QED BY <1>1, <1>5 DEF Memories

(* The graph is left alone; the base has served. *)
LEMMA UntouchedIs ==
  ASSUME TypeOK, Untouched
  PROVE  /\ user' \in [Users -> Memories]
         /\ \A v \in Users \ {"update"} : user'[v] = user[v]
         /\ user'["update"].pc = "hash"
         /\ user'["update"].base = Idle.base
         /\ user'["update"].merging = user["update"].merging /\ user'["update"].todo = user["update"].todo
         /\ user'["update"].failed = user["update"].failed /\ user'["update"].fresh = user["update"].fresh
         /\ user'["update"].unseen = user["update"].unseen /\ user'["update"].cand = user["update"].cand
         /\ user'["update"].loaded = user["update"].loaded /\ user'["update"].hashed = user["update"].hashed
         /\ user'["update"].stale = user["update"].stale
  <1> DEFINE m == [user["update"] EXCEPT !.pc = "hash",
           !.base = Idle.base]
  <1>1. user["update"] \in Memories /\ "update" \in Users
    BY DEF TypeOK, Users
  <1>2. Idle.base \in [Files -> Hashes]
    BY DEF Idle, Hashes
  <1>3. m \in Memories
    BY <1>1, <1>2 DEF Memories
  <1>4. user' = [user EXCEPT !["update"] = m]
    BY <1>1 DEF Untouched, TypeOK
  <1>5. user' \in [Users -> Memories] /\ user'["update"] = m
        /\ \A v \in Users \ {"update"} : user'[v] = user[v]
    BY <1>1, <1>3, <1>4, MemoryIs
  <1>. QED BY <1>1, <1>5 DEF Memories

(* The manifest is loaded and every file of it hashed. *)
LEMMA HashIs ==
  ASSUME TypeOK, NEW u \in Users, Hash(u)
  PROVE  /\ user' \in [Users -> Memories]
         /\ \A v \in Users \ {u} : user'[v] = user[v]
         /\ user'[u].pc = "stamp"
         /\ user'[u].loaded = rows
         /\ user'[u].hashed = [f \in Files |-> IF f \in Stamped(u) THEN disk[f] ELSE None]
         /\ user'[u].stale = hidden
         /\ user'[u].merging = user[u].merging /\ user'[u].todo = user[u].todo
         /\ user'[u].failed = user[u].failed /\ user'[u].fresh = user[u].fresh
         /\ user'[u].unseen = user[u].unseen /\ user'[u].base = user[u].base
         /\ user'[u].cand = user[u].cand
  <1> DEFINE m == [user[u] EXCEPT !.pc = "stamp",
           !.loaded = rows,
           !.hashed = [f \in Files |-> IF f \in Stamped(u) THEN disk[f] ELSE None],
           !.stale = hidden]
  <1>1. user[u] \in Memories /\ u \in Users
    BY DEF TypeOK, Users
  <1>2. /\ [f \in Files |-> IF f \in Stamped(u) THEN disk[f] ELSE None] \in [Files -> Stats \cup {None}]
        /\ rows \in [Files -> Rows \cup {None}] /\ hidden \in SUBSET Files
    BY DEF TypeOK
  <1>3. m \in Memories
    BY <1>1, <1>2 DEF Memories
  <1>4. user' = [user EXCEPT ![u] = m]
    BY <1>1 DEF Hash, TypeOK
  <1>5. user' \in [Users -> Memories] /\ user'[u] = m
        /\ \A v \in Users \ {u} : user'[v] = user[v]
    BY <1>1, <1>3, <1>4, MemoryIs
  <1>. QED BY <1>1, <1>5 DEF Memories

-----------------------------------------------------------------------------
(* What save_manifest writes. *)

(* The files of a stamped row, and what was hashed of them. *)
LEMMA StampedIs ==
  ASSUME IInv, NEW u \in Users, Stamping(u)
  PROVE  /\ Stamped(u) \subseteq Files
         /\ user[u].fresh \subseteq Stamped(u)
         /\ u = "extract" => Stamped(u) \ user[u].fresh \subseteq Code
         /\ \A f \in Stamped(u) : /\ user[u].hashed[f] \in Stats
                                  /\ user[u].hashed[f].content \in Contents
                                  /\ user[u].hashed[f].mtime \in Nat
                                  /\ user[u].hashed[f].mtime <= clock
  <1>1. user[u].fresh \subseteq Files /\ user[u].fresh \cap user[u].failed = {}
    BY DEF IInv, UserInv, Consistent, TypeOK, Memories
  <1>2. Stamped(u) \subseteq Files
    BY DEF Stamped, Files
  <1>3. \A f \in Stamped(u) : user[u].hashed[f] \in Stats /\ user[u].hashed[f].mtime <= clock
    BY <1>2 DEF IInv, LoadedInv
  <1>4. \A d \in Stats : d.content \in Contents
    BY DEF Stats
  <1>. QED BY <1>1, <1>2, <1>3, <1>4, TimesAreNat DEF Stamped, Files

(* A new row is of what was hashed; it keeps a semantic hash only of those *)
(* contents, and a rebuild adds none.                                      *)
LEMMA NewRowIs ==
  ASSUME IInv, NEW u \in Users, Stamping(u), NEW f \in Stamped(u)
  PROVE  /\ NewRow(u, f) \in Rows
         /\ NewRow(u, f).mtime = user[u].hashed[f].mtime
         /\ NewRow(u, f).ast = user[u].hashed[f].content
         /\ NewRow(u, f).sem \in {None, user[u].hashed[f].content}
         /\ NewRow(u, f).sem = Semantic(u, f)
         /\ Dated(NewRow(u, f))
  <1> USE FilesAssumption, BoundsAssumption, NoneAssumption
  <1> DEFINE h == user[u].hashed[f]
             row == user[u].loaded[f]
             prev == Prev(u, f)
             sem == Semantic(u, f)
             new == [mtime |-> h.mtime, seen |-> clock, ast |-> h.content, sem |-> sem]
             kept == [mtime |-> h.mtime, seen |-> prev.seen, ast |-> h.content, sem |-> sem]
             same == /\ h.mtime = prev.mtime /\ h.content = prev.ast
                     /\ u = "extract" => sem = prev.sem
  <1>1. f \in Files /\ h \in Stats /\ h.content \in Contents /\ h.mtime \in 0..MaxClock
        /\ h.mtime \in Nat /\ h.mtime <= clock /\ clock \in 0..MaxClock
    BY StampedIs DEF IInv, TypeOK, Stats
  <1>2. row \in Rows \cup {None} /\ Dated(row)
    BY <1>1 DEF IInv, LoadedInv, TypeOK, Memories
  <1>3. CASE row = None
    <2>1. prev = [mtime |-> -1, seen |-> 0, ast |-> None, sem |-> None]
      BY <1>3 DEF Prev
    <2>2. sem \in {None, h.content} /\ ~same
      BY <1>1, <2>1 DEF Semantic
    <2>3. NewRow(u, f) = new
      BY <2>2 DEF NewRow
    <2>. QED BY <1>1, <2>2, <2>3 DEF Rows, Hashes, Dated
  <1>4. CASE row # None
    <2>1. prev = row /\ row \in Rows
      BY <1>2, <1>4 DEF Prev
    <2>2. /\ row.mtime <= row.seen /\ row.seen <= clock /\ row.seen \in 0..MaxClock
          /\ row.sem \in {None, row.ast}
      BY <1>2, <1>4, <2>1 DEF Dated, Rows
    <2>3. sem \in {None, h.content}
      BY <2>1, <2>2 DEF Semantic
    <2>4. NewRow(u, f) = IF same THEN kept ELSE new
      BY DEF NewRow
    <2>5. NewRow(u, f).sem = sem
      BY <2>4
    <2> HIDE DEF sem
    <2>6. CASE same
      <3>1. NewRow(u, f) = kept
        BY <2>4, <2>6
      <3>. QED BY <1>1, <2>1, <2>2, <2>3, <2>5, <2>6, <3>1 DEF Rows, Hashes, Dated, sem
    <2>7. CASE ~same
      <3>1. NewRow(u, f) = new
        BY <2>4, <2>7
      <3>. QED BY <1>1, <2>3, <2>5, <3>1 DEF Rows, Hashes, Dated, sem
    <2>. QED BY <2>6, <2>7
  <1>. QED BY <1>3, <1>4

(* A row that is not stamped is as loaded, or without its hashes. *)
LEMMA OldRowIs ==
  ASSUME IInv, NEW u \in Users, Stamping(u), NEW f \in Files, OldRow(u, f) # None
  PROVE  /\ OldRow(u, f) \in Rows /\ user[u].loaded[f] # None
         /\ OldRow(u, f).sem \in {None, user[u].loaded[f].sem}
         /\ Dated(OldRow(u, f))
         /\ f \notin user[u].stale => Truthful(OldRow(u, f), disk[f])
  <1> USE FilesAssumption, NoneAssumption
  <1> DEFINE row == user[u].loaded[f]
             old == OldRow(u, f)
  <1>1. row # None /\ row \in Rows
    BY DEF OldRow, IInv, TypeOK, Memories
  <1>2. Dated(row) /\ (f \notin user[u].stale => Truthful(row, disk[f]))
    BY DEF IInv, LoadedInv
  <1>3. /\ old \in Rows
        /\ old.mtime = row.mtime /\ old.seen = row.seen
        /\ old.ast \in {None, row.ast} /\ old.sem \in {None, row.sem}
        /\ old.sem \in {None, row.ast} => old.sem \in {None, old.ast}
    BY <1>1 DEF OldRow, Rows, Hashes
  <1> HIDE DEF old
  <1>4. Dated(old)
    BY <1>1, <1>2, <1>3 DEF Dated
  <1>5. f \notin user[u].stale => Truthful(old, disk[f])
    BY <1>1, <1>2, <1>3 DEF Truthful
  <1>. QED BY <1>1, <1>3, <1>4, <1>5 DEF old

-----------------------------------------------------------------------------
(* The steps. *)

(* Time alone makes no row untrue. *)
LEMMA TickKeeps == ASSUME IInv, Tick PROVE IInv'
  <1> USE FilesAssumption, BoundsAssumption, NoneAssumption DEF IInv
  <1>1. /\ clock' = clock + 1 /\ clock < MaxClock
        /\ UNCHANGED <<edits, runs, disk, rows, graph, user, slipped, hidden>>
    BY DEF Tick
  <1>2. TypeOK'
    BY <1>1 DEF TypeOK
  <1>3. RowInv'
    BY <1>1, TimesAreNat DEF RowInv, Dated, Truthful, TypeOK
  <1>4. LoadedInv'
    <2> SUFFICES ASSUME NEW u \in Users, Stamping(u), NEW f \in Files
                 PROVE  /\ Dated(user[u].loaded[f])'
                        /\ f \notin user[u].stale => Truthful(user[u].loaded[f], disk[f])
                        /\ f \in Stamped(u) => /\ user[u].hashed[f] \in Stats
                                              /\ user[u].hashed[f].mtime <= clock'
      BY <1>1 DEF LoadedInv, Stamping, Stamped, Truthful
    <2>1. user[u].loaded[f] \in Rows \cup {None}
      BY DEF TypeOK, Memories
    <2>. QED BY <1>1, <2>1, TimesAreNat DEF LoadedInv, Dated, TypeOK
  <1>5. UserInv'
    BY <1>1 DEF UserInv, Consistent, Busy, Stamping, TypeOK
  <1>6. OverlapInv'
    BY <1>1 DEF OverlapInv, Busy, Alone, TypeOK
  <1>7. AgreeInv'
    BY <1>1 DEF AgreeInv, Agree, Replaced, TypeOK
  <1>8. AloneInv'
    BY <1>1 DEF AloneInv, OverlapInv, Replaced, Stamping, Busy, Alone, TypeOK
  <1>9. LeftOutInv'
    BY <1>1 DEF LeftOutInv, OverlapInv, Busy, Alone, Stamping, Stamped, TypeOK, Users
  <1>. QED BY <1>2, <1>3, <1>4, <1>5, <1>6, <1>7, <1>8, <1>9

(* An edit in the tick of a row leaves it young, and the file is unseen. *)
LEMMA EditKeeps == ASSUME IInv, NEW f \in Files, NEW c \in Contents, Edit(f, c) PROVE IInv'
  <1> USE FilesAssumption, BoundsAssumption, NoneAssumption DEF IInv
  <1>1. /\ disk' = [disk EXCEPT ![f] = [content |-> c, mtime |-> clock]]
        /\ edits' = edits + 1 /\ edits < MaxEdits
        /\ UNCHANGED <<clock, runs, rows, graph, slipped, hidden>>
    BY DEF Edit
  <1>2. /\ user' \in [Users -> Memories]
        /\ \A u \in Users : user[u].pc \in {"idle", "stamp"} => user'[u] = user[u]
    BY EditIs
  <1>3. \A u \in Users : user'[u].pc = user[u].pc /\ user'[u].merging = user[u].merging
    BY EditIs
  <1>4. \A u \in Users : /\ user'[u].todo = user[u].todo
                         /\ user'[u].failed = user[u].failed /\ user'[u].fresh = user[u].fresh
    BY EditIs
  <1>5. \A u \in Users : user'[u].base = user[u].base /\ user'[u].cand = user[u].cand
    BY EditIs
  <1>6. \A u \in Users : user[u].pc \notin {"idle", "stamp"} =>
          user'[u].unseen = user[u].unseen \cup {f}
    BY EditIs
  <1>7. \A u \in Users : /\ Busy(u)' <=> Busy(u)
                         /\ Stamping(u)' <=> Stamping(u)
                         /\ Replaced(u)' <=> Replaced(u)
    BY <1>3 DEF Busy, Stamping, Replaced
  <1>8. \A u \in Users : Alone(u)' <=> Alone(u)
    BY <1>3 DEF Alone
  <1>9. \A g \in Files \ {f} : disk'[g] = disk[g]
    BY <1>1 DEF TypeOK
  <1>10. TypeOK'
    <2>1. disk' \in [Files -> Stats]
      BY <1>1 DEF TypeOK, Stats
    <2>2. \A u \in Users : user'[u].failed \cup user'[u].fresh \subseteq user'[u].todo
      BY <1>4 DEF TypeOK
    <2>. QED BY <1>1, <1>2, <2>1, <2>2 DEF TypeOK
  <1>11. RowInv'
    BY <1>1, TimesAreNat DEF RowInv, Dated, Truthful, TypeOK
  <1>12. LoadedInv'
    <2> SUFFICES ASSUME NEW u \in Users, Stamping(u), NEW g \in Files
                 PROVE  /\ Dated(user[u].loaded[g])
                        /\ g \notin user[u].stale => Truthful(user[u].loaded[g], disk'[g])
                        /\ g \in Stamped(u) => /\ user[u].hashed[g] \in Stats
                                              /\ user[u].hashed[g].mtime <= clock
      <3>1. \A u \in Users : Stamping(u)' => Stamping(u) /\ user'[u] = user[u]
        BY <1>2, <1>7 DEF Stamping
      <3>2. \A u \in Users : user'[u] = user[u] => Stamped(u)' = Stamped(u)
        BY DEF Stamped
      <3>. QED BY <1>1, <3>1, <3>2 DEF LoadedInv, Truthful, Dated
    <2>1. user[u].loaded[g] \in Rows \cup {None} /\ clock \in Nat
      BY DEF TypeOK, Memories
    <2>. QED BY <1>1, <2>1, TimesAreNat DEF LoadedInv, Dated, Truthful, TypeOK
  <1>13. UserInv'
    <2> SUFFICES ASSUME NEW u \in Users PROVE Consistent(u)'
      BY DEF UserInv
    <2>1. Consistent(u)
      BY DEF UserInv
    <2>2. CASE user[u].pc \in {"idle", "stamp"}
      <3>1. user'[u] = user[u]
        BY <1>2, <2>2
      <3>. QED BY <2>1, <2>2, <3>1 DEF Consistent, Busy, Stamping
    <2>3. CASE user[u].pc \notin {"idle", "stamp"}
      <3>1. \A g \in user[u].fresh \ user'[u].unseen :
              g \in user[u].fresh \ user[u].unseen /\ g \in Files \ {f}
        BY <1>6, <2>3 DEF TypeOK, Memories
      <3>2. \A g \in user[u].fresh \ user'[u].unseen : disk'[g] = disk[g]
        BY <1>9, <3>1
      <3>3. user'[u].pc = user[u].pc /\ user'[u].merging = user[u].merging
            /\ user'[u].todo = user[u].todo /\ user'[u].failed = user[u].failed
            /\ user'[u].fresh = user[u].fresh
            /\ user'[u].base = user[u].base /\ user'[u].cand = user[u].cand
        BY <1>3, <1>4, <1>5
      <3>. QED BY <2>1, <2>3, <3>1, <3>2, <3>3 DEF Consistent, Busy, Stamping
    <2>. QED BY <2>2, <2>3
  <1>14. OverlapInv'
    BY <1>1, <1>7, <1>8 DEF OverlapInv
  <1>15. AgreeInv'
    <2> SUFFICES ASSUME NEW g \in Files \ slipped,
                        \A u \in Users : ~(Replaced(u)' /\ g \in user'[u].fresh)
                 PROVE  Agree(g)
      BY <1>1 DEF AgreeInv, Agree
    <2>1. \A u \in Users : ~(Replaced(u) /\ g \in user[u].fresh)
      BY <1>4, <1>7
    <2>. QED BY <2>1 DEF AgreeInv
  <1>16. AloneInv'
    <2> SUFFICES ASSUME NEW u \in Users, NEW g \in Files \ slipped
                 PROVE  /\ Replaced(u)' /\ g \in user'[u].fresh => graph[g] = user'[u].cand[g]
                        /\ user'[u].pc = "write" => user'[u].base[g] = graph[g]
                        /\ Stamping(u)' => /\ user'[u].loaded[g] = rows[g]
                                           /\ g \in user'[u].stale <=> g \in hidden
      BY <1>1 DEF AloneInv
    <2>1. Stamping(u) => user'[u] = user[u]
      BY <1>2 DEF Stamping
    <2>2. user'[u].pc = user[u].pc /\ user'[u].fresh = user[u].fresh
          /\ user'[u].base = user[u].base /\ user'[u].cand = user[u].cand
      BY <1>3, <1>4, <1>5
    <2>. QED BY <1>7, <2>1, <2>2 DEF AloneInv
  <1>17. LeftOutInv'
    <2> DEFINE e == "extract"
    <2> SUFFICES ASSUME NEW g \in Files \ slipped,
                        g \notin user'[e].todo \cup user'[e].unseen
                 PROVE  /\ user'[e].pc \in {"read", "merge", "write", "hash"} /\ g \notin hidden =>
                             graph[g] = disk'[g].content
                        /\ Stamping(e)' /\ g \notin hidden /\ g \in Stamped(e)' =>
                             graph[g] = user'[e].hashed[g].content
      BY <1>1 DEF LeftOutInv
    <2>1. e \in Users
      BY DEF Users
    <2>2. CASE user[e].pc \in {"idle", "stamp"}
      <3>1. user'[e] = user[e] /\ Stamped(e)' = Stamped(e)
        BY <1>2, <2>1, <2>2 DEF Stamped
      <3>. QED BY <2>2, <3>1 DEF LeftOutInv, Stamping
    <2>3. CASE user[e].pc \notin {"idle", "stamp"}
      <3>1. g # f /\ g \notin user[e].todo \cup user[e].unseen
        BY <1>4, <1>6, <2>1, <2>3
      <3>2. user'[e].pc = user[e].pc /\ disk'[g] = disk[g]
        BY <1>3, <1>9, <2>1, <3>1
      <3>. QED BY <2>3, <3>1, <3>2 DEF LeftOutInv, Stamping
    <2>. QED BY <2>2, <2>3
  <1>. QED BY <1>10, <1>11, <1>12, <1>13, <1>14, <1>15, <1>16, <1>17

(* What extract leaves out is unchanged: the row is of the disk, and the graph agrees. *)
LEMMA BeginKeeps == ASSUME IInv, NEW force \in BOOLEAN, Begin(force) PROVE IInv'
  <1> USE FilesAssumption, BoundsAssumption, NoneAssumption DEF IInv
  <1>1. /\ ~Busy("extract") /\ runs < MaxRuns /\ runs' = runs + 1
        /\ slipped' = IF Alone("extract") THEN slipped ELSE Files
        /\ UNCHANGED <<clock, edits, disk, rows, graph, hidden>>
    BY DEF Begin, Busy
  <1>2. /\ user' \in [Users -> Memories]
        /\ \A v \in Users \ {"extract"} : user'[v] = user[v]
        /\ user'["extract"].pc = "read"
        /\ user'["extract"].merging = (HasGraph /\ ~force)
        /\ user'["extract"].todo =
             (IF HasGraph /\ ~force
              THEN {f \in Files : Changed(f, "semantic") \/ graph[f] = None} ELSE Files)
        /\ user'["extract"].failed = user["extract"].failed
        /\ user'["extract"].fresh = user["extract"].fresh
    BY BeginIs
  <1>3. user["extract"] = Idle
    BY <1>1 DEF UserInv, Consistent, Users
  <1>4. user["extract"].failed = {} /\ user["extract"].fresh = {}
    BY <1>3 DEF Idle
  <1>5. TypeOK'
    BY <1>1, <1>2, <1>3, <1>4 DEF TypeOK
  <1>6. RowInv'
    BY <1>1, <1>2, <1>3, <1>4 DEF RowInv, Dated, Truthful, TypeOK
  <1>7. LoadedInv'
    BY <1>1, <1>2, <1>3, <1>4 DEF LoadedInv, RowInv, Dated, Truthful, Stamping, Stamped, TypeOK
  <1>8. UserInv'
    <2>1. \A v \in Users \ {"extract"} : Consistent(v)'
      BY <1>1, <1>2, <1>3, <1>4 DEF UserInv, Consistent, Busy, Stamping, Idle
    <2>2. Consistent("extract")
      BY DEF UserInv, Users
    <2>3. Consistent("extract")'
      BY <1>1, <1>2, <1>3, <1>4, <2>2 DEF Consistent, Busy, Stamping, TypeOK, Memories
    <2>. QED BY <2>1, <2>3 DEF UserInv
  <1>9. OverlapInv'
    BY <1>1, <1>2, <1>3, <1>4 DEF OverlapInv, Busy, Alone, TypeOK
  <1>10. AgreeInv'
    BY <1>1, <1>2, <1>3, <1>4 DEF AgreeInv, Agree, Replaced, TypeOK
  <1>11. AloneInv'
    BY <1>1, <1>2, <1>3, <1>4 DEF AloneInv, OverlapInv, Replaced, Stamping, Busy, Alone, TypeOK
  <1>12. LeftOutInv'
    <2> SUFFICES ASSUME NEW f \in Files \ slipped', f \notin user'["extract"].todo, f \notin hidden
                 PROVE  graph[f] = disk[f].content
      BY <1>1, <1>2, <1>3, <1>4 DEF LeftOutInv, Stamping
    <2>1. Alone("extract") /\ f \notin slipped
      BY <1>1
    <2>2. \A u \in Users : ~Replaced(u)
      BY <1>1, <2>1 DEF Alone, Busy, Replaced
    <2>3. ~Changed(f, "semantic") /\ graph[f] # None
      BY <1>2
    <2>4. rows[f] # None /\ disk[f].content = rows[f].sem /\ disk[f].content # None
      BY <2>3, VerdictIs DEF HashOf, Changed
    <2>. QED BY <2>1, <2>2, <2>3, <2>4 DEF AgreeInv, Agree
  <1>. QED BY <1>5, <1>6, <1>7, <1>8, <1>9, <1>10, <1>11, <1>12

(* A rebuild tries code files only. *)
LEMMA BeginUpdateKeeps == ASSUME IInv, NEW S \in SUBSET Code, BeginUpdate(S) PROVE IInv'
  <1> USE FilesAssumption, BoundsAssumption, NoneAssumption DEF IInv
  <1>1. /\ ~Busy("update") /\ runs < MaxRuns /\ runs' = runs + 1
        /\ slipped' = IF Alone("update") THEN slipped ELSE Files
        /\ UNCHANGED <<clock, edits, disk, rows, graph, hidden>>
    BY DEF BeginUpdate, Busy
  <1>2. /\ user' \in [Users -> Memories]
        /\ \A v \in Users \ {"update"} : user'[v] = user[v]
        /\ user'["update"].pc = "read" /\ user'["update"].merging = TRUE
        /\ user'["update"].todo = S
        /\ user'["update"].failed = user["update"].failed
        /\ user'["update"].fresh = user["update"].fresh
    BY BeginUpdateIs
  <1>3. user["update"] = Idle
    BY <1>1 DEF UserInv, Consistent, Users
  <1>4. user["update"].failed = {} /\ user["update"].fresh = {}
    BY <1>3 DEF Idle
  <1>5. TypeOK'
    BY <1>1, <1>2, <1>3, <1>4 DEF TypeOK
  <1>6. RowInv'
    BY <1>1, <1>2, <1>3, <1>4 DEF RowInv, Dated, Truthful, TypeOK
  <1>7. LoadedInv'
    BY <1>1, <1>2, <1>3, <1>4 DEF LoadedInv, RowInv, Dated, Truthful, Stamping, Stamped, TypeOK
  <1>8. UserInv'
    <2>1. \A v \in Users \ {"update"} : Consistent(v)'
      BY <1>1, <1>2, <1>3, <1>4 DEF UserInv, Consistent, Busy, Stamping, Idle
    <2>2. Consistent("update")
      BY DEF UserInv, Users
    <2>3. Consistent("update")'
      BY <1>1, <1>2, <1>3, <1>4, <2>2 DEF Consistent, Busy, Stamping, TypeOK, Memories
    <2>. QED BY <2>1, <2>3 DEF UserInv
  <1>9. OverlapInv'
    BY <1>1, <1>2, <1>3, <1>4 DEF OverlapInv, Busy, Alone, TypeOK
  <1>10. AgreeInv'
    BY <1>1, <1>2, <1>3, <1>4 DEF AgreeInv, Agree, Replaced, TypeOK
  <1>11. AloneInv'
    BY <1>1, <1>2, <1>3, <1>4 DEF AloneInv, OverlapInv, Replaced, Stamping, Busy, Alone, TypeOK
  <1>12. LeftOutInv'
    BY <1>1, <1>2, <1>3, <1>4 DEF LeftOutInv, OverlapInv, Busy, Alone, Stamping, Stamped, TypeOK, Users
  <1>. QED BY <1>5, <1>6, <1>7, <1>8, <1>9, <1>10, <1>11, <1>12

(* What is extracted is of the disk. *)
LEMMA ReadKeeps == ASSUME IInv, NEW u \in Users, Read(u) PROVE IInv'
  <1> USE FilesAssumption, BoundsAssumption, NoneAssumption DEF IInv
  <1>1. /\ user[u].pc = "read"
        /\ UNCHANGED <<clock, edits, runs, disk, rows, graph, slipped, hidden>>
    BY DEF Read
  <1>2. /\ user' \in [Users -> Memories]
        /\ \A v \in Users \ {u} : user'[v] = user[v]
        /\ user'[u].pc = "merge"
        /\ user'[u].failed \cup user'[u].fresh \subseteq user[u].todo
        /\ user'[u].failed \cap user'[u].fresh = {}
        /\ user'[u].unseen = user[u].unseen \ user[u].todo
        /\ \A f \in Files : user'[u].cand[f] =
             IF f \in user'[u].fresh THEN disk[f].content ELSE None
        /\ user'[u].todo = user[u].todo /\ user'[u].merging = user[u].merging
    BY ReadIs
  <1>3. TypeOK'
    BY <1>1, <1>2 DEF TypeOK
  <1>4. RowInv'
    BY <1>1, <1>2 DEF RowInv, Dated, Truthful, TypeOK
  <1>5. LoadedInv'
    BY <1>1, <1>2 DEF LoadedInv, RowInv, Dated, Truthful, Stamping, Stamped, TypeOK
  <1>6. UserInv'
    <2>1. \A v \in Users \ {u} : Consistent(v)'
      BY <1>1, <1>2 DEF UserInv, Consistent, Busy, Stamping, Idle
    <2>2. Consistent(u)
      BY <1>1, <1>2 DEF UserInv
    <2>3. Consistent(u)'
      BY <1>1, <1>2, <2>2 DEF Consistent, Busy, Stamping, TypeOK, Memories
    <2>. QED BY <2>1, <2>3 DEF UserInv
  <1>7. OverlapInv'
    BY <1>1, <1>2 DEF OverlapInv, Busy, Alone, TypeOK
  <1>8. AgreeInv'
    BY <1>1, <1>2 DEF AgreeInv, Agree, Replaced, TypeOK
  <1>9. AloneInv'
    BY <1>1, <1>2 DEF AloneInv, OverlapInv, Replaced, Stamping, Busy, Alone, TypeOK
  <1>10. LeftOutInv'
    BY <1>1, <1>2 DEF LeftOutInv, OverlapInv, Busy, Alone, Stamping, Stamped, TypeOK, Users
  <1>. QED BY <1>3, <1>4, <1>5, <1>6, <1>7, <1>8, <1>9, <1>10

(* What was not tried is to stay as in the graph. *)
LEMMA MergeKeeps == ASSUME IInv, NEW u \in Users, Merge(u) PROVE IInv'
  <1> USE FilesAssumption, BoundsAssumption, NoneAssumption DEF IInv
  <1>1. /\ user[u].pc = "merge"
        /\ UNCHANGED <<clock, edits, runs, disk, rows, graph, slipped, hidden>>
    BY DEF Merge
  <1>2. /\ user' \in [Users -> Memories]
        /\ \A v \in Users \ {u} : user'[v] = user[v]
        /\ user'[u].pc = "write"
        /\ user'[u].base = graph
        /\ \A f \in Files : user'[u].cand[f] =
             IF f \in user[u].fresh \cup (user[u].failed \cap Code) \/ ~user[u].merging
             THEN user[u].cand[f] ELSE graph[f]
        /\ user'[u].merging = user[u].merging /\ user'[u].todo = user[u].todo
        /\ user'[u].failed = user[u].failed /\ user'[u].fresh = user[u].fresh
        /\ user'[u].unseen = user[u].unseen
    BY MergeIs
  <1>3. TypeOK'
    BY <1>1, <1>2 DEF TypeOK
  <1>4. RowInv'
    BY <1>1, <1>2 DEF RowInv, Dated, Truthful, TypeOK
  <1>5. LoadedInv'
    BY <1>1, <1>2 DEF LoadedInv, RowInv, Dated, Truthful, Stamping, Stamped, TypeOK
  <1>6. UserInv'
    <2>1. \A v \in Users \ {u} : Consistent(v)'
      BY <1>1, <1>2 DEF UserInv, Consistent, Busy, Stamping, Idle
    <2>2. Consistent(u)
      BY <1>1, <1>2 DEF UserInv
    <2>3. Consistent(u)'
      BY <1>1, <1>2, <2>2 DEF Consistent, Busy, Stamping, TypeOK, Memories
    <2>. QED BY <2>1, <2>3 DEF UserInv
  <1>7. OverlapInv'
    BY <1>1, <1>2 DEF OverlapInv, Busy, Alone, TypeOK
  <1>8. AgreeInv'
    BY <1>1, <1>2 DEF AgreeInv, Agree, Replaced, TypeOK
  <1>9. AloneInv'
    BY <1>1, <1>2 DEF AloneInv, OverlapInv, Replaced, Stamping, Busy, Alone, TypeOK
  <1>10. LeftOutInv'
    BY <1>1, <1>2 DEF LeftOutInv, OverlapInv, Busy, Alone, Stamping, Stamped, TypeOK, Users
  <1>. QED BY <1>3, <1>4, <1>5, <1>6, <1>7, <1>8, <1>9, <1>10

(* A run that refuses to write leaves everything as it was. *)
LEMMA RefuseKeeps == ASSUME IInv, NEW u \in Users, Refuse(u) PROVE IInv'
  <1> USE FilesAssumption, BoundsAssumption, NoneAssumption DEF IInv
  <1>1. /\ user[u].pc = "write"
        /\ UNCHANGED <<clock, edits, runs, disk, rows, graph, slipped, hidden>>
    BY DEF Refuse
  <1>2. /\ user' \in [Users -> Memories]
        /\ \A v \in Users \ {u} : user'[v] = user[v]
        /\ user'[u] = Idle
    BY EndIs DEF Refuse
  <1>3. /\ Idle.pc = "idle" /\ Idle.todo = {} /\ Idle.failed = {} /\ Idle.fresh = {}
    BY DEF Idle
  <1>4. TypeOK'
    BY <1>1, <1>2, <1>3 DEF TypeOK
  <1>5. RowInv'
    BY <1>1, <1>2, <1>3 DEF RowInv, Dated, Truthful, TypeOK
  <1>6. LoadedInv'
    BY <1>1, <1>2, <1>3 DEF LoadedInv, RowInv, Dated, Truthful, Stamping, Stamped, TypeOK
  <1>7. UserInv'
    <2>1. \A v \in Users \ {u} : Consistent(v)'
      BY <1>1, <1>2, <1>3 DEF UserInv, Consistent, Busy, Stamping, Idle
    <2>2. Consistent(u)
      BY <1>1, <1>2, <1>3 DEF UserInv
    <2>3. Consistent(u)'
      BY <1>1, <1>2, <1>3, <2>2 DEF Consistent, Busy, Stamping, TypeOK, Memories
    <2>. QED BY <2>1, <2>3 DEF UserInv
  <1>8. OverlapInv'
    BY <1>1, <1>2, <1>3 DEF OverlapInv, Busy, Alone, TypeOK
  <1>9. AgreeInv'
    BY <1>1, <1>2, <1>3 DEF AgreeInv, Agree, Replaced, TypeOK
  <1>10. AloneInv'
    BY <1>1, <1>2, <1>3 DEF AloneInv, OverlapInv, Replaced, Stamping, Busy, Alone, TypeOK
  <1>11. LeftOutInv'
    BY <1>1, <1>2, <1>3 DEF LeftOutInv, OverlapInv, Busy, Alone, Stamping, Stamped, TypeOK, Users
  <1>. QED BY <1>4, <1>5, <1>6, <1>7, <1>8, <1>9, <1>10, <1>11

(* The files written are those extracted, or as they were. *)
LEMMA WriteKeeps == ASSUME IInv, NEW u \in Users, Write(u) PROVE IInv'
  <1> USE FilesAssumption, BoundsAssumption, NoneAssumption DEF IInv
  <1>1. /\ user[u].pc = "write" /\ graph' = user[u].cand
        /\ slipped' = IF Alone(u)
             THEN (slipped \ user[u].fresh) \cup (user[u].fresh \cap user[u].unseen) ELSE slipped
        /\ UNCHANGED <<clock, edits, runs, disk, rows, hidden>>
    BY DEF Write
  <1>2. /\ user' \in [Users -> Memories]
        /\ \A v \in Users \ {u} : user'[v] = user[v]
        /\ user'[u].pc = "hash"
        /\ user'[u].todo = user[u].todo /\ user'[u].failed = user[u].failed
        /\ user'[u].fresh = user[u].fresh /\ user'[u].unseen = user[u].unseen
        /\ user'[u].cand = user[u].cand /\ user'[u].merging = user[u].merging
    BY WriteIs
  <1>3. TypeOK'
    <2>1. user[u] \in Memories
      BY DEF TypeOK
    <2>. QED BY <1>1, <1>2, <2>1 DEF TypeOK, Memories
  <1>4. RowInv'
    BY <1>1, <1>2 DEF RowInv, Dated, Truthful, TypeOK
  <1>5. LoadedInv'
    BY <1>1, <1>2 DEF LoadedInv, RowInv, Dated, Truthful, Stamping, Stamped, TypeOK
  <1>6. UserInv'
    <2>1. \A v \in Users \ {u} : Consistent(v)'
      BY <1>1, <1>2 DEF UserInv, Consistent, Busy, Stamping, Idle
    <2>2. Consistent(u)
      BY <1>1, <1>2 DEF UserInv
    <2>3. Consistent(u)'
      BY <1>1, <1>2, <2>2 DEF Consistent, Busy, Stamping, TypeOK, Memories
    <2>. QED BY <2>1, <2>3 DEF UserInv
  <1>7. OverlapInv'
    BY <1>1, <1>2 DEF OverlapInv, Busy, Alone, TypeOK
  <1>8. AgreeInv'
    <2> SUFFICES ASSUME NEW f \in Files \ slipped',
                        \A v \in Users : ~(Replaced(v)' /\ f \in user'[v].fresh)
                 PROVE  Agree(f)'
      BY DEF AgreeInv
    <2>1. f \notin user[u].fresh /\ f \notin slipped
      BY <1>1, <1>2 DEF Replaced
    <2>2. \A v \in Users : ~(Replaced(v) /\ f \in user[v].fresh)
      BY <1>1, <1>2, <2>1 DEF Replaced
    <2>3. Agree(f) /\ user[u].base[f] = graph[f] /\ user[u].cand[f] \in {None, user[u].base[f]}
      BY <1>1, <2>1, <2>2 DEF AgreeInv, AloneInv, UserInv, Consistent
    <2>. QED BY <1>1, <2>3 DEF Agree
  <1>9. AloneInv'
    BY <1>1, <1>2 DEF AloneInv, OverlapInv, Replaced, Stamping, Busy, Alone, TypeOK
  <1>10. LeftOutInv'
    <2> SUFFICES ASSUME NEW f \in Files \ slipped', Busy("extract")',
                        f \notin user'["extract"].todo \cup user'["extract"].unseen
                 PROVE  /\ user'["extract"].pc \in {"read", "merge", "write", "hash"} /\ f \notin hidden =>
                             graph'[f] = disk[f].content
                        /\ Stamping("extract")' /\ f \notin hidden /\ f \in Stamped("extract")' =>
                             graph'[f] = user'["extract"].hashed[f].content
      BY <1>1, <1>2 DEF LeftOutInv, Stamping, Busy
    <2>1. u = "extract"
      BY <1>1, <1>2 DEF Busy, Alone, OverlapInv, Users
    <2>2. f \notin user[u].todo \cup user[u].fresh \cup user[u].unseen /\ f \notin slipped
      BY <1>1, <1>2, <2>1 DEF TypeOK
    <2>3. user[u].cand[f] = graph[f]
      BY <1>1, <2>2 DEF AloneInv, UserInv, Consistent
    <2>. QED BY <1>1, <1>2, <2>1, <2>2, <2>3 DEF LeftOutInv, Stamping
  <1>. QED BY <1>3, <1>4, <1>5, <1>6, <1>7, <1>8, <1>9, <1>10

(* The graph is what the rebuild would write. *)
LEMMA UntouchedKeeps == ASSUME IInv, Untouched PROVE IInv'
  <1> USE FilesAssumption, BoundsAssumption, NoneAssumption DEF IInv
  <1>1. /\ user["update"].pc = "write" /\ user["update"].cand = user["update"].base
        /\ "update" \in Users
        /\ UNCHANGED <<clock, edits, runs, disk, rows, graph, slipped, hidden>>
    BY DEF Untouched, Users
  <1>2. /\ user' \in [Users -> Memories]
        /\ \A v \in Users \ {"update"} : user'[v] = user[v]
        /\ user'["update"].pc = "hash"
        /\ user'["update"].todo = user["update"].todo /\ user'["update"].failed = user["update"].failed
        /\ user'["update"].fresh = user["update"].fresh /\ user'["update"].unseen = user["update"].unseen
        /\ user'["update"].cand = user["update"].cand /\ user'["update"].merging = user["update"].merging
    BY UntouchedIs
  <1>3. TypeOK'
    BY <1>1, <1>2 DEF TypeOK
  <1>4. RowInv'
    BY <1>1, <1>2 DEF RowInv, Dated, Truthful, TypeOK
  <1>5. LoadedInv'
    BY <1>1, <1>2 DEF LoadedInv, RowInv, Dated, Truthful, Stamping, Stamped, TypeOK
  <1>6. UserInv'
    <2>1. \A v \in Users \ {"update"} : Consistent(v)'
      BY <1>1, <1>2 DEF UserInv, Consistent, Busy, Stamping, Idle
    <2>2. Consistent("update")
      BY <1>1, <1>2 DEF UserInv
    <2>3. Consistent("update")'
      BY <1>1, <1>2, <2>2 DEF Consistent, Busy, Stamping, TypeOK, Memories
    <2>. QED BY <2>1, <2>3 DEF UserInv
  <1>7. OverlapInv'
    BY <1>1, <1>2 DEF OverlapInv, Busy, Alone, TypeOK
  <1>8. AgreeInv'
    BY <1>1, <1>2 DEF AgreeInv, Agree, Replaced, TypeOK
  <1>9. AloneInv'
    BY <1>1, <1>2 DEF AloneInv, OverlapInv, Replaced, Stamping, Busy, Alone, TypeOK
  <1>10. LeftOutInv'
    BY <1>1, <1>2 DEF LeftOutInv, OverlapInv, Busy, Alone, Stamping, Stamped, TypeOK, Users
  <1>. QED BY <1>3, <1>4, <1>5, <1>6, <1>7, <1>8, <1>9, <1>10

(* The rows loaded are those of the manifest, the hashes those of the disk. *)
LEMMA HashKeeps == ASSUME IInv, NEW u \in Users, Hash(u) PROVE IInv'
  <1> USE FilesAssumption, BoundsAssumption, NoneAssumption DEF IInv
  <1>1. /\ user[u].pc = "hash"
        /\ UNCHANGED <<clock, edits, runs, disk, rows, graph, slipped, hidden>>
    BY DEF Hash
  <1>2. /\ user' \in [Users -> Memories]
        /\ \A v \in Users \ {u} : user'[v] = user[v]
        /\ user'[u].pc = "stamp" /\ user'[u].loaded = rows /\ user'[u].stale = hidden
        /\ user'[u].hashed = [f \in Files |-> IF f \in Stamped(u) THEN disk[f] ELSE None]
        /\ user'[u].todo = user[u].todo /\ user'[u].failed = user[u].failed
        /\ user'[u].fresh = user[u].fresh /\ user'[u].unseen = user[u].unseen
        /\ user'[u].cand = user[u].cand /\ user'[u].merging = user[u].merging
    BY HashIs
  <1>3. Stamped(u)' = Stamped(u) /\ Stamped(u) \subseteq Files
        /\ \A v \in Users \ {u} : Stamped(v)' = Stamped(v)
    BY <1>1, <1>2 DEF Stamped, Files, TypeOK
  <1>4. \A f \in user[u].fresh : f \in Stamped(u) /\ f \in Files
    BY DEF Stamped, UserInv, Consistent, Busy, TypeOK, Memories, Files
  <1>5. \A f \in Stamped(u) : user'[u].hashed[f] = disk[f] /\ disk[f] \in Stats
    BY <1>2, <1>3 DEF TypeOK
  <1>6. TypeOK'
    BY <1>1, <1>2, <1>3, <1>4, <1>5 DEF TypeOK
  <1>7. RowInv'
    BY <1>1, <1>2, <1>3, <1>4, <1>5 DEF RowInv, Dated, Truthful, TypeOK
  <1>8. LoadedInv'
    <2>1. ASSUME NEW f \in Files
          PROVE  /\ Dated(rows[f])
                 /\ f \notin hidden => Truthful(rows[f], disk[f])
                 /\ f \in Stamped(u) => user'[u].hashed[f] \in Stats
                                         /\ user'[u].hashed[f].mtime <= clock
      BY <1>5 DEF RowInv
    <2>. QED BY <1>1, <1>2, <1>3, <2>1 DEF LoadedInv, Dated, Truthful, Stamping
  <1>9. UserInv'
    <2>1. \A v \in Users \ {u} : Consistent(v)'
      BY <1>1, <1>2, <1>3, <1>4, <1>5 DEF UserInv, Consistent, Busy, Stamping, Idle
    <2>2. Consistent(u)
      BY <1>1, <1>2, <1>3, <1>4, <1>5 DEF UserInv
    <2>3. Consistent(u)'
      BY <1>1, <1>2, <1>3, <1>4, <1>5, <2>2 DEF Consistent, Busy, Stamping, TypeOK, Memories
    <2>. QED BY <2>1, <2>3 DEF UserInv
  <1>10. OverlapInv'
    BY <1>1, <1>2, <1>3, <1>4, <1>5 DEF OverlapInv, Busy, Alone, TypeOK
  <1>11. AgreeInv'
    BY <1>1, <1>2, <1>3, <1>4, <1>5 DEF AgreeInv, Agree, Replaced, TypeOK
  <1>12. AloneInv'
    BY <1>1, <1>2, <1>3, <1>4, <1>5 DEF AloneInv, OverlapInv, Replaced, Stamping, Busy, Alone, TypeOK
  <1>13. LeftOutInv'
    BY <1>1, <1>2, <1>3, <1>4, <1>5 DEF LeftOutInv, OverlapInv, Busy, Alone, Stamping, Stamped, TypeOK, Users
  <1>. QED BY <1>6, <1>7, <1>8, <1>9, <1>10, <1>11, <1>12, <1>13

(* A kill between the two files leaves rows that agree, or slipped. *)
LEMMA KillKeeps == ASSUME IInv, NEW u \in Users, Kill(u) PROVE IInv'
  <1> USE FilesAssumption, BoundsAssumption, NoneAssumption DEF IInv
  <1>1. /\ Busy(u)
        /\ slipped' = IF Replaced(u)
             THEN slipped \cup {f \in user[u].fresh :
                    rows[f] # None /\ rows[f].sem \notin {None, user[u].cand[f]}}
             ELSE slipped
        /\ UNCHANGED <<clock, edits, runs, disk, rows, graph, hidden>>
    BY DEF Kill, Busy, Replaced
  <1>2. /\ user' \in [Users -> Memories]
        /\ \A v \in Users \ {u} : user'[v] = user[v]
        /\ user'[u] = Idle
    BY EndIs DEF Kill
  <1>3. /\ Idle.pc = "idle" /\ Idle.todo = {} /\ Idle.failed = {} /\ Idle.fresh = {}
    BY DEF Idle
  <1>4. TypeOK'
    <2>1. slipped \subseteq slipped' /\ slipped' \subseteq Files
      BY <1>1 DEF TypeOK, Memories
    <2>. QED BY <1>1, <1>2, <1>3, <2>1 DEF TypeOK
  <1>5. RowInv'
    BY <1>1, <1>2, <1>3 DEF RowInv, Dated, Truthful, TypeOK
  <1>6. LoadedInv'
    BY <1>1, <1>2, <1>3 DEF LoadedInv, RowInv, Dated, Truthful, Stamping, Stamped, TypeOK
  <1>7. UserInv'
    <2>1. \A v \in Users \ {u} : Consistent(v)'
      BY <1>1, <1>2, <1>3 DEF UserInv, Consistent, Busy, Stamping, Idle
    <2>2. Consistent(u)
      BY <1>1, <1>2, <1>3 DEF UserInv
    <2>3. Consistent(u)'
      BY <1>1, <1>2, <1>3, <2>2 DEF Consistent, Busy, Stamping, TypeOK, Memories
    <2>. QED BY <2>1, <2>3 DEF UserInv
  <1>8. OverlapInv'
    <2>1. slipped \subseteq slipped' /\ slipped' \subseteq Files
      BY <1>1 DEF TypeOK, Memories
    <2>. QED BY <1>1, <1>2, <1>3, <2>1 DEF OverlapInv, Busy, Alone
  <1>9. AgreeInv'
    <2> SUFFICES ASSUME NEW f \in Files \ slipped',
                        \A v \in Users : ~(Replaced(v)' /\ f \in user'[v].fresh)
                 PROVE  Agree(f)
      BY <1>1 DEF AgreeInv, Agree
    <2>1. f \notin slipped
      BY <1>1
    <2>2. CASE Replaced(u) /\ f \in user[u].fresh
      BY <1>1, <2>1, <2>2 DEF AloneInv, Agree
    <2>3. CASE ~(Replaced(u) /\ f \in user[u].fresh)
      <3>1. \A v \in Users : ~(Replaced(v) /\ f \in user[v].fresh)
        BY <1>2, <2>3 DEF Replaced
      <3>. QED BY <2>1, <3>1 DEF AgreeInv
    <2>. QED BY <2>2, <2>3
  <1>10. AloneInv'
    BY <1>1, <1>2, <1>3 DEF AloneInv, OverlapInv, Replaced, Stamping, Busy, Alone, TypeOK
  <1>11. LeftOutInv'
    BY <1>1, <1>2, <1>3 DEF LeftOutInv, OverlapInv, Busy, Alone, Stamping, Stamped, TypeOK, Users
  <1>. QED BY <1>4, <1>5, <1>6, <1>7, <1>8, <1>9, <1>10, <1>11

(* What save_manifest says done is of the graph, or in `slipped`. *)
LEMMA StampKeeps == ASSUME IInv, NEW u \in Users, Stamp(u) PROVE IInv'
  <1> USE FilesAssumption, BoundsAssumption, NoneAssumption DEF IInv
  <1> DEFINE S == Stamped(u)
             h == user[u].hashed
  <1>1. /\ Stamping(u)
        /\ rows' = [f \in Files |-> IF f \in S THEN NewRow(u, f) ELSE OldRow(u, f)]
        /\ hidden' = (user[u].stale \ S) \cup {f \in S : Hidden(u, f)}
        /\ UNCHANGED <<clock, edits, runs, disk, graph>>
    BY DEF Stamp, Stamping
  <1>2. /\ slipped \subseteq slipped'
        /\ user[u].fresh \cap user[u].unseen \subseteq slipped'
        /\ u = "extract" => S \cap Code \cap (user[u].unseen
             \cup ((user[u].todo \cup user[u].stale) \ user[u].fresh)) \subseteq slipped'
    BY DEF Stamp
  <1>3. /\ user' \in [Users -> Memories]
        /\ \A v \in Users \ {u} : user'[v] = user[v]
        /\ user'[u] = Idle /\ Idle.pc = "idle"
        /\ Idle.todo = {} /\ Idle.failed = {} /\ Idle.fresh = {}
    BY EndIs DEF Stamp, Idle
  <1>4. /\ S \subseteq Files /\ user[u].fresh \subseteq S
        /\ u = "extract" => S \ user[u].fresh \subseteq Code
        /\ \A f \in S : h[f] \in Stats /\ h[f].content \in Contents
    BY <1>1, StampedIs
  <1>5. \A f \in S : /\ NewRow(u, f) \in Rows
                     /\ NewRow(u, f).mtime = h[f].mtime /\ NewRow(u, f).ast = h[f].content
                     /\ NewRow(u, f).sem \in {None, h[f].content}
                     /\ NewRow(u, f).sem = Semantic(u, f)
                     /\ Dated(NewRow(u, f))
    BY <1>1, NewRowIs
  <1>6. \A f \in Files : OldRow(u, f) # None =>
          /\ OldRow(u, f) \in Rows /\ user[u].loaded[f] # None
          /\ OldRow(u, f).sem \in {None, user[u].loaded[f].sem}
          /\ Dated(OldRow(u, f))
          /\ f \notin user[u].stale => Truthful(OldRow(u, f), disk[f])
    BY <1>1, OldRowIs
  <1>7. \A v \in Users \ {u} : Busy(v) => slipped = Files
    BY <1>1 DEF OverlapInv, Busy, Alone, Stamping
  <1>8. \A f \in Files : rows'[f] = IF f \in S THEN NewRow(u, f) ELSE OldRow(u, f)
    BY <1>1
  <1> HIDE DEF S, h
  <1>9. TypeOK'
    <2>1. rows' \in [Files -> Rows \cup {None}]
      BY <1>1, <1>5, <1>6
    <2>2. slipped' \subseteq Files /\ hidden' \subseteq Files
      <3>1. user[u].fresh \subseteq Files /\ user[u].stale \subseteq Files /\ slipped \subseteq Files
        BY DEF TypeOK, Memories
      <3>2. slipped' \subseteq slipped \cup user[u].fresh \cup S
        BY DEF Stamp, S
      <3>. QED BY <1>1, <1>4, <3>1, <3>2
    <2>. QED BY <1>1, <1>3, <2>1, <2>2 DEF TypeOK
  <1>10. RowInv'
    <2> SUFFICES ASSUME NEW f \in Files
                 PROVE  /\ disk[f].mtime <= clock
                        /\ Dated(rows'[f])
                        /\ f \notin hidden' => Truthful(rows'[f], disk[f])
      BY <1>1 DEF RowInv, Dated, Truthful
    <2>1. disk[f].mtime <= clock
      BY DEF RowInv
    <2>2. CASE f \in S
      <3>1. f \notin hidden' => ~Hidden(u, f)
        BY <1>1, <2>2
      <3>. QED BY <1>5, <1>8, <2>1, <2>2, <3>1 DEF Truthful, Hidden, h
    <2>3. CASE f \notin S
      <3>1. f \notin hidden' => f \notin user[u].stale
        BY <1>1, <2>3
      <3>2. CASE OldRow(u, f) = None
        BY <1>8, <2>1, <2>3, <3>2 DEF Dated, Truthful
      <3>3. CASE OldRow(u, f) # None
        BY <1>6, <1>8, <2>1, <2>3, <3>1, <3>3
      <3>. QED BY <3>2, <3>3
    <2>. QED BY <2>2, <2>3
  <1>11. LoadedInv'
    <2>1. \A v \in Users : Stamping(v)' => v # u /\ Stamping(v) /\ user'[v] = user[v]
      BY <1>3 DEF Stamping
    <2>2. \A v \in Users : user'[v] = user[v] => Stamped(v)' = Stamped(v)
      BY DEF Stamped
    <2>. QED BY <1>1, <2>1, <2>2 DEF LoadedInv, Dated, Truthful
  <1>12. UserInv'
    <2>1. \A v \in Users \ {u} : Consistent(v)'
      BY <1>1, <1>3 DEF UserInv, Consistent, Busy, Stamping, Idle
    <2>2. Consistent(u)'
      BY <1>3 DEF Consistent, Busy, Stamping
    <2>. QED BY <2>1, <2>2 DEF UserInv
  <1>13. OverlapInv'
    <2>1. slipped = Files => slipped' = Files
      BY <1>2, <1>9 DEF TypeOK
    <2>2. \A v \in Users : Busy(v)' => v # u /\ Busy(v)
      BY <1>3 DEF Busy
    <2>. QED BY <1>7, <2>1, <2>2 DEF OverlapInv
  <1>14. AgreeInv'
    <2> SUFFICES ASSUME NEW f \in Files \ slipped',
                        \A v \in Users : ~(Replaced(v)' /\ f \in user'[v].fresh),
                        rows'[f] # None, rows'[f].sem # None, graph[f] # None
                 PROVE  graph[f] = rows'[f].sem
      BY <1>1 DEF AgreeInv, Agree
    <2>1. f \notin slipped /\ \A v \in Users \ {u} : ~Busy(v)
      BY <1>2, <1>7
    <2>2. user[u].loaded[f] = rows[f] /\ (f \in user[u].stale <=> f \in hidden)
      BY <1>1, <2>1 DEF AloneInv
    <2>3. f \notin user[u].fresh => Agree(f)
      BY <2>1 DEF AgreeInv, Busy, Replaced
    <2>4. CASE f \in user[u].fresh
      <3>1. f \in S /\ f \notin user[u].unseen
        BY <1>2, <1>4, <2>4
      <3>2. graph[f] = user[u].cand[f]
        BY <1>1, <2>1, <2>4 DEF AloneInv, Replaced, Stamping
      <3>3. user[u].cand[f] = h[f].content
        BY <1>1, <2>4, <3>1 DEF UserInv, Consistent, h
      <3>. QED BY <1>5, <1>8, <3>1, <3>2, <3>3
    <2>5. CASE f \notin user[u].fresh /\ f \in S /\ u = "extract"
      <3>1. f \in Code /\ f \notin user[u].unseen \cup user[u].todo \cup user[u].stale
        BY <1>2, <1>4, <2>5
      <3>2. graph[f] = h[f].content
        BY <1>1, <2>1, <2>2, <2>5, <3>1 DEF LeftOutInv, S, h
      <3>. QED BY <1>5, <1>8, <2>5, <3>2
    <2>6. CASE f \notin user[u].fresh /\ f \in S /\ u # "extract"
      <3>1. rows'[f].sem = Semantic(u, f)
        BY <1>5, <1>8, <2>6
      <3>2. user[u].loaded[f] # None /\ Semantic(u, f) = user[u].loaded[f].sem
        BY <2>6, <3>1 DEF Semantic, Prev
      <3>. QED BY <2>2, <2>3, <2>6, <3>1, <3>2 DEF Agree
    <2>7. CASE f \notin user[u].fresh /\ f \notin S
      BY <1>6, <1>8, <2>2, <2>3, <2>7 DEF Agree
    <2>. QED BY <2>4, <2>5, <2>6, <2>7
  <1>15. AloneInv'
    <2> SUFFICES ASSUME NEW v \in Users, NEW f \in Files \ slipped', Busy(v)'
                 PROVE  FALSE
      BY DEF AloneInv, Busy, Replaced, Stamping
    <2>1. v # u /\ Busy(v)
      BY <1>3 DEF Busy
    <2>. QED BY <1>2, <1>7, <2>1
  <1>16. LeftOutInv'
    <2> SUFFICES ASSUME NEW f \in Files \ slipped', Busy("extract")'
                 PROVE  FALSE
      BY DEF LeftOutInv, Busy, Stamping
    <2>1. "extract" # u /\ Busy("extract") /\ "extract" \in Users
      BY <1>3 DEF Busy, Users
    <2>. QED BY <1>2, <1>7, <2>1
  <1>. QED BY <1>9, <1>10, <1>11, <1>12, <1>13, <1>14, <1>15, <1>16

(* Nothing else happens. *)
LEMMA NextInv == IInv /\ [Next]_vars => IInv'
  <1> SUFFICES ASSUME IInv, [Next]_vars PROVE IInv'
    OBVIOUS
  <1>1. CASE Tick
    BY <1>1, TickKeeps
  <1>2. ASSUME NEW f \in Files, NEW c \in Contents, Edit(f, c) PROVE IInv'
    BY <1>2, EditKeeps
  <1>3. ASSUME NEW force \in BOOLEAN, Begin(force) PROVE IInv'
    BY <1>3, BeginKeeps
  <1>4. ASSUME NEW S \in SUBSET Code \ {{}}, BeginUpdate(S) PROVE IInv'
    BY <1>4, BeginUpdateKeeps
  <1>5. ASSUME NEW u \in Users,
               Read(u) \/ Merge(u) \/ Refuse(u) \/ Write(u) \/ Hash(u) \/ Stamp(u) \/ Kill(u)
        PROVE  IInv'
    BY <1>5, ReadKeeps, MergeKeeps, RefuseKeeps, WriteKeeps, HashKeeps, StampKeeps, KillKeeps
  <1>6. CASE Untouched
    BY <1>6, UntouchedKeeps
  <1>7. CASE UNCHANGED vars
    <2> USE <1>7 DEF vars, IInv
    <2>1. TypeOK'
      BY DEF TypeOK
    <2>2. RowInv' /\ LoadedInv'
      BY DEF RowInv, LoadedInv, Dated, Truthful, Stamping, Stamped
    <2>3. UserInv' /\ OverlapInv'
      BY DEF UserInv, Consistent, OverlapInv, Busy, Alone, Stamping
    <2>4. AgreeInv' /\ AloneInv' /\ LeftOutInv'
      BY DEF AgreeInv, Agree, AloneInv, LeftOutInv, Replaced, Stamping, Stamped
    <2>. QED BY <2>1, <2>2, <2>3, <2>4
  <1>. QED BY <1>1, <1>2, <1>3, <1>4, <1>5, <1>6, <1>7 DEF Next

-----------------------------------------------------------------------------
(* The inductive invariant holds of every reachable state. *)
THEOREM Invariance == Spec => []IInv
  BY InitInv, NextInv, PTL DEF Spec

(* Every variable keeps its type, and what a run failed on or extracted is *)
(* what it had set out to try.                                             *)
THEOREM TypeCorrect == Spec => []TypeOK
  <1>1. IInv => TypeOK
    BY DEF IInv
  <1>. QED BY Invariance, <1>1, PTL

(* VerdictsAreSound: whatever classify_manifest_files takes for unchanged, *)
(* by mtime or by hash, is on disk with the hash of its row, but for the   *)
(* files of `hidden`, for any files, contents and window.                  *)
THEOREM VerdictsAreSoundHolds == Spec => []VerdictsAreSound
  <1>1. IInv => VerdictsAreSound
    BY VerdictIs DEF IInv, VerdictsAreSound
  <1>. QED BY Invariance, <1>1, PTL

(* DoneIsInTheGraph: while nobody runs, a file that an extract leaves out  *)
(* as done is in graph.json as it is on disk, whoever saved its row and in *)
(* whatever order runs, edits, failures and kills came, but for the files  *)
(* of `slipped` and `hidden`.                                              *)
THEOREM DoneIsInTheGraphHolds == Spec => []DoneIsInTheGraph
  <1>1. IInv => DoneIsInTheGraph
    <2> SUFFICES ASSUME IInv, \A u \in Users : user[u].pc = "idle",
                        NEW f \in Files \ (slipped \cup hidden),
                        ~Changed(f, "semantic"), graph[f] # None
                 PROVE  graph[f] = disk[f].content
      BY DEF DoneIsInTheGraph
    <2>1. rows[f] # None /\ disk[f].content = rows[f].sem /\ rows[f].sem # None
      BY VerdictIs DEF IInv, HashOf, Changed
    <2>2. Agree(f)
      BY DEF IInv, AgreeInv, Replaced
    <2>. QED BY <2>1, <2>2 DEF Agree
  <1>. QED BY Invariance, <1>1, PTL

(* PaidWorkIsKept: the save of a rebuild does not take the semantic hash   *)
(* from a document that is on disk as that hash says.                      *)
THEOREM PaidWorkIsKeptHolds == Spec => PaidWorkIsKept
  <1>1. ASSUME IInv, Stamp("update"), NEW d \in Docs \ hidden, ~Changed(d, "semantic"),
               user["update"].loaded[d] = rows[d],
               user["update"].hashed[d].content = disk[d].content
        PROVE  ~Changed(d, "semantic")'
    <2> DEFINE u == "update"
    <2> USE FilesAssumption, NoneAssumption
    <2>1. u \in Users /\ Stamping(u) /\ d \in Files /\ disk' = disk
      BY <1>1 DEF Users, Stamping, Stamp, Files
    <2>2. rows[d] # None /\ rows[d].sem # None /\ disk[d].content = rows[d].sem
          /\ rows[d].ast = disk[d].content
      BY <1>1, <2>1, VerdictIs DEF IInv, HashOf, Changed
    <2>3. d \in Stamped(u)
      <3>1. user[u].todo \subseteq Code
        BY <1>1, <2>1 DEF IInv, UserInv, Consistent, Busy, Stamping
      <3>2. user[u].failed \subseteq Code
        BY <1>1, <2>1, <3>1 DEF IInv, TypeOK
      <3>. QED BY <2>1, <3>2 DEF Stamped
    <2>4. Semantic(u, d) = rows[d].sem
      BY <1>1, <2>2 DEF Semantic, Prev
    <2>5. rows'[d] = NewRow(u, d)
      BY <1>1, <2>1, <2>3 DEF Stamp
    <2>6. NewRow(u, d) \in Rows /\ NewRow(u, d).sem = rows[d].sem
      BY <1>1, <2>1, <2>3, <2>4, NewRowIs
    <2>. QED BY <2>1, <2>2, <2>5, <2>6 DEF Changed, HashOf
  <1>2. IInv /\ [Next]_vars =>
          [Stamp("update") =>
             \A d \in Docs \ hidden :
               /\ ~Changed(d, "semantic")
               /\ user["update"].loaded[d] = rows[d]
               /\ user["update"].hashed[d].content = disk[d].content
               => ~Changed(d, "semantic")']_vars
    BY <1>1
  <1>. QED BY Invariance, <1>2, PTL DEF Spec, PaidWorkIsKept
=============================================================================
