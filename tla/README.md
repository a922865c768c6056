# Verification of graphify's concurrent and incremental machinery

graphify extracts a knowledge graph from the files of a repository and keeps it
in `graphify-out/`. Most of its code is sequential and data-driven (parsers,
resolvers, exporters). What is hard to test is the machinery around it: several
processes ask for rebuilds of the same output directory, get refused or killed
half way, queue work for each other, skip work they believe is done, and publish
derived files that long-running servers read at the same time; caches decide that
a file need not be read, extracted or sent to a model again; a worker pool and a
model backend answer in any order, partly, or not at all. This directory
models that machinery in TLA+, checks the models with TLC and proves their main
invariants with TLAPS.

All line numbers refer to `src/` as it stands; `PROJECT.json` maps every
definition of the models to the lines it stands for.

## 1. The system

### 1.1 Components, their state and how they interact

| component | source | state | operations |
|---|---|---|---|
| rebuild lock | `graphify/watch.py` 273-415 | `.rebuild.lock` (an inode found by its path), flocks, PID text | blocking and non-blocking acquire, release |
| pending queue | `graphify/watch.py` 31-103, 2079-2169; callers in `hooks.py`, `cli.py` | `.pending_changes`, `.pending_full` | queue a request, drain, drain again, time out |
| rebuild pass | `graphify/watch.py` 1105-2076, 2171-3212; `detect.py` 2983-3262 | `graph.json`, `graph.html`, `.graph.html.stale`, `manifest.json`, `.graphify_build_state.json` | gate, extract, merge, shrink check, replace, reconcile html, publish, stamp |
| snapshot store | `snap_writer.py`, `snap_store.py`, `snap_backend.py`, `native/snap-core` | `graph.snap` and its generation, `graph.snap.lock`, `graph.snap.<pid>.tmp`, readers' mappings | build, publish, open, follow, refuse, probe |
| community labels | `watch.py` 2950-3111, `cluster.py` | label, pending-label and signature sidecars | reuse guard, promote, write in order |
| watch loop | `watch.py` 3230-3446 | `changed`, `pending`, `config_changed`, `last_trigger` shared by two threads | observe, debounce, dispatch |
| build configuration | `watch.py` 112-143 | `.graphify_build.json` | read-modify-write |
| manifest, detection | `detect.py` 2705-2711, 2896-3509; callers in `cli.py` 4117-5485, `watch.py` 2588-3139 | `manifest.json` rows: mtime, `seen`, two hashes | classify, detect incrementally, load, hash, save |
| global graph | `global_graph.py`, `cross_repo_calls.py`, `build.py` 2976-3074 | `~/.graphify/global-graph.json` and its manifest | add, remove |
| server contexts | `serve.py` | pinned context, LRU of contexts, backends per path | load, reload, evict |
| extraction cache | `cache.py` | stat index, AST entries per content, semantic entries | look up, save, flush, switch roots, sweep |
| extraction run | `extract.py` 9205-9714 | results per file, futures of a process pool | scan, submit, take results, fall back, retry |
| semantic extraction | `llm.py` 2301-3356, `file_slice.py`, `cli.py` 4117-5500, `cache.py` 1406-1853 | chunks and partial results in memory, semantic cache, graph.json, manifest stamps | slice, pack, retry by halving, checkpoint, merge, save, stamp |
| file replacement | `paths.py` | destination, temporary, backup | replace, fall back to copy and swap |
| ArcadeDB backend | `query_backend.py`, `arcade_server.py` | a database, its recorded shortfall | load, incremental sync, reconcile |

Hooks, the watch loop and `graphify update` are separate processes that all call
`_rebuild_code`. It queues a request, takes the rebuild lock, drains the queue
and runs passes. A pass reads the sources and the previous outputs, replaces
`graph.json` and brings html, snapshot, manifest and stamp into step with it, in
that order and without a transaction. The snapshot is built by a child process
under a lock of its own, since `extract`, `cluster-only`, `label` and `snap build`
build it outside the rebuild lock. Servers map the snapshot and answer from it
while all this goes on.

Detection and extraction share `cache.py`: the stat index says whether a file has to
be read at all, its digest is the key of the AST and the semantic cache. `extract()`
serves files from the AST cache or hands them to worker processes that use the same
cache. `graphify extract` sends documents to a model in chunks, keeps what comes
back in the semantic cache, merges it into `graph.json` and stamps the files in
`manifest.json`, by which the next run decides what to send. `global add` merges the
`graph.json` of several repositories into one graph of the user.

The remaining parts (extractors and resolvers, graph construction, clustering,
queries, exports, ingestion, reflection, input validation, installation, command
line) are listed in `PROJECT.json` with the reason they are not modelled: they
are sequential transformations or plain I/O.

### 1.2 What is hard, and what makes each component correct

* Lock: `flock` locks an inode while the file is found by its path, and the
  holder unlinks the path before it unlocks. Correct means one process inside,
  visible to pollers at the path and with its PID, no file left by losers, and
  an answer to every blocking call.
* Queue: append, read and unlink are separate steps of different processes, and
  drained work is in memory only. Correct means no request is forgotten, drained
  work reaches the graph, an alarm ends the rebuild, the graph never goes back.
* Pass: sources change under it and it may end between any two of its writes.
  Correct means that the gate skips only what is up to date, derived files never
  look current when they are not, and incremental passes neither lose nor revive
  what other files contributed.
* Snapshot: writers race, die and leave files; readers keep mappings and decide
  by a generation number whether to look again. Correct means generations only
  grow and name what they hold, no answer is older than its request, readers
  recover, and the last write of `graph.json` ends up in the snapshot.
* Watch loop: two threads assign the same variables without a lock, in an order
  that differs between them. Correct means every change is in some batch, reaches
  the graph, and the loop does not answer its own outputs.
* Global graph: read, merge and write of two files by several processes without a
  lock. Correct means a row says what is merged (the next add skips by it), shared
  nodes stay shared, and merging one by one comes to what one merge would.
* Stat index: a clock that is coarser than the writes. Correct means a value served
  without reading the file is of its present content.
* Extraction run: futures fail one by one or all at once, files change under the
  workers. Correct means every file has its own result, finished work is kept, the
  cache tells the truth, and the call ends.
* Manifest: an extract and a rebuild load, decide and save it minutes apart, without a
  common lock, by mtimes that do not tell every edit. Correct means that a file called
  unchanged is unchanged and in the graph, and that paid work is not repeated.
* Semantic extraction: answers are cut off, empty, refused or late; a document's
  slices end in different runs. Correct means what is stamped or served is whole, what
  was answered is not asked again, and nothing unread passes for read.

## 2. Modules

| module | models | composes |
|---|---|---|
| `RebuildMutex` | the abstract lock: at most one holder | |
| `RebuildLock` | `_rebuild_lock`, POSIX branch, one action per system call | implements `RebuildMutex` |
| `RebuildLedger` | the abstract promise of a request: it is owed until it is served, or written down as lost | |
| `RebuildQueue` | `_rebuild_code` outside the pass, its callers and the queue | uses `RebuildMutex` as its lock, implements `RebuildLedger` |
| `RebuildPass` | one pass at a time and the files it keeps in step | |
| `SnapshotRegister` | the abstract `graph.snap`: an atomic register with generations | |
| `SnapshotStore` | writers, readers and probes of `graph.snap` | implements `SnapshotRegister` |
| `WatchLoop` | both threads of `watch()`, statement by statement | implements `RebuildLedger` for the code files |
| `GlobalGraph` | `global_add` and `global_remove` of several processes | |
| `StatIndex` | the stat fast path of `cache.py` for one file | |
| `ExtractRun` | phases 1 and 2 of `extract()`, pool workers, the AST cache | |
| `SemanticUnits` | slices and chunks, the vocabulary of the next two | |
| `AdaptiveRetry` | what a chunk can come to, a recursive function of the levels of retry left | extends `SemanticUnits` |
| `SemanticRun` | runs of `graphify extract` over documents | extends `AdaptiveRetry` |
| `FileManifest` | `manifest.json` between extracts and rebuilds that share no lock | |
| `WatchProofs` | the theorems about both `RebuildLock` and `WatchLoop`, whose definitions bear other names for that reason (`WatchInit`, `WatchNext`, ...) | extends the two |
| `CacheProofs` | the theorems about both `StatIndex` and `SemanticRun` (`SemanticInit`, `SemanticNext`, ...) | extends the two |
| `RebuildQueueProofs`, `RebuildPassProofs`, `SnapshotStoreProofs`, `GlobalGraphProofs`, `ExtractRunProofs`, `FileManifestProofs` | the theorems about one module each | extend the module they are about |
| `MCRebuildLock`, `MCRebuildQueue`, `MCRebuildPass`, `MCSnapshotStore`, `MCWatchLoop`, `MCGlobalGraph`, `MCStatIndex`, `MCExtractRun`, `MCFileManifest` | symmetry, option sets and shapes for TLC | extend the module they check |
| `MCSemanticRun` | the corpus of the runs: a sliced document and a file that goes out whole | extends `SemanticRun` |

Definitions named "...Forgotten", "...Ignored", "...TooMany" and the like, each
under a comment beginning with "Mutant", are plausible bugs of the definition
that follows them. Nothing refers to them: they exist to show that the property
listed with them in `PROJECT.json` would notice the bug.

### 2.1 RebuildLock

`path` is the directory entry, `owner[i]` the flock of an inode, `fd[p]` the
descriptor of a process, `pid[i]` the PID text of a file. `OpenAppend`, `Flock`,
`Refused`, `SameFile`/`OtherFile` (the comparison of descriptor and path),
`Reopen`, `GiveUp`, `WritePid`, `Unlink` and `Unlock` are the system calls in the
order of the code; `Killed` closes the descriptor. Inodes are reused once
neither the path nor a descriptor refers to them. The ghost `litter` remembers
that a call was killed or gave up, since such a call may leave the file.
Left out: the Windows branch, and an `OSError` while the PID is written.

### 2.2 RebuildQueue

File contents are version numbers; `graph` has the version each file was
extracted from. `Commit`, `Checkout` and `Update` are the three kinds of caller:
a commit edits files and asks for them without waiting, a checkout asks for
everything without waiting, `update` and the hook of a first build wait.
`Queue`/`QueueFull` append, `Enter`/`Refused` try the lock, `DrainFull`,
`ReadPending` and `UnlinkPending` are the three steps of a drain, `Extract` and
`Publish` those of a pass, `NextPass` the late-arrival loop, `Release` and
`Unlock` the end (after the release the flock still refuses callers).
`FailPass`, `AlarmOutside` and `Killed` are the ways to end early. The ghost
`dropped` collects the files whose request one of these may have lost.
A pass is taken to extract its files; when it may be skipped instead is the
subject of `RebuildPass`.

`RebuildLedger` is what all this is for, in four actions: `Request` puts files on a
ledger, `Rebuild` takes off what it brought up to date, `Lose` takes off others but
writes them down, `TakeUp` puts a file back that a rebuild will take along although its
request was lost. An earlier loss of a file may be forgotten when the file is requested
anew or brought up to date, never while it is behind without being owed.
The refinement maps `owed` to the stale files that the queue files, a caller on its
way or a pass still account for, and `lost` to `dropped`. Queueing, draining,
entering and leaving the lock are stutters: the ledger does not see a request being
handed on.

### 2.3 RebuildPass

A file's contents have a shape (the nodes and edges extracted from it); several
contents may have the same shape, which is what makes "topology unchanged"
different from "file unchanged". `graph` is the shape each file contributes to
`graph.json`, `layout` whether it was written clustered or with `--no-cluster`.
`html` and `synced` say whether the html and the snapshot were made from this
very `graph.json`; the stamp's `fresh` says the same of its size and mtime.
`Begin` is detection and the gate, `Skip` the gate's short cut, `Extract` the
extraction (any subset of the targets may fail) with the merge of
`_reconcile_existing_graph`, then `Untouched`, `Refuse` or `MarkHtml` and
`Replace`, then `SaveManifest` or `SaveFails`, `ReconcileHtml`, `Publish` and
`Stamp`. `Abandon` ends the pass at any of these points. `Edit` changes or deletes
a source at any time.

Two ghosts state what is known: `dirty` is the set of files changed since a graph
that has them (it is cleared when a file is extracted, and set again when that
extraction is thrown away), and `slipped` the set of files whose manifest row may
describe something else than the graph has.

Abstractions: node counts are not modelled, so the shrink guard may refuse
whenever nodes of a failed file are missing; semantic nodes, ignore rules, the
report, labels, callflow html and ArcadeDB are left out; the manifest's mtime fast
path is a comparison of contents; detection and gate are one step; a `graph.json`
equal in every respect is covered by the topology test that precedes it.

### 2.4 SnapshotStore

`json` is the version of `graph.json` (0: none), `live` the published generation
and the version it was made from. `Begin` is a command that rewrites `graph.json`
and then builds, or one that only builds; `Scan`, `Lock`/`TimedOut`, `WritePid`,
`Sweep`, `Encode`, `Publish`, `Unlock` follow `build_snapshot`; `Killed` may leave
the temporary file. A reader opens (`Open`, `Check`) and then for each request
peeks (`Ask`), maps again when the generation differs (`Follow`), compares with
`graph.json` (`Check`) and answers. Every refusal asks `writer_pid`, which takes
the lock it inspects (`Probe`, `EndProbe`, `ReadPid`). `Purge` deletes the output
directory between builds, which leaves the readers' mappings alone; the ghost
`outlived` is the set of readers that have not mapped anything since. Versions of
`graph.json` differ in size or mtime, which is what `check_fresh` compares.
Left out: Windows, other wheels and formats, files removed by hand, and a purge
in the middle of a build.

`SnapshotRegister` is `graph.snap` as its users see it: `Write` a version of
`graph.json`, `Publish` the next generation of one that was written, `Purge`, `Look`
at what is published, `LetGo`. The refinement maps the register to `live` and what a
reader works with to `snap`; `Publish(b)` is the one step of a writer that shows, and
only if it still has its file.

### 2.5 WatchLoop

Contents are versions: `disk` of each file, `graph` of what was extracted,
`config` of `.graphifyrc`. Users change files (`Write`, `Delete`, `Replace` by an
atomic save, `Move`, `Configure`) and the file system reports each change in
`inbox`. The observer thread handles one event at a time: `Take` applies the filters
of the handler, then `Override`, `Flag`, `Trigger`, `Pend` and `Add` are the
assignments in their order. The dispatch thread is `Wake` (the condition), `Fire`,
`List`, `Clear`, `Ask` and `Unset` (load and store of one tuple assignment),
`Decide`, `Extract` and `Publish` (the rebuild) or `Fail`, and `Notify`. `Tick` lets
the debounce time pass. The ghost `missed` collects the files whose change the code
is known to lose: added between `list` and `clear`, added after the `pending` of its
event was consumed, the flag set between load and store, a rebuild that failed.
A rebuild takes the whole corpus, as `watch` calls it; inside it is `RebuildPass`.

What the loop does itself comes back in `inbox` too (`Hear`): the handler opens
`.graphifyrc`, a rebuild opens it and the sources and writes to `graphify-out`, also
when it fails. `ReadOnly` and the last conjunct of `Watched` are the two filters
(watch.py:3259-3274, 3403-3406) that keep these events from being taken for changes, and
`LoopSettles` is what they are for: without either of them TLC finds a loop that never
goes to sleep. Of the files a rebuild opens one stands for all, and of those it writes
`graph.json`, which has a watched suffix. An own event equal to one that still waits is
not queued again (watchdog drops one equal to the last; the model has fewer of them,
never none). `graphify-out` is taken to be one path component under the watched root, as
it is by default: `_GRAPHIFY_OUT in filter_parts` compares single components, so a
`GRAPHIFY_OUT` of several would not match. Left out: files that are ignored, outside the
root or in dot directories, and directories, whose events return early, and the flag
file, which has no watched suffix.

For the code files the loop keeps the same promise as the queue, so it implements the
same `RebuildLedger`: owed is what the graph is behind on and `Coming`, that is
reported, held by one of the threads or read by a rebuild; `lost` is `missed`. A change
is a request, `Pend` takes up what lies in `changed`, and `Decide`, when anything sets
off a rebuild, all the code. Documents wait for the flag and remapped files for the
overrides; of these `OnlyKnownMisses` speaks.

### 2.6 GlobalGraph

A repository's `graph.json` has one of a few contents, and `Shape` says of each which
external libraries its code uses, whether it declares the type the repositories call
each other through, and whether it has such a call. `graph` holds what was merged:
the content of each repository, the library nodes with the repository whose id they
have, the edges to them, the calls across repositories. `Add`, `Skip`, `Hash`,
`Read`, `Load`, `Save`, `Sync` and `Record` are the steps of `global_add` that other
processes can come between, `Remove` joins at `Load`; `Abort` is an exception or a
kill at any of them. Ghosts: `torn` (the last operation ended between graph and
manifest, or hashed and read different contents), `raced` (two operations overwrote
each other's work), `severed` (uses lost with another repository's node) and
`unlinked` (calls wait for the next add). Left out: the database's contents, `list`,
and collisions of tags.

### 2.7 StatIndex

One file; its contents are numbered, and a cached value is the number of the content
it was computed from. `Stamp` rounds the clock as the file system does. A call is
`Call` (bind the index, flushing another root's), `Stat` (the fast path), `Observe`
(the clock), `Read` (the content and the entry), or `Vanished`. `Exit` flushes,
`Kill` does not. `disk` is the `stat-index.json` of each cache root. A cell carries
two ghosts: the root it was computed under and whether it was renewed, see 3.2.
Entries of different files do not touch each other, so one file is enough; two
processes meet on disk only, where the last to write wins, and the run has one
process after another that load what the earlier ones left.

### 2.8 ExtractRun

`per_file` is the list of results, `pending`, `completed` and the workers' program
counters the executor. Workers `Take` a file, `Check` the cache, `Extract` and
`WorkerSave`; the caller takes futures in any order (`Consume`, `Failed`, `Broken`),
falls back (`Sequential`, `ExtractOne`, `SaveOne`, `SaveRaises`), retries (`Retry`)
and fills (`Fill`). `PoolBreaks` fails every future that is not completed. `Edit`
changes a file at any time, also back to an earlier content. A content is its own
digest here; when that may be wrong is the subject of `StatIndex`. The ghost
`slipped` is the set of files edited between their extraction and the save, which
hashes them anew. A result is good, skipped (no nodes, with a reason, and cached all the
same, extract.py:9268, 9486), empty, or an error. Left out: recorded target files of an entry, deletions, and two
calls of `extract()` at once.

### 2.9 SemanticUnits, AdaptiveRetry and SemanticRun

A document is a number of pieces, a unit (`FileSlice`, or a whole file) a range of
them. `Corpus` lists the units of all files in the order they are packed, and a chunk is
a set of positions in it; for the recursion, which halves it, the sequence of its
units. `AdaptiveRetry!Outcomes(chunk)` is the set of all results the recursion can
come to: each request is answered completely (leaving out any of the files), cut
off, hollow, refused as too large, not in time, or with another error. The recursion
is a function, `Extract[left]`, of the levels of retry that are left; each level maps a
request (a chunk and an output budget) to the set of its results, given those of the
level below. `SemanticRun!Attempts` applies it to the chunk's units in the order they go
out. Repeating a hollow request changes only the number of calls, which is not
modelled.

A run of `SemanticRun` is `Begin` (which files, which of them are hits, any packing of
the others' slices), then `Raised` or `Returned` for each chunk in any order, the
latter with its checkpoint in the cache, then `AllFailed` or `FinalSave`, `Refuse` or
`WriteGraph`, `SaveManifest`; `KillRun` ends it anywhere. Cache writes fail file by file. The
guard of an incomplete run is `Refused`: of a clustered graph it asks whether a node is
lost (`to_json`), of a `--no-cluster` one only whether there are fewer (cli.py:5162-5182).
The ghost `kept` is the set of files a chunk has completed and checkpointed; `short`
the files of which some slices or halves came to nothing while others came back:
because their chunk raised, was given up, could not be checkpointed or was not
reached by a killed run, or because the answer left the file out. Documents are not
edited or deleted and there is no code: another content would be another file to
cache and manifest. Left out: deep mode, hyperedges, items attributed to other
files, deduplication.

### 2.10 FileManifest

A file's hash is its contents, its mtime the clock tick of its last edit; `rows` is
`manifest.json`, `graph` the contents each file was extracted from. `user` holds what
an extract and a rebuild have in memory. Both go through `Read` (extract their
files), `Merge` (load `graph.json`), `Write`, `Refuse` or, for a rebuild, `Untouched`
(same topology), `Hash` (load the manifest, hash every file that will be stamped) and
`Stamp` (compute and save the rows). They differ in what they start with (`Begin`:
what `Changed` and the two heals say, or everything; `BeginUpdate`: the code files it
was given), in what counts as incomplete (`MayRefuse`), and in what they stamp
(`Stamped`, `Semantic`, `OldRow`). `Edit` and `Kill` come anywhere. The system starts
with no output or with a complete one. `Window` is the age under which a row is not
trusted; the two values in the code belong to two kinds of file system, of which a
file is on one.

Two ghosts name what the code lets through: `hidden`, files rewritten between their
hash and their row within one tick, whose row looks older than it is, and `slipped`,
files whose row vouches for other contents than were extracted. Every other file is
covered by the properties. Left out: deletions (in `RebuildPass`), slices (in
`SemanticRun`), excluded files, languages, old row formats, `--code-only`, files that
extract to nothing by design, and the stat and hash of one file as separate steps (an
edit between them leaves an older mtime with the newer hash, which is hashed again).

## 3. What the runs check

### 3.1 Passing runs

| run | bounds | shows |
|---|---|---|
| `lock` | 2 processes, 3 inodes, 2 rounds | `MutualExclusion`, `HolderIsVisible`, `PidNamesHolder`, `FileIsCleared`, `ImplementsMutex`, `BlockingCallReturns` |
| `queue` | 3 callers, 2 files, 1 edit each, 1 late pass, every request kind, failures, alarms, kills | `OnlyKnownLosses`, `GraphNeverGoesBack`, `ImplementsLedger` |
| `queue_live` | 2 callers, 2 files, no failures | `DrainServesTheQueue` |
| `pass` | 2 files, 2 contents, 1 edit, creation or deletion, clustered passes mixed with `--no-cluster` ones, full or over any of the files, failures anywhere | `SkipIsSound`, `HtmlNeverLooksCurrent`, `CleanFilesAreInGraph` |
| `snap` | 2 writers, 1 reader, 3 builds, 3 versions, failures, timeouts, kills, purges | `GenerationNamesSnapshot`, `SweepSparesTheLiving`, `AnswersAreNotStale`, `GenerationsGrow`, `ImplementsRegister`, `ReaderRecovers` |
| `global` | 2 processes, 3 repositories, 2 libraries (one a stub), 2 contents, 1 rebuild, 4 operations, failures | `RowsTellTheGraph`, `LibrariesAreShared`, `UsesAreRewired`, `CallsAgreeWithOneMerge` |
| `watch` | a code file, a document, a remapped file, `.graphifyrc`, 2 changes, failing rebuilds, the events of the loop's own reads and writes | `OnlyKnownMisses`, `ChangesReachTheGraph`, `ImplementsCodeLedger`, `LoopSettles` |
| `stat` | 1 process after another, 2 roots, a digest and a count, 2 sizes, 2 contents, a clock of 4 instants with ticks of 2 | `ServedIsCurrent`, `RootsKeepApart` |
| `extract` | 2 files (one never cached), 2 workers, 2 contents, 2 edits, 3 calls, failures, broken pools | `EveryFileIsAnswered`, `CacheIsTrue`, `WorkIsKept`, `CallsEnd` |
| `semantic` | a document of two slices and one that can be halved once, 2 runs, depth 2, one halving of the budget, failures, kills | `HitsAreWhole`, `StampedIsInTheGraph`, `CompletedChunksAreKept`, `AnswersAreAccounted` |
| `manifest` | a code file, a document, 2 contents, 2 edits, 2 runs (extracts or rebuilds, in sequence or at once), 3 ticks, failures, kills | `VerdictsAreSound`, `DoneIsInTheGraph`, `PaidWorkIsKept` |

Why these bounds: the lock's dangerous case needs a holder that unlinks, a waiter on
the orphaned inode and somebody who creates a new file, which two processes that
call again and again can be in turn, with a third inode for reuse; the proofs
cover any number of processes. The queue's needs a holder that drains, one that appends and one that
is refused. A pass needs two files, so that an incremental one leaves a file out whose
nodes it must keep, and two modes in turn. What one edit does not give, an edit that is
taken back or an edited comment, was checked by two further configurations:
`MCRebuildPassEdits.cfg` (two files, two edits, clustered passes, and the type
invariant) and `MCRebuildPassModes.cfg` (one file, three contents of two shapes, two
edits, and `--force` without html as a third mode); the theorems are about any number.
The snapshot's races need two writers;
three builds let a third generation follow a lost one or one that was purged;
readers meet each other only in the probes, which writers make as well. The watch
loop's races need one change under way while another is dispatched, which two changes
give, of every pair of file kinds (`ImplementsCodeLedger` was checked with three changes of two
code files as well, 10 million states); its safety invariant was checked with five changes of
one remapped file as well (6 million states) and is proved for any number. The global
graph needs three repositories for an
ambiguous declaration, and four operations for add, add, remove, add again with two
of them at once. The stat index needs a tick with two writes in it and a reading
after it: a clock of two ticks. An extraction run needs a second call to be served
what the first has saved, a third to see an edit taken back. A semantic run needs one
file whose slices can end in different chunks, one that shares a chunk with a slice,
and a second run that lives on the first. The manifest needs two runs that overlap or
follow one another on a finished graph, an edit that is taken back, and a tick before
and after the saved one; with three runs and one tick less they hold as well (11
million states, too many for the run). Edits, builds, passes, runs and rounds are counted
only to keep the state space finite; the proofs hold for any bound.

`CHECK_DEADLOCK FALSE` stands where bounded actors really run out of work: after the
last change, operation, edit or run of `watch`, `global`, `stat`, `extract`,
`semantic` and `manifest`, and in the configurations that refute a claim. In `lock`,
`queue`, `pass` and `snap` deadlock is checked. The type invariants are proved for
every component instead of being checked by the runs; the bound on the late passes is
part of that of the queue.

### 3.2 What the models refute

One run is expected to find a violation:

| run | claim | what happens |
|---|---|---|
| `semantic_half` | a file whose chunk failed is "left unstamped and retried next run" (llm.py:2564, cli.py:357) | one half of a document is answered, the other is given up or its chunk fails: the file is stamped with half of its content in the graph (its cache entry, if one is written, is complete to the next run, which is why `HitsAreWhole` exempts such files) |

Further configurations show the counterexamples that `PROJECT.json` has no room for;
each checks one claim of the repository that does not hold:

| configuration | claim | what happens |
|---|---|---|
| `MCRebuildQueueLost.cfg` | the queue keeps refused changes (watch.py:34) | a path appended between the drain's read and its unlink is deleted unread |
| `MCRebuildQueueStranded.cfg` | the lock holder drains the queue (watch.py:2117) | a request queued after the last drain and refused before the unlock stays queued |
| `MCRebuildQueueAlarm.cfg` | the timeout bounds a rebuild (watch.py:3289) | the pass swallows the TimeoutError, the late-arrival loop goes on without an alarm |
| `MCRebuildPassSkipped.cfg` | the gate fails closed (watch.py:1761) | a file edited between extraction and `save_manifest` is stamped as edited, and the next full pass is skipped |
| `MCRebuildPassUnsynced.cfg` | a rebuild that could not sync did not succeed (watch.py:3175) | the pass after a failed publish finds the topology unchanged and succeeds with the old snapshot |
| `MCSnapshotStoreOvertaken.cfg` | the snapshot is rebuilt after every write of graph.json (README.md:7) | of two builds the one that scanned the older file publishes last |
| `MCStatIndexRenewed.cfg` | "two different contents can never share a digest" (cache.py:533) | a digest read while the tick of the mtime was open is renewed, and then trusted, when the word count is read again |
| `MCFileManifestStale.cfg` | a file counts as changed when its "content has changed since the last semantic extraction pass" (detect.py:3411) | a file is edited, extracted and edited back; the extract is killed between graph.json and manifest.json: the old row says unchanged, the graph has the edit |

The passing runs account for these behaviours by ghosts (`dropped`, `slipped`,
`outlived`, `renewed`, `short`, `hidden`), so that everything else stays checked. The models
show more of them, without a configuration of their own:

* a kill between the drain and the pass loses the drained paths, which are in
  memory only, although watch.py:65 says that unlinking first retains them;
* `--no-cluster` replaces graph.json and returns True without a snapshot
  (`SuccessMeansSynced` fails for the option set `Mixed` without any failure);
* after a purge generations restart at 1, so a server that has the old generation
  1 mapped refuses for good (`ReaderRecovers` exempts readers in `outlived`);
* two concurrent `writer_pid` probes see each other, and the second reports the
  PID of an earlier writer;
* the watch loop loses a path added between `list(changed)` and `changed.clear()`,
  a `.graphifyrc` change set between the load and the store of `config_changed`, and
  every change of a batch whose rebuild fails; a path added after its `pending` was
  consumed waits for the next event (`missed`). Edits that never pause for the
  debounce time put off every rebuild. The flag file is `needs_update`
  (watch.py:3230), the skill removes `.needs_update` (skill.md:702);
* removing or re-adding a repository takes the library nodes that came with it and
  the other repositories' edges to them, although global_graph.py:167 says edges are
  "rewired instead of dropped" (`severed`);
* an extraction that was overtaken by an edit is cached under the digest of the new
  content, since `save_cached` hashes the file again (`slipped`);
* a code file edited during an extract, or not extracted because the whole AST pass
  crashed under `--allow-partial` (cli.py:4669), is stamped as extracted, since neither
  counts as a failed source (`slipped` of `FileManifest`); a file rewritten between its
  hash and the save of its row, in the tick of its previous edit, is taken for unchanged
  from then on (`hidden`), although detect.py:3268 means to exclude that.

None of the first six makes a query answer from an old graph: the readers compare
with `graph.json` and refuse (`AnswersAreNotStale`).

### 3.3 Fairness

* `RebuildLock`: weak fairness of each process's next step (a process that runs
  keeps running, and a rebuild inside the lock ends) and strong fairness of
  `Flock`, which the kernel grants to waiters of a lock that is freed again and
  again. No call and no kill is forced.
* `RebuildQueue`: weak fairness of each process's steps, strong fairness of
  `Enter` for the same reason as above. Nobody has to ask for a rebuild.
* `WatchLoop`: weak fairness of the observer thread, of the dispatch thread and of the
  clock; both threads run, and a pause of the length of the debounce time comes
  because changes are bounded. `Fail` is not forced and users need not change
  anything.
* `ExtractRun`: weak fairness of the caller and of each worker; extractors end.
  Nothing has to fail and nobody has to edit or call again.
* `SnapshotStore`: weak fairness of writers, readers and probes. For readers it
  includes `Ask`: the property is about a server whose clients keep asking. The
  lock needs no fairness, because the property assumes the snapshot is current.

The violated liveness property `EveryRequestServed` of `MCRebuildQueueStranded.cfg` is
checked under the same fairness, so its counterexample is not a process that simply
stops. `GlobalGraph`, `StatIndex`, `SemanticRun` and
`FileManifest` have safety properties only.

## 4. What is proved

The theorems hold for every number of processes, files, builds, changes and edits. The
named assumptions on constants only say that the special values are special
(`NoProc` is no process, no result is `None`), the bounds are numbers, the kinds of files
do not overlap, a file can have some contents, and, for the two caches that trust mtimes,
what the code assumes itself: a tick of the file system no longer than the granularity
of `cache.py`, and a racy window of at least a nanosecond. Of the semantic extraction it
is assumed that no unit of the corpus is empty and no two share text, which is what
`slice_boundaries` promises. That a chunk's result is of the chunk's own text is proved of
`AdaptiveRetry` (`OutcomesAreSound`), where an answer has nodes of the text it was asked
about and of no other. The checkpoint enforces that file by file
(`allowed_source_files`); the end of the run does so for all dispatched files together
(`scope_semantic_result`), so nodes that a model attributes to a file of another chunk are
outside the theorems, as they are outside the model (2.9).

* `WatchProofs`, of the lock: `TypeCorrect`, `MutualExclusionHolds`,
  `HolderIsVisibleHolds`, `PidNamesHolderHolds`, `FileIsClearedHolds` and
  `LockImplementsMutex`. Mutual exclusion is not inductive. `LockInv` adds who
  owns which flock, in both directions, and `PathInv` what the path says: the one
  inside has locked the inode at the path, one that has unlinked it has another.
  Two processes inside would then have locked the same inode. The refinement maps
  `WritePid` and everything outside to a stutter, `SameFile` to an entry, `Unlink`
  and the kill of the one inside to an exit.
* `RebuildQueueProofs`: `TypeCorrect`, `GraphNeverGoesBackHolds`,
  `OnlyKnownLossesHolds`, `ImplementsLedgerHolds`, `LedgerForgetsNothing`. `HolderInv` says that exactly the holder is between
  drain and release; `VersionInv` that what it extracted is no older than the
  graph and no newer than the disk. `LossInv`, inductive on its own, accounts for
  every stale file. For the refinement, `RememberedIs` splits what is remembered into
  what the queue files and the acting process hold (`Held`) and what the others carry
  (`Elsewhere`), which no step of another process changes; `HandedOn` then makes the
  steps that keep `Held` stutters, and `WrittenDown` those that shrink it a `Lose`. A
  request queued as `.pending_full` needs `FullInv`: only callers that want everything
  go there. `LedgerForgetsNothing` is the ledger's own invariant.
* `RebuildPassProofs`: `TypeCorrect`, `HtmlNeverLooksCurrentHolds`,
  `CleanFilesAreInGraphHolds`, `SkipIsSoundHolds`. The chain is: files outside
  `dirty` are in the graph (or in the candidate that is about to replace it);
  what the scan did not find and is not dirty is gone from disk (`ScanInv`);
  failed files stay dirty and get no row (`FailedInv`); therefore a fresh stamp
  vouches for every row outside `slipped` (`VouchInv`), which is what a skipped
  pass relies on.
* `SnapshotStoreProofs`: `TypeCorrect`, `GenerationNamesSnapshotHolds`,
  `SweepSparesTheLivingHolds`, `AnswersAreNotStaleHolds`, `GenerationsGrowHolds`,
  `ImplementsRegisterHolds`. The flock covers a writer from its PID to its unlock (`LockInv`), so what it peeked is still the published
  generation when it renames (`GenInv`), so whatever a reader has mapped since the
  last purge is the published snapshot or an earlier generation of it (`SnapInv`);
  a purge needs every writer to be done, so it disturbs none of the rest. The
  refinement needs `GenInv` for "the next generation" and `ScanInv` for "a version that
  was written": what a writer scanned was `graph.json`, and no purge comes before its
  rename.
* `WatchProofs`, of the watch loop: `WatchTypeCorrect`, `OnlyKnownMissesHolds`,
  `ImplementsCodeLedgerHolds`, `NoCodeIsForgotten`.
  `OnlyKnownMisses` says where a change is that the graph lacks, and each of the twelve
  positions of the two threads moves it on. `FileInv`, `RemappedInv` and `DocInv` follow
  one file through them by the kind of event that reports it, `ConfigInv` follows a change
  of `.graphifyrc` through the flag and the rebuild's copy of it, `OverrideInv` the
  handler's cached overrides. An event of the loop's own work names nothing that anyone
waits for (`EchoIs`), so hearing it keeps every one of these (`HearKeeps`). Trying to
  prove the property showed that it was not true as first stated: a remapped file edited
  while a rebuild publishes overrides that no longer map it. `Rebuilding` now counts only
  what the rebuild has seen. For the refinement, `ComingIs` says what is coming for a code
  file; `CodeStutters`, `CodeIsTakenUp` and `CodeIsLost` make a step of the ledger of what
  an action does to that, and each position of the two threads is one of the three. Only
  `Publish` and the users' changes touch the graph or the disk; there `AgeInv` says that
  what was extracted is between the two. `NoCodeIsForgotten` is the ledger's promise,
  drawn from its steps alone.
* `GlobalGraphProofs`: `TypeCorrect`, `RowsTellTheGraphHolds`, `LibrariesAreSharedHolds`,
  `UsesAreRewiredHolds`, `CallsAgreeWithOneMergeHolds`. `PruneIs` and `MergeIs` say what
  `prune_repo_from_graph` and `merge` make of a graph; from them a graph that is `Sound`
  and `Linked` stays so, whoever holds it in memory (`GraphInv`), so that the last writer
  always writes a good graph. `FlightInv` holds the row and the graph together between
  the two writes.
* `CacheProofs`, of the stat index: `TypeCorrect`, `ServedIsCurrentHolds`, `RootsKeepApartHolds`. An
  entry is `Honest`: what it holds without a renewed stamp is of the present contents, or
  the entry is racy, or its mtime is not the file's. A write makes no honest entry
  dishonest because the new mtime is in a tick that is not over (`StampIs`), which is where
  the assumption on the granularity is needed. `RootInv` says that a process's index was
  computed under the root it is bound to.
* `ExtractRunProofs`: `TypeCorrect`, `EveryFileIsAnsweredHolds`, `CacheIsTrueHolds`,
  `WorkIsKeptHolds`. `FutureInv` says that a future is queued, with one worker, or done,
  and never two of these; `SlotInv` that a slot is empty exactly while somebody is to
  fill it; `NameInv` that what goes around under a file's name is of that file;
  `UnsavedInv` ties an extraction not yet saved to the content it was made of.
* `FileManifestProofs`: `TypeCorrect`, `VerdictsAreSoundHolds`, `DoneIsInTheGraphHolds`,
  `PaidWorkIsKeptHolds`. A row is `Truthful`: if it has the file's mtime and not its
  contents, it looks racy; so are the rows a run has loaded (`LoadedInv`), since a run may
  save them much later. `AgreeInv`, `AloneInv` and `LeftOutInv` relate rows, graph and
  the memory of a run that is alone; `OverlapInv` says that two runs at once put every
  file in `slipped`.

* `CacheProofs`, of the semantic extraction: `SemanticTypeCorrect`, `HitsAreWholeHolds`,
  `StampedIsInTheGraphHolds`, `CompletedChunksAreKeptHolds`, `AnswersAreAccountedHolds`,
  and `OutcomesAreSound` of `AdaptiveRetry`. `ChunkInv` says that the
  chunks of a run share no unit and have all of the files it sends; from it and
  `ApartIs` follows what a chunk's end means for a file (`EndIs`): one that is in the
  chunk as a whole was never asked before, nor will be. `HitInv` says of an entry that
  would be served that it is whole or has exactly what has come in so far (`Past`);
  `NothingInv` excludes the entry that is missing because a first slice left nothing;
  `FreshInv` says the same of the results in memory, which replace the entries at the
  end. When all chunks have ended, what has come in is everything (`DoneIs`). `SemInv`
  and `GraphInv` carry it on to `graph.json` and the stamps.

  `OutcomesAreSound` is by induction on the levels of retry. The library's induction
  theorems take a predicate as a parameter and cannot be used here, so the induction is
  over sets: `LeastIs`, from `NatLessThanWellFounded` and `WFMin`, says that a nonempty set
  of numbers has a least element. Applied to the levels whose results are not `Sound` it
  gives the theorem, applied to the levels up to which no function satisfies the
  recursion it shows that `Extract` is well defined (`RetriesExist`, `ExtractIs`). The
  step is `SplitIsSound`: the halves of a chunk have together all of its text and
  nothing else (`HalvesAre`), so what accounts for both accounts for the chunk.

Each inductive invariant was checked by TLC on the runs above before it was proved, and so
was each refinement, as a property of the run.

Only model-checked: the liveness properties (`BlockingCallReturns`,
`DrainServesTheQueue`, `ReaderRecovers`, `ChangesReachTheGraph`, `LoopSettles`,
`CallsEnd`), which need fairness and `ENABLED`. Every other property of the passing runs,
every invariant among them, is a theorem.

## 5. Not modelled yet, and the plan

Done since the plan was first written: `WatchLoop`, `GlobalGraph`, `StatIndex`,
`ExtractRun`, `AdaptiveRetry`, `SemanticRun` and `FileManifest`, each with its safety
properties proved, and the abstract `RebuildLedger` and `SnapshotRegister`. To be
modelled, with what each should establish:

1. `CommunityLabels` (watch.py 2950-3111): the three sidecars written in order,
   kills between them, and the guard. A reused name always describes the
   clustering it is attached to, or the label was pending.
2. `RebuildSystem`: `RebuildPass` inside the holder of `RebuildQueue`, `WatchLoop` as
   one more caller, next to a command that writes `graph.json` without the lock
   (cli.py:2864), and `_write_build_config` (watch.py 112-143).
3. `ContextCache` (serve.py 122-205): stat before load, pinned and LRU contexts.
   A served context is of the file the next stat describes, the cache is bounded.
4. `ReplaceFallback` (paths.py 84-160): copy and swap with a crash anywhere.
   The destination or its backup is always whole.
5. `ArcadeSync` (query_backend.py 1763-): incremental sync that fails half way,
   recorded shortfall, full reload.
6. Windows branches of both locks, as variants of `RebuildLock` and
   `SnapshotStore`.
7. Pure algorithms worth a reference definition: community renumbering,
   topology comparison, duplicate-edge removal.

Parts that will stay out: the syntax-tree walks and resolvers (over half of the
source, sequential and data-dominated), exports, ingestion, queries and installation
(sequential or pure I/O), model calls and database queries (external), and the Leiden
partition (library).

## 6. Running

    tlc -workers 2 -config MCRebuildLock.cfg MCRebuildLock
    tlapm WatchProofs.tla

The runs finish in about three minutes or less each. Each is listed in `PROJECT.json`
with its configuration, the properties it checks and whether it is expected to
pass or to refute a claim.
