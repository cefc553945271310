# A TLA+ model of OpenViking's concurrent core

OpenViking is a context database for agents: resources, memories and skills are
files in a virtual file system (AGFS, implemented by `crates/ragfs`), with
summaries and vectors that background workers derive from them. What is hard to
get right in it is neither the parsing nor the retrieval. It is that several
processes write the same tree under file-based locks, that the derived data
follow from work that has to survive crashes in a queue, that a session is
archived in two phases which may be cut off anywhere, and that reads go through
a cache that has to forget in time. This project models those parts, checks them
with TLC and proves central properties with TLAPS.

## Inventory

| Component | State | Operations | What makes it correct |
|---|---|---|---|
| Path locks, `storage/transaction/path_lock.py` | lock files with fencing tokens, `LockHandle.locks` | `acquire_exact_path`, `acquire_tree`, `acquire_mv`, `refresh`, `release` | overlapping locks exclude each other; calls return; orphans are reclaimed |
| Lock manager and leases, `lock_manager.py`, `lock_lease.py` | handle table, refresh tasks | batches, hand-off, adoption, cleanup of stale handles | all or nothing; a hand-off neither drops nor doubles a lock |
| Queue backend, `crates/ragfs/.../queuefs` | table `queue_messages` | enqueue, dequeue, ack, size, clear, `recover_stale` | a message is deleted only by an ack or a clear |
| Named queues, manager and workers, `storage/queuefs/named_queue.py`, `queue_manager.py` | `in_progress`, worker threads, stop events | worker loops, `stop`, `check_status`, `wait_complete` | no job is lost; the counter is exact; waiting means done |
| Queue handlers, `semantic_processor.py`, `collection_schemas.py`, `add_resource_processor.py`, `session_commit_processor.py` | none that outlives a message | `on_dequeue`, report, re-enqueue | every message is reported once; a retry is not lost |
| Semantic queue, `semantic_queue.py` | time of the last enqueue, coalesce versions | `enqueue`, staleness test | the latest version wins |
| Semantic DAG, `semantic_dag.py`, `embedding_utils.py` | nodes with their pending counts, change status, vectorize tasks | walk down, summaries up, sidecars, vectors | an overview waits for its children; a change reaches every directory above it |
| Embedding tracker, `embedding_tracker.py` | remaining count per semantic message | `register`, `decrement` | the tree lock is released, after the last embedding |
| Circuit breaker, `utils/circuit_breaker.py` | state, failure count | `check`, `record_success`, `record_failure` | a broken API does not hold up whoever waits for it |
| Session commit, `session/session.py` | archive markers, live messages, queue message, progress of the extraction | `add_messages`, phase one, phase two, recovery | no message is lost, none is extracted twice, every commit ends |
| Task tracker, `service/task_tracker.py` | cached and stored task records | create, start, complete, fail | a task tells what became of its commit |
| VikingFS, `storage/viking_fs.py` | files and vectors | rm, mv, write | files and vectors agree after a failure |
| Watch scheduler, `resource/watch_scheduler.py` | due times, executing set | scan, trigger | no task runs twice at a time |
| RAGFS cache wrapper, `crates/ragfs/src/cache/wrapper.rs` | entries and generations in a provider, bypassed scopes, in-flight table | read, list, grep, every mutation | no stale read after a write; concurrent misses stay single |
| RAGFS multi-backend wrapper, git snapshots | replicas, refs | write, commit | no lost write, no lost commit |
| Vector index, retrieval, parsers, memory extraction, wiki, server, CLI, SDKs, bot | mostly none | | out of scope: numeric, sequential or glue |

A writer takes a path lock through the lock manager, writes through VikingFS, and
enqueues semantic work. A worker thread per queue fetches messages, its handler
takes locks of its own (or the one handed over with the message), writes, and
enqueues embedding work. Clients wait by polling the status of all queues. Hard
behaviour comes from: AGFS calls that are not atomic with each other, processes that die
with locks or messages in hand, timers that race with late answers (expiry
against refresh, deadline against retry, drain against cancel), and counters kept
in memory beside a table kept on disk. `PROJECT.json` lists the hazards, each at
its line.

## Modules

- **PathLock** models `PathLockEngine` and the refresh loop of a lease. One action
  is one AGFS call with the local code that follows it, so other owners run
  between any two calls. The state is the content of every lock file, what `stat`
  says of every path, the clock, and per owner the program counter, the request,
  what its current scan has still to read, and the locks its handle lists. The
  program counters follow the acquire loop: `check` (pre-check), `stale`,
  `rmstale`, `mkdir`, `write`, `verify1` (exact locks only), `post` (double-check),
  `theirs`, `mine` (livelock guard), `backown`, `backrm`, `quitown`, `quitrm`,
  `verify`. `lost` is a history variable: whose token was destroyed under it, be it
  by another owner or by a failed attempt of its own.
- **PathLockProofs** proves type correctness and exclusion.
- **JobLedger** is the abstract specification of the queues: a job that was
  accepted stays on the ledger until it is settled or its queue cleared.
- **QueueFS** models the SQLite table, both worker loops, the `in_progress`
  counter, the reports of a handler, `stop` with drain and cancel, crash and
  restart, messages that do not parse (`FetchFails`: the row is 'processing' before the
  backend looks at its data), the deduplication of memory messages, and `wait_complete` as the
  sequence of reads it is. A *job* is the unit of work that messages carry; a
  re-enqueued message is another message of the same job.
- **QueueFSProofs** proves type correctness, the ack discipline, that no message is
  left behind, that the counter is exact, and that QueueFS implements JobLedger under
  the mapping `owed <- {r.job : r \in rows}`.
- **SessionCommit** models the commit of one session: `add_messages`, the first
  phase under the session lock (`commit.pc` follows its writes: `marker`, `raw`,
  `enqueue`, `task`, `root`, `ready`), and the queue handler of every archive
  (`phase2[a].pc`: `begin`, `ensure`, `wait`, `run`, `meta`, `done`, `complete`,
  and `mark`, `giveup` on the way of a failure). One action is one durable write. The
  markers on disk are the state everything is decided from, as in
  `_scan_archive_states`; a message is a number, an archive a set of them. The task tracker
  is its cache and its store. A directory is there before its intent (`MakeDir`, status `bare`), as in
  `write_file`. Faults are of named kinds (`FaultKinds`), each at most
  once; a crash may come between any two writes. Some of them the code sees (`phase1`, `marker`, `lock`,
  `overview`, `step`, `task`, `raise`, and `root`, the error path of `_ensure_phase1_ready`). The others it swallows,
  taking a read that failed for nothing there: `list` (the index of the next commit,
  `CommitBeginUnlisted`), `scan` (the states of the earlier archives, `PrepareMisled`), `meta` (the intent),
  `progress` (the recorded steps, `PrepareForgets`) and `merge` (`_merge_archive_meta` writes a
  `.meta.json` anew that it could not read: `PlanForgets`, `SummaryForgets`, `RecordForgets`). A listing that ends
  early, at the limit of `ls`, is a `list` or a `scan`.
- **SessionCommitProofs** proves type correctness, that no message is lost, that
  archives are completed in order, and that an acked commit is settled.
- **SessionOnceProofs** extends it with the proof that a memory step goes over a
  message once.
- **CachedFS** models the cache wrapper. The content of a file or listing is the number of
  the change it is from, so "stale" can be said. A mutation is the change of the
  backend followed by a script of provider calls, each of which may fail with or
  without effect; a read is a probe, the in-flight mutex, the backend and the
  fill. A grep is several reads that share a memo of generations. A copy within the mount
  runs beside the lock: `CopyRaw` writes directories and chunks for a while and then invalidates
  the file and its parent with a script of its own; `CopyUnseen` is the copy on a multi-write mount, and the one
  that fails half-way, which invalidate nothing. With `Implicit` the listings further up change with the
  files below them, as in an object store.
- **CachedFSProofs** proves the invariants of CachedFS: types, single misses, and
  that a stale entry is doomed and never returned.
- **CircuitBreaker** has the operators of the breaker.
- **SemanticDag** models one `SemanticDagExecutor` and what it sets going: the
  scheduler's workers, the vectorize tasks, the embedding queue with its handlers on
  another thread, the breaker between them and the API, and the tracker that ties the
  release of the tree lock to the last vector. A directory that cannot be dispatched tells its parent
  all the same (`DispatchFails`). A unit of work goes through the awaits of
  its coroutine (`run`, `write`, `add`, `tell`, and `L0`, `L1`, `owe1`, `call` for
  a vectorize task).
- **SemanticDagProofs** proves the invariants of SemanticDag: types, complete
  overviews, sound reuse, and the lock that outlasts the vectors.
- **MCPathLock**, **MCQueueFS**, **MCSessionCommit**, **MCCachedFS** and
  **MCSemanticDag** hold the constants of the small instances.

Operators whose comment begins with "Mutant" are small faults of the definition
that follows them; no specification uses them. Each is known to violate the
property `PROJECT.json` names for it, which shows that the property depends on
that code.

## Runs

| Run | Instance | Result |
|---|---|---|
| `lock_exclusion` | a tree lock on `p` against an exact or tree lock on its child, which is a directory or missing (and may become a file or a directory); one clock tick, expiry 0; owner 1 refreshes, owner 2 may crash | types and exclusion of intact locks hold |
| `lock_liveness` | the same two, both may crash, the clock goes on | the inductive invariant holds; a call returns after its deadline; a patient caller outlives the tokens others left |
| `lock_same_file` | two owners, one exact path | violated: both hold the lock |
| `queue_recovery` | a sequential queue fed by a concurrent one with two tasks; handlers that raise, messages that do not parse; five messages, one restart, fair | no job lost, acks safe, nothing stranded, counter exact, ledger implemented; every job is settled, unless it is left to the next start or re-enqueued on and on |
| `queue_wait` | concurrent workers whose handler may raise, fair | `wait_complete` returns |
| `queue_sequential` | sequential workers whose handler may raise, fair | violated: `wait_complete` hangs |
| `queue_premature` | no failures at all | violated: `wait_complete` returns during a fetch |
| `queue_dedupe` | one memory job | violated: its retry is dropped, its message acked |
| `session_recovery` | two messages, two archives, two concurrent handlers, one fault of any kind, one crash, fair | nothing is lost and nothing overtakes while listings and scans are right; no step is repeated while its record lasts; acked means settled; commits end, unless an earlier archive is abandoned |
| `session_waits` | one crash and no fault, fair | violated: a commit waits for ever for one that died |
| `cache_fresh` | a mount with a directory, a file in it and a place to move it to, in a store with implicit directories; the policy keeps the file or the listing of the mount; two readers of which one greps, one change, one fault or eviction, one restart | no stale read; what is stale is doomed; misses are single |
| `dag_indexing` | a directory with a file and a subdirectory with a file, and a file that is gone; full or incremental; directories that cannot be dispatched; two workers, one handler, threshold 1, fair | overviews see their children; no stale overview is kept; the lock is held while vectors are open and released in the end |

The violations are what the code does against what a doc or a comment says; the
findings of `PROJECT.json` quote both.

**Bounds.** Two paths, one above the other, give every relation the lock code
tells apart (same path, ancestor, descendant). Two owners give every pairwise race,
and exclusion, a statement about pairs, is proved for any number. One clock tick
with expiry 0 separates fresh from stale. Five messages for two jobs leave room for re-enqueues of both in every
order, with one restart at every point between. The bounds are constants
(`MaxClock`, `MaxRows`, `MaxRestarts`) in the guards. The code has no cap on retries, and a handler
of the model cannot re-enqueue above `MaxRows`; so that this does not count as an end, `EveryJobSettles`
excuses a behaviour that has used up the rows (`RetriedOnAndOn`). Below that, five messages leave each of the two jobs room
for retries and a restart. A message whose handler raised or that does not parse is taken up by a restart, of which the
model has a bounded number; the property names it too (`LeftToRestart`).

Two archives are enough for what one commit does to another (waiting, replay,
coverage, a root that was rewritten twice). A first phase that fails and cannot
even say so is one fault, since the marker that cannot be written belongs to the same outage. One fault keeps the
liveness check within minutes; the invariants also hold with two (2,295,280 states, not a listed run) and are proved for any number. In
`cache_fresh` one fault or restart covers a stale entry followed by what might
revive it, over the chain that implicit directories need: an entry is known by the
generations of the scopes above it. Two larger instances were checked once and are not listed: the same tree with one reader and two
changes (1,440,927 states), and a mount with a file and a place to move it to, two readers, two changes and one restart (6,086,415 states). In `dag_indexing` the vectors of the
full execution are the ones to count, and the incremental configurations are about reuse. The breaker opens at the first failure, and its count is capped at the
threshold, above which the code does not tell counts apart. Embedding errors,
re-enqueues and what the breaker does are not bounded.

**Fairness.** `FairSpec` of PathLock: a call in progress goes on (its awaits
return), a write in flight lands, time passes. Nobody has to call, to release or to
reach a deadline. `FairSpec` of QueueFS: the worker threads run, a
handler returns, and a server that went down is started again; nobody has to enqueue, clear, crash, stop or wait. Bounded restarts mean that
crashes end. Nothing is assumed about which outcome a handler has, except that `EveryJobSettles` says
nothing of a job whose handler asks for one more retry every time. `FairSpec` of
SessionCommit: a commit that has begun and a handler that has started go on, and the
worker fetches. `FairSpec` of SemanticDag: the event loop of the semantic queue
runs, and so does every handler of the embedding queue; nothing makes the API
answer, so `LockReleased` holds although every embedding may be re-enqueued for
ever. CachedFS has no liveness property.

**What the runs show beyond a yes.** Several properties have a premise that marks
what the code does not promise; each was found by checking the property without it.

- *Sessions.* `NothingLost` and `CompletedInOrder` claim nothing once a listing or a scan of the archives was wrong
  (`Misled`). `_list_archive_refs` returns an empty list when the listing fails; a commit then takes
  index 1 again, overwrites a finished archive, and its messages are neither shown nor digested; a waiting second phase finds nothing
  to wait for and overtakes. Without the premise TLC finds both.
  `CommitsSettle` excludes an *abandoned* earlier archive, and `session_waits` shows both ways to one
  without any failing call: a commit that dies between its directory and its intent, and one that dies after
  its intent and before its queue message, when the next commit archives the same messages
  and rewrites the root, and its handler, finding the root as the first intent
  describes it, declares the first archive ready. Nobody has a message for it, and
  the handler waits for it for ever. `ExtractedOnce` excludes a first phase that ended
  before the root was rewritten (its messages are archived again and both archives may be
  extracted), an intent that could not be read, a step that could not be recorded, and recorded progress that could not
  be read or was erased by a merge. `CompletedInOrder` promises less
  once an intent could not be read or was erased: with three archives, one of which was interrupted,
  the handler of the interrupted one takes it for an archive of an older version while
  the next one takes it for failed, rolls it in together with an earlier failure and is
  done first. Nothing is lost, but the second to finish has an overview that does not stand for the
  earlier failure. Two archives do not show this; the proof that failed did. A failed archive without a
  `messages.jsonl` makes every later commit fail in its replay; the messages stay
  visible as raw archives, and so `NothingLost` holds there too. A task
  whose completion the store refuses is completed in the cache and failed in the
  handler (`AckedIsSettled` says which of them the store has).
- *Queues.* A message that is retried for ever is never settled, and the code means it so for errors
  that may pass; `EveryJobSettles` is about all the others. A message whose handler raised, and one that does not parse, waits
  as 'processing' for the next start, which does not help the second (`NothingStranded` names both as exceptions).
- *Cache.* `suspect` is the list of invalidations that were never made or came too soon: a copy on a
  multi-write mount or one that fails half-way, the listings above a copy or, in an object
  store, above any file whose directories appear or vanish with it, a mutation whose backend failed half-way, a
  fill that meets a copy, a mutation or copy cut off by a restart, and a bypass forgotten by a restart. A later invalidation of the same object under the lock
  takes it off the list. Everything else, evictions and failed provider calls
  included, leaves a stale entry dead or out of reach.
- *Semantic DAG.* `HeldWhileIndexing` excludes re-enqueued embeddings: the `finally`
  of `on_dequeue` counts a message down at every try, so the tree lock is closed while the
  retried vectors are still in the queue. The same count-down is what makes
  `LockReleased` hold when the API never recovers.

## Proofs

All theorems hold for every value of the constants that satisfies the named
assumptions of the modules.

`PathLockProofs!Exclusion` says that two owners never hold overlapping locks
whose tokens are both intact. The property is not inductive: it says nothing of a lock
that is being taken. The inductive invariant `IInv` speaks of *claims*, the locks an owner
holds and the one whose token it has written and is double-checking. Its parts: the
token of an intact claim is in its file (`TokenPresent`); of two intact claims
that see each other, at least one belongs to an owner that has not yet read the
other's file (`OneStillOpen`); lock files lie in existing directories and a tree lock uses
the prefixed file of a regular file only (`ClaimsPlaced`, `RequestPlaced`); a
lock is asked for again only after its token was destroyed (`AskedAgain`). A write opens a
claim that has read nothing; a read that finds no conflict cannot have passed an
intact claim, because the token of that claim is there to be found; a lock becomes
held only when nothing is left to read. Overlapping locks in different files see
each other, with one exception that the property names: two exact locks on one
path, taken before and after the path became a directory.

"Intact" matters. The code overwrites and removes lock files without a
compare-and-swap, so tokens do get lost: two writers of one file, a stale token
refreshed between check and removal, a tree lock that backs off and removes what
another owner has just written there, a refresh that lands late. `lock_same_file`
shows that without the word the property is false. Tokens also stay behind: an
owner that keeps its token after a conflict and then times out in the pre-check of
its retry returns without removing it. `OrphanReclaimed` says that such tokens
cost time and not the path.

`wait_complete` reads the embedding queue before the semantic one, so apart from
the fetch of `queue_premature` it can also miss work that moves from the second to
the first between the two reads; `WaitMeansDone` covers both.

`QueueFSProofs!AckDiscipline` and `ImplementsLedger` assume that no job is deduplicated,
and `queue_dedupe` shows that they need to. Their invariant: ids are fresh and
unique, a task and its row agree, a message in its handler is still in the table
unless its queue was cleared, and a worker that is off has no tasks. The refinement
goes action by action: an enqueue accepts, a report settles, an ack strikes a job
only when it was settled or waived or has a later message, a clear waives.
`NothingLeftBehind` is one more part of the same invariant; it excepts jobs whose handler raises and messages that do
not parse. `CounterExact` needs no
assumption about deduplication. Its invariant adds that the counter of a concurrent queue is the number
of its tasks between start and report, also while the queue is being stopped, and
that the tasks are finite in number: every step adds or takes away one task and
changes the counter with it, or does neither.

`SemanticDagProofs` is for every finite tree. A directory knows its children only by
a number, so `OverviewComplete` has to say what the number counts: in `WalkInv`,
`pending` is the number of children listed and not heard of, and the overview is
scheduled exactly when there is none (`Dispatched`); who was heard of is through; a
path is visited only for a directory that waits for it; so below a directory whose
overview is scheduled everything is through (`Below`), which is what lets the last
report of the root end the execution. A directory that could not be dispatched (`FailsStep`) has no node, so nothing was
ever visited below it. Type correctness needs the same invariant, since
`pending` must not go below zero. `ReuseIsSound` adds `ChangeInv`: a directory counts as
changed until its overview task has judged it, and it is judged unchanged only when
nothing at or below it has changed. No file below can get a new summary
afterwards, because everything below is through by then. `LockHeld` adds `TrackInv`,
which accounts for every vector: it is still unsent, in the queue, in a handler or
settled, and, as long as nothing was enqueued again, the tracker is the number of
those that will be counted down, a sum of four cardinalities. A callback runs only
when this number is zero.

`CachedFSProofs` is for every tree, every policy, both kinds of store and any number of readers, changes,
faults and restarts; `suspect` is the exception it shares with the properties. *Single misses*: `LockInv` says that who waits for or holds a mutex finds
it in the table, that no two objects share one, and that it has one holder; that a
free mutex can be found for a new entry is a pigeonhole argument over the readers.
*Stale entries*: that an entry is dead says only that its generations differ from
the current ones, and a generation that came back would revive it. So the invariant
orders generations by epoch and counter: the provider's is never ahead of the one in
memory and, when memory has none, is of an earlier epoch (`GenOrder`); an entry is
never ahead of what is current (`EntryOld`). Then no generation goes back, and what is
dead stays dead. What is about to be put is what the backend has (`FillCurrent`),
because no reader is between backend and fill while a mutation runs its script
(`Alone`). *Reads*: a grep validates against the generations it remembers, older
than the current ones, so `StaleIsDoomed` is not enough for it. `ReadInv` says of every
reader that an entry older than what it may not fall behind is dead under the
generations *this* reader has seen, or bypassed and not the one it is about to probe, and that these
generations do not go back either.

`SessionCommitProofs!NoMessageLost` says that a message is shown raw or digested,
for any number of messages, archives, handlers, faults and crashes, as long as no listing or scan was wrong: the
invariant below is kept by every step that is not misled, and a behaviour that was misled once
stays so (`MisledStays`). `NothingLost`
is about what is on disk and says nothing of the commit that is about to rewrite the root or of
the handler that is about to write `.done`; the inductive invariant adds them.
Every message is in the root or in a raw archive (`Located`). A directory that is not
there has no archive, job or handler (`Absent`), so the index a commit takes is
free, and stays so until the raw archive is written (`CommitIsLast`): no archive is written
over and none appears below one that is done. What a commit removes from the root
is in its raw archive (`CommitIsDurable`). A handler that has prepared its input
has in it every earlier archive that no overview stands for (`InputCovers`),
because it waited for them to end and rolled the failed ones in; it has not written `.done`
before (`NotYetDone`); and so a `.done` covers all that came before it
(`DoneCovers`). A raw archive that is hidden from the context is covered by
such a `.done` and has an overview.

`AckedSettled` needs more than what a handler does last: a message is redelivered
after the cache is gone, or after the store refused an update. Its invariant, for each archive:
the cache agrees with the store, or has an end that the store refused; a completed task has a
`.done`; a handler that has begun has its task in the cache, so that its report is not dropped; it
reports what the markers on disk say.

`Ordered` is about `CompletedInOrder`: when an archive is completed, all that was archived up to it
is in completed archives, and in none later, unless an intent could not be read or was erased; like `NoMessageLost` it speaks of behaviours that were not misled. That all is digested follows from
`DoneCovers`; that none is later needs that a second phase cannot be overtaken. A handler
that is past its check of the first phase has found it ready, and its archive has not
failed while it is at work (`ReadyFirst`), for which the archive of a running commit must be
neither ready nor failed (`CommitIsOpen`); and all that came before a second phase that
is prepared or done has ended for good (`EarlierEnded`), so that no later one
can be done while this one still waits.

`SessionOnceProofs!MemoryStepsOnce` is about `ExtractedOnce`: unless a first phase was cut off before it
rewrote the root, an intent or the recorded progress could not be read or was erased, a step could not be recorded, or a listing or
scan was wrong, no memory step goes over a message twice, the anchors of partly archived turns aside. Its invariant, `OnceInv`, has to relate a count that nothing on disk shows to what the markers of several
archives record, in three layers on top of the two invariants above.

- *First phase* (`FirstPhase`). The commit in progress has written what it intends
  (`CommitIntent`), so a message that is no anchor is in one archive only, its home, and is
  gone from the root once the commit that archived it is over (`Homes`). Whatever reads or
  writes a `.meta.json` as if it were empty counts as interrupted (`LossInterrupts`).
- *Second phase* (`SecondPhase`). Input, recorded and remembered steps are messages of the
  archive and of those before it (`Source`). An archive that has steps, on disk or with its handler, has waited for
  all that came before (`Started`). What a handler knows of a step is on disk in its own or an absorbed
  archive, unless the step is waiting to be recorded or one has failed (`Recorded`). Every archive before a
  prepared or finished one is covered, or absorbed by it (`Coverage`).
- *Steps* (`Remembered`, `Resumes`). A message that went through a step did so once, and, until its home or a
  later archive is completed, that is on disk with the home or a later archive, or held by the handler of
  a pending one. What a running second phase has not remembered has not been gone over.

The hard step is `PrepareResumes`: when a second phase is prepared, a message of its input that
went through a step before is among the steps it merges. No archive from the message's home on is completed: it
would cover the home, and the home would not be replayed. So the record is with an
archive `c` from the home on; `c` has waited for all that came before, and this archive is pending, so `c` is no
later; it has ended and is not completed, so it failed; whoever covered it would be completed past the home;
so `c` is replayed as well and its record is merged. `RunsAlone` then shows that no second handler
counts while this one runs. Extraction, recording and the end of a handler keep the record, because a
handler that ends without it counts as interrupted (`HolderMoves`, `StoredStays`).

Only model-checked: liveness (TLAPS has neither fairness nor ENABLED here), that is
`AcquireReturns`, `OrphanReclaimed`, `WaitReturns`, `EveryJobSettles`, `CommitsSettle` and
`LockReleased`. Every invariant a passing run checks is stated by a theorem. The inductive invariants were checked with TLC before they were proved,
those of the cache, of the tracker, of the order of archives and of the memory steps on instances larger than the listed runs.

## What the models leave out

PathLock: AGFS reads and removals do not fail; directories and files are created,
never removed; the reuse check at the start of a call is one step; a token carries the time of its
write; scans read the files of one stage in any order, which includes the code's;
tokens of the old POINT and SUBTREE types. A released handle is not used again. SessionCommit: a commit that is misled to an archive which has not ended (it would be pulled
from under its handler; one that has ended is enough to lose messages), a session deleted before its commit is handled, whose archives
are gone with it, commits with
working memory switched off, checkpoints, token budgets and tool results; the writes of the session's own
`.meta.json`; what the extraction computes; the session lock, which is taken as exclusive (PathLock is about how
far it is). A retained or archived set stands for the list of ids, and the order of a list is that of its numbers.
CachedFS: a second process on the same provider, tree and glob (they read listings as
`read_dir` does), the limits of the policy (an object is cached or not), a provider
that returns damaged bytes (a failed get). SemanticDag: an
exception in `_dispatch_dir` after the node is made (what follows only puts work on the queue), the order of
the scheduler's and the embedding queue (any order is allowed), the cancellation of a
work item, memory directories, a missing queue manager, a vector store that closes, telemetry, and the
times of the breaker (a reset timeout has elapsed or not). QueueFS:
the memory backend, `remove_queue`, `recover_stale_sec` above 0, queues created at
run time, a worker that outlives the join in `stop`, and the timeout of `wait_complete`. A
handler is reduced to what it enqueues and reports. The backend serialises its calls
with a mutex, so one call is one step.

## Plan

1. LockManager: batches, `acquire_mv`, hand-off and adoption, cleanup of stale
   handles, over an abstract lock service that PathLock is shown to implement for
   intact locks.
2. The coalesce versions of the semantic queue over several messages and a restart,
   composed with QueueFS and SemanticDag.
3. RAGFS multi-backend writes (their copy is in CachedFS) and git refs; the watch scheduler; rm and mv of
   VikingFS, which combine locks, files and vectors.
4. Proofs: the abstract lock service.
