---------------------------- MODULE SemanticDag ----------------------------
(***************************************************************************)
(* One execution of SemanticDagExecutor                                    *)
(* (openviking/storage/queuefs/semantic_dag.py) and what it sets going.    *)
(* Scheduler workers walk the tree down, summarise the files and write the *)
(* overviews on the way up, collecting vectorize tasks.  When the root is  *)
(* through, run() registers the number of vectors with the process-wide    *)
(* EmbeddingTaskTracker and dispatches the tasks, which feed the embedding *)
(* queue; its handlers, on another thread, embed, retry, drop and count    *)
(* down.  Whoever counts down to zero runs the callback that closes the    *)
(* tree lock of the semantic message.                                      *)
(*                                                                         *)
(* One action is the code of one coroutine up to its next await that may   *)
(* yield.  The order of the scheduler's queue and of the embedding queue   *)
(* is left open, which allows every order the code has and more.           *)
(***************************************************************************)
EXTENDS FiniteSets, CircuitBreaker

CONSTANTS
  Dirs,         \* the directories of the tree
  Files,        \* the files in it
  Gone,         \* paths a change names that are not in the tree any more
  Root,         \* the directory the execution starts from
  Parent,       \* the directory of every other path
  Ancestors,    \* the directories a path lies in
  Confs,        \* the parameters the executor may be created with
  MaxWorkers,   \* the scheduler's concurrency
  Handlers      \* the concurrent handlers of the embedding queue

Paths == Dirs \cup Files \cup Gone

ASSUME TreeAssumption ==
  /\ Root \in Dirs
  /\ Dirs \cap Files = {} /\ Dirs \cap Gone = {} /\ Files \cap Gone = {}
  /\ Parent \in [Paths \ {Root} -> Dirs]
  /\ Ancestors \in [Paths -> SUBSET Dirs]
  /\ \A p \in Paths :
       Ancestors[p] = IF p = Root THEN {} ELSE {Parent[p]} \cup Ancestors[Parent[p]]
  /\ IsFiniteSet(Paths)
ASSUME ConfAssumption ==
  Confs \subseteq [recursive : BOOLEAN, incremental : BOOLEAN,
                   changed : SUBSET Paths, skip : BOOLEAN]
ASSUME WorkersAssumption == MaxWorkers \in Nat \ {0}

VARIABLES
  conf,       \* the parameters of this execution
  work,       \* the state of every unit of work
  node,       \* the entry of a directory in _nodes
  heard,      \* the children a directory has heard of
  changedFile,  \* _file_change_status
  changedDir,   \* _dir_change_status
  tasks,      \* _pending_vectorize_tasks
  stale,      \* _stale
  superseded, \* a newer message has the same coalesce key
  exec,       \* where run() is
  tracker,    \* the tracker's record: the vectors remaining
  lock,       \* the tree lock of the semantic message
  queue,      \* the embedding queue
  handler,    \* what every embedding handler is doing
  breaker,    \* the circuit breaker of the embedding API
  settled,    \* vectors in the vector store, or given up
  fresh,      \* history: files with a new summary
  reused,     \* history: directories that kept their overview
  requeued    \* history: an embedding message was enqueued again

walk == <<work, node, heard>>
status == <<changedFile, changedDir, fresh, reused>>
embedding == <<queue, handler, breaker, requeued>>
vars == <<conf, walk, status, tasks, stale, superseded, exec, tracker, lock,
          embedding, settled>>
-----------------------------------------------------------------------------
Work ==
  [kind : {"dir", "overview"}, uri : Dirs] \cup [kind : {"file"}, uri : Files]
    \cup [kind : {"vectorize"}, uri : Dirs \cup Files]
W(k, u) == [kind |-> k, uri |-> u]

(* A unit of work is scheduled, then taken by a worker: "run" until its      *)
(* result is known, "write" the sidecars, "add" the vectorize task, "tell"   *)
(* the parent.  The vectorize task of a directory enqueues two vectors       *)
(* ("L0", "L1"; "L1owe": the first was not enqueued), counts down the ones   *)
(* it could not ("owe1", "owe2") and, at zero, runs the callback ("call";    *)
(* "call1": with one more to count down after it).                           *)
Running == {"run", "write", "writeonly", "add", "tell", "L0", "L1", "L1owe", "owe1",
            "owe2", "call", "call1"}
WorkStates == {"none", "queued", "over"} \cup Running
NoNode == [listed |-> {}, pending |-> 0, scheduled |-> FALSE, on |-> FALSE]
Nodes == [listed : SUBSET (Dirs \cup Files), pending : Nat, scheduled : BOOLEAN,
          on : BOOLEAN]

Msgs == [uri : Files, level : {"file"}] \cup [uri : Dirs, level : {"abstract", "overview"}]
Vectors(u) == {m \in Msgs : m.uri = u}
Expected == UNION {Vectors(u) : u \in tasks}

HandlerPCs == {"idle", "embed", "sleep", "upsert", "requeue", "settle", "call"}
NoMsg == [uri |-> Root, level |-> "none"]
Idle == [pc |-> "idle", msg |-> NoMsg]

Init ==
  /\ conf \in Confs
  /\ work = [w \in Work |-> IF w = W("dir", Root) THEN "queued" ELSE "none"]
  /\ node = [d \in Dirs |-> NoNode]
  /\ heard = [d \in Dirs |-> {}]
  /\ changedFile = [f \in Files |-> TRUE]
  /\ changedDir = [d \in Dirs |-> TRUE]
  /\ tasks = {}
  /\ stale = FALSE
  /\ superseded = FALSE
  /\ exec = "graph"
  /\ tracker = 0
  /\ lock = "held"
  /\ queue = {}
  /\ handler = [h \in Handlers |-> Idle]
  /\ breaker = ClosedBreaker
  /\ settled = {}
  /\ fresh = {}
  /\ reused = {}
  /\ requeued = FALSE
-----------------------------------------------------------------------------
(* The scheduler.                                                           *)
Children(d) == {u \in Dirs \cup Files : u # Root /\ Parent[u] = d}
Kind(u) == IF u \in Files THEN "file" ELSE "dir"

(* _worker: a free worker takes w.                                           *)
Take(w) ==
  /\ work[w] = "queued"
  /\ Cardinality({v \in Work : work[v] \in Running}) < MaxWorkers
  /\ work' = [work EXCEPT ![w] = IF w.kind = "vectorize" /\ w.uri \in Dirs THEN "L0" ELSE "run"]
  /\ UNCHANGED <<conf, node, heard, status, tasks, stale, superseded, exec, tracker, lock,
                 embedding, settled>>

(* What a directory waits for: in a recursive execution every child.        *)
Pending(listed) == IF conf.recursive THEN listed ELSE listed \cap Files

(* Mutant: the count of a recursive execution leaves out the directories.    *)
DispatchDirFiles(d) ==
  /\ work[W("dir", d)] = "run"
  /\ \E listed \in {Children(d), {}} :
       LET n == Cardinality(listed \cap Files) IN
       /\ node' = [node EXCEPT ![d] = [listed |-> listed, pending |-> n, scheduled |-> n = 0,
                                       on |-> TRUE]]
       /\ work' = [w \in Work |->
            CASE w = W("dir", d) -> "over"
              [] w = W("overview", d) /\ n = 0 -> "queued"
              [] w.uri \in Pending(listed) /\ w = W(Kind(w.uri), w.uri) -> "queued"
              [] OTHER -> work[w]]
  /\ UNCHANGED <<conf, heard, status, tasks, stale, superseded, exec, tracker, lock,
                 embedding, settled>>

(* _dispatch_dir: list the directory (a failing listing counts as empty)    *)
(* and schedule its children, or its overview when it waits for none.        *)
DispatchDir(d) ==
  /\ work[W("dir", d)] = "run"
  /\ \E listed \in {Children(d), {}} :
       /\ node' = [node EXCEPT ![d] = [listed |-> listed, pending |-> Cardinality(Pending(listed)),
                                       scheduled |-> Pending(listed) = {}, on |-> TRUE]]
       /\ work' = [w \in Work |->
            CASE w = W("dir", d) -> "over"
              [] w = W("overview", d) /\ Pending(listed) = {} -> "queued"
              [] w.uri \in Pending(listed) /\ w = W(Kind(w.uri), w.uri) -> "queued"
              [] OTHER -> work[w]]
  /\ UNCHANGED <<conf, heard, status, tasks, stale, superseded, exec, tracker, lock,
                 embedding, settled>>

(* The except branch of _dispatch_dir, for an entry that cannot be turned   *)
(* into a URI: the directory gets no node and no overview, and what is left *)
(* is to tell the parent an empty abstract, or to wake run() for the root.  *)
DispatchFails(d) ==
  /\ work[W("dir", d)] = "run"
  /\ work' = [work EXCEPT ![W("dir", d)] = "over", ![W("overview", d)] = "tell"]
  /\ UNCHANGED <<conf, node, heard, status, tasks, stale, superseded, exec, tracker, lock,
                 embedding, settled>>

(* _on_file_done, _on_child_done: d hears that its child u is through, in   *)
(* the walk ws; the last one schedules d's overview.                         *)
Tell(d, u, ws, ns) ==
  IF ~ns[d].on
    THEN work' = ws /\ node' = ns /\ UNCHANGED heard
    ELSE LET last == ns[d].pending = 1 /\ ~ns[d].scheduled IN
         /\ heard' = [heard EXCEPT ![d] = @ \cup {u}]
         /\ node' = [ns EXCEPT ![d].pending = @ - 1, ![d].scheduled = @ \/ last]
         /\ work' = IF last THEN [ws EXCEPT ![W("overview", d)] = "queued"] ELSE ws
-----------------------------------------------------------------------------
(* _file_summary_task.                                                      *)

(* _check_file_content_changed: the caller's changes decide; without any,   *)
(* the file is compared with itself, and an error counts as a change.       *)
ContentChanged(f) ==
  IF conf.changed # {} THEN {f \in conf.changed} ELSE BOOLEAN

(* Mutant: a file that did not change but has no summary to reuse is not     *)
(* recorded as changed.                                                     *)
FileSummaryUnrecorded(f) ==
  LET w == W("file", f) IN
  /\ work[w] = "run"
  /\ \E known \in BOOLEAN, diff \in IF conf.incremental THEN ContentChanged(f) ELSE {TRUE} :
       LET new == diff \/ ~known IN
       /\ changedFile' = [changedFile EXCEPT ![f] = diff]
       /\ fresh' = IF new THEN fresh \cup {f} ELSE fresh
       /\ work' = [work EXCEPT ![w] = IF new THEN "add" ELSE "tell"]
  /\ UNCHANGED <<conf, node, heard, changedDir, reused, tasks, stale, superseded, exec,
                 tracker, lock, embedding, settled>>

(* The summary is the existing one or a new one (an empty one when the      *)
(* model fails), and only a new one is vectorized.                           *)
FileSummaryTask(f) ==
  LET w == W("file", f) IN
  /\ work[w] = "run"
  /\ \E known \in BOOLEAN, diff \in IF conf.incremental THEN ContentChanged(f) ELSE {TRUE} :
       LET new == diff \/ ~known IN
       /\ changedFile' = [changedFile EXCEPT ![f] = new]
       /\ fresh' = IF new THEN fresh \cup {f} ELSE fresh
       /\ work' = [work EXCEPT ![w] = IF new THEN "add" ELSE "tell"]
  /\ UNCHANGED <<conf, node, heard, changedDir, reused, tasks, stale, superseded, exec,
                 tracker, lock, embedding, settled>>

(* _add_vectorize_task.                                                     *)
AddVectorizeTask(w) ==
  /\ w.kind \in {"file", "overview"}
  /\ work[w] = "add"
  /\ tasks' = IF conf.skip THEN tasks ELSE tasks \cup {w.uri}
  /\ work' = [work EXCEPT ![w] = "tell"]
  /\ UNCHANGED <<conf, node, heard, status, stale, superseded, exec, tracker, lock,
                 embedding, settled>>

(* _on_file_done.                                                           *)
OnFileDone(f) ==
  LET w == W("file", f) IN
  /\ work[w] = "tell"
  /\ Tell(Parent[f], f, [work EXCEPT ![w] = "over"], node)
  /\ UNCHANGED <<conf, status, tasks, stale, superseded, exec, tracker, lock, embedding,
                 settled>>
-----------------------------------------------------------------------------
(* _overview_task.                                                          *)

(* _path_has_direct_change: a change at d or below it.                      *)
HasDirectChange(d) == \E p \in conf.changed : d = p \/ d \in Ancestors[p]

(* _check_dir_children_changed: without changes the listing is compared     *)
(* with itself, and an error counts as a change.                            *)
ChildrenChanged(d) ==
  LET told == \E u \in node[d].listed : IF u \in Files THEN changedFile[u] ELSE changedDir[u] IN
  IF conf.changed # {} THEN {HasDirectChange(d) \/ told} ELSE {told, TRUE}

(* The overview is kept when no child changed and the sidecars can be read, *)
(* else generated from what the children told; a generation that fails      *)
(* leaves neither sidecars nor a vectorize task.                            *)
OverviewTask(d) ==
  LET w == W("overview", d) IN
  /\ work[w] = "run"
  /\ \E diff \in IF conf.incremental THEN ChildrenChanged(d) ELSE {TRUE},
        readable \in BOOLEAN, generates \in BOOLEAN :
       LET keeps == ~diff /\ readable IN
       /\ changedDir' = [changedDir EXCEPT ![d] = diff]
       /\ reused' = IF keeps THEN reused \cup {d} ELSE reused
       /\ work' = [work EXCEPT ![w] =
            IF ~keeps /\ ~generates THEN "tell" ELSE IF diff THEN "write" ELSE "writeonly"]
  /\ UNCHANGED <<conf, node, heard, changedFile, fresh, tasks, stale, superseded, exec,
                 tracker, lock, embedding, settled>>

(* write_semantic_sidecars: nothing is written for a superseded message.    *)
(* A failing write is skipped, and the overview is vectorized all the same. *)
WriteDirectorySemantics(d) ==
  LET w == W("overview", d) IN
  /\ work[w] \in {"write", "writeonly"}
  /\ stale' = (stale \/ superseded)
  /\ work' = [work EXCEPT ![w] = IF @ = "write" /\ ~superseded THEN "add" ELSE "tell"]
  /\ UNCHANGED <<conf, node, heard, status, tasks, superseded, exec, tracker, lock,
                 embedding, settled>>

(* The end of _overview_task, or of a _dispatch_dir that failed: tell the   *)
(* parent and leave _nodes; the root wakes run().                           *)
OnChildDone(d) ==
  LET w == W("overview", d)
      ws == [work EXCEPT ![w] = "over"]
      ns == [node EXCEPT ![d].on = FALSE] IN
  /\ work[w] = "tell"
  /\ IF d = Root
       THEN /\ exec' = "count"
            /\ work' = ws /\ node' = ns /\ UNCHANGED heard
       ELSE Tell(Parent[d], d, ws, ns) /\ UNCHANGED exec
  /\ UNCHANGED <<conf, status, tasks, stale, superseded, tracker, lock, embedding, settled>>
-----------------------------------------------------------------------------
(* The tracker.                                                             *)

(* Mutant: a directory counts one vector.                                    *)
TaskCountOnce == Cardinality(tasks)

(* register, in run(): every file task counts one vector, every directory   *)
(* task two.                                                                *)
TaskCount == Cardinality(tasks \cap Files) + 2 * Cardinality(tasks \cap Dirs)

(* Mutant: the missing record is not noticed.                                *)
CountDownBlindly == tracker' = tracker - 1

(* decrement: an unknown message is ignored; at zero the record goes and    *)
(* the caller runs the callback.                                            *)
CountDown == tracker' = IF tracker = 0 THEN 0 ELSE tracker - 1

AtZero == tracker = 1

(* on_dequeue of the semantic processor when run() returns: the parent is   *)
(* refreshed unless the message was superseded.                             *)
Returned == IF stale THEN "returned" ELSE "refreshed"

(* run(), woken by the root: register the count, or close the lock at once  *)
(* when there is nothing to vectorize.                                      *)
Register ==
  /\ exec = "count"
  /\ IF TaskCount > 0
       THEN exec' = "dispatch" /\ tracker' = TaskCount /\ UNCHANGED lock
       ELSE exec' = Returned /\ lock' = "closed" /\ UNCHANGED tracker
  /\ UNCHANGED <<conf, walk, status, tasks, stale, superseded, embedding, settled>>

(* _dispatch_vectorize_tasks.                                               *)
DispatchVectorizeTasks ==
  /\ exec = "dispatch"
  /\ exec' = "vectorizing"
  /\ work' = [w \in Work |-> IF w.kind = "vectorize" /\ w.uri \in tasks THEN "queued" ELSE work[w]]
  /\ UNCHANGED <<conf, node, heard, status, tasks, stale, superseded, tracker, lock,
                 embedding, settled>>

(* _vectorize_done.                                                         *)
Return ==
  /\ exec = "vectorizing"
  /\ \A u \in tasks : work[W("vectorize", u)] = "over"
  /\ exec' = Returned
  /\ UNCHANGED <<conf, walk, status, tasks, stale, superseded, tracker, lock, embedding,
                 settled>>
-----------------------------------------------------------------------------
(* vectorize_file and vectorize_directory_meta.                             *)

(* Vector m of work w is enqueued, or given up: no text, a failed read, a   *)
(* failed enqueue.                                                          *)
Send(w, m, sent, unsent) ==
  /\ \/ /\ queue' = queue \cup {m}
        /\ work' = [work EXCEPT ![w] = sent]
        /\ UNCHANGED settled
     \/ /\ settled' = settled \cup {m}
        /\ work' = [work EXCEPT ![w] = unsent]
        /\ UNCHANGED queue
  /\ UNCHANGED <<conf, node, heard, status, tasks, stale, superseded, exec, tracker, lock,
                 handler, breaker, requeued>>

VectorizeFile(f) ==
  LET w == W("vectorize", f) IN
  work[w] = "run" /\ Send(w, [uri |-> f, level |-> "file"], "over", "owe1")

VectorizeAbstract(d) ==
  LET w == W("vectorize", d) IN
  work[w] = "L0" /\ Send(w, [uri |-> d, level |-> "abstract"], "L1", "L1owe")

VectorizeOverview(d) ==
  LET w == W("vectorize", d)
      m == [uri |-> d, level |-> "overview"] IN
  \/ work[w] = "L1" /\ Send(w, m, "over", "owe1")
  \/ work[w] = "L1owe" /\ Send(w, m, "owe1", "owe2")

(* Mutant: one count-down, however many vectors were not enqueued.           *)
CountUnsentOnce(w) ==
  /\ work[w] \in {"owe1", "owe2"}
  /\ CountDown
  /\ work' = [work EXCEPT ![w] = IF AtZero THEN "call" ELSE "over"]
  /\ UNCHANGED <<conf, node, heard, status, tasks, stale, superseded, exec, lock, embedding,
                 settled>>

(* _decrement_embedding_tracker, for the vectors that were not enqueued.    *)
CountUnsent(w) ==
  /\ work[w] \in {"owe1", "owe2"}
  /\ CountDown
  /\ work' = [work EXCEPT ![w] =
       CASE @ = "owe2" -> IF AtZero THEN "call1" ELSE "owe1"
         [] OTHER -> IF AtZero THEN "call" ELSE "over"]
  /\ UNCHANGED <<conf, node, heard, status, tasks, stale, superseded, exec, lock, embedding,
                 settled>>

(* wrapped_on_complete, run by the vectorize task that reached zero.        *)
TaskCallback(w) ==
  /\ work[w] \in {"call", "call1"}
  /\ lock' = "closed"
  /\ work' = [work EXCEPT ![w] = IF @ = "call1" THEN "owe1" ELSE "over"]
  /\ UNCHANGED <<conf, node, heard, status, tasks, stale, superseded, exec, tracker,
                 embedding, settled>>
-----------------------------------------------------------------------------
(* The embedding handler (TextEmbeddingHandler.on_dequeue).                 *)
executor == <<conf, walk, status, tasks, stale, superseded, exec>>

(* A message is dequeued; an open breaker makes the handler sleep.          *)
Dequeue(h, m) ==
  /\ handler[h].pc = "idle" /\ m \in queue
  /\ \E c \in Check(breaker) :
       /\ breaker' = c.breaker
       /\ handler' = [handler EXCEPT ![h] =
            [pc |-> IF c.allowed THEN "embed" ELSE "sleep", msg |-> m]]
  /\ queue' = queue \ {m}
  /\ UNCHANGED <<executor, tracker, lock, settled, requeued>>

(* The model answers, or fails: its error says whether the message is given *)
(* up or tried again, and whether the breaker hears of it.                  *)
GivenUp == {"input_too_large", "permanent", "auth"}
Unheard == {"input_too_large", "auth"}
Retried == {"transient", "quota"}
Embed(h) ==
  LET m == handler[h].msg IN
  /\ handler[h].pc = "embed"
  /\ \/ /\ handler' = [handler EXCEPT ![h].pc = "upsert"]
        /\ UNCHANGED <<breaker, settled>>
     \/ \E class \in GivenUp \cup Retried :
          /\ breaker' = IF class \in Unheard THEN breaker ELSE RecordFailure(breaker, class)
          /\ settled' = IF class \in GivenUp THEN settled \cup {m} ELSE settled
          /\ handler' = [handler EXCEPT ![h].pc =
               IF class \in GivenUp THEN "settle" ELSE "requeue"]
  /\ UNCHANGED <<executor, tracker, lock, queue, requeued>>

(* The message goes back to the queue, after the error or the sleep; one    *)
(* that cannot be enqueued is given up.                                     *)
Requeue(h) ==
  LET m == handler[h].msg IN
  /\ handler[h].pc \in {"requeue", "sleep"}
  /\ \/ queue' = queue \cup {m} /\ requeued' = TRUE /\ UNCHANGED settled
     \/ settled' = settled \cup {m} /\ UNCHANGED <<queue, requeued>>
  /\ handler' = [handler EXCEPT ![h].pc = "settle"]
  /\ UNCHANGED <<executor, tracker, lock, breaker>>

(* The vector is written; a wrong dimension or a failing store gives it up. *)
Upsert(h) ==
  LET m == handler[h].msg IN
  /\ handler[h].pc = "upsert"
  /\ breaker' \in {RecordSuccess(breaker), breaker}
  /\ settled' = settled \cup {m}
  /\ handler' = [handler EXCEPT ![h].pc = "settle"]
  /\ UNCHANGED <<executor, tracker, lock, queue, requeued>>

(* The finally block: whatever became of the message, it is counted down.   *)
Settle(h) ==
  /\ handler[h].pc = "settle"
  /\ CountDown
  /\ handler' = [handler EXCEPT ![h] = IF AtZero THEN [@ EXCEPT !.pc = "call"] ELSE Idle]
  /\ UNCHANGED <<executor, lock, queue, breaker, requeued, settled>>

(* wrapped_on_complete, run for the handler that reached zero.              *)
HandlerCallback(h) ==
  /\ handler[h].pc = "call"
  /\ lock' = "closed"
  /\ handler' = [handler EXCEPT ![h] = Idle]
  /\ UNCHANGED <<executor, tracker, queue, breaker, requeued, settled>>
-----------------------------------------------------------------------------
(* A newer message with the same coalesce key is enqueued.                  *)
Supersede ==
  /\ exec = "graph" /\ ~superseded
  /\ superseded' = TRUE
  /\ UNCHANGED <<conf, walk, status, tasks, stale, exec, tracker, lock, embedding, settled>>

Run == Register \/ DispatchVectorizeTasks \/ Return
DirStep(d) ==
  \/ DispatchDir(d) \/ DispatchFails(d)
  \/ OverviewTask(d) \/ WriteDirectorySemantics(d) \/ OnChildDone(d)
  \/ VectorizeAbstract(d) \/ VectorizeOverview(d)
FileStep(f) == FileSummaryTask(f) \/ OnFileDone(f) \/ VectorizeFile(f)
WorkStep(w) == Take(w) \/ AddVectorizeTask(w) \/ CountUnsent(w) \/ TaskCallback(w)

(* What the event loop of the semantic queue runs.                          *)
Execute ==
  \/ Run
  \/ \E w \in Work : WorkStep(w)
  \/ \E d \in Dirs : DirStep(d)
  \/ \E f \in Files : FileStep(f)

(* What the handler h of the embedding queue does.                          *)
Handle(h) ==
  \/ \E m \in queue : Dequeue(h, m)
  \/ Embed(h) \/ Requeue(h) \/ Upsert(h) \/ Settle(h) \/ HandlerCallback(h)

Next == Execute \/ Supersede \/ \E h \in Handlers : Handle(h)

Spec == Init /\ [][Next]_vars

(* The event loop and the queue's worker threads keep running.              *)
Fairness == WF_vars(Execute) /\ \A h \in Handlers : WF_vars(Handle(h))

FairSpec == Spec /\ Fairness
-----------------------------------------------------------------------------
(* Every variable has its type.                                             *)
TypeOK ==
  /\ conf \in Confs
  /\ work \in [Work -> WorkStates]
  /\ node \in [Dirs -> Nodes]
  /\ heard \in [Dirs -> SUBSET (Dirs \cup Files)]
  /\ changedFile \in [Files -> BOOLEAN]
  /\ changedDir \in [Dirs -> BOOLEAN]
  /\ tasks \subseteq Dirs \cup Files
  /\ stale \in BOOLEAN /\ superseded \in BOOLEAN /\ requeued \in BOOLEAN
  /\ exec \in {"graph", "count", "dispatch", "vectorizing", "returned", "refreshed"}
  /\ tracker \in Nat
  /\ lock \in {"held", "closed"}
  /\ queue \subseteq Msgs /\ settled \subseteq Msgs
  /\ handler \in [Handlers -> [pc : HandlerPCs, msg : Msgs \cup {NoMsg}]]
  /\ breaker \in Breakers
  /\ fresh \subseteq Files /\ reused \subseteq Dirs

(* The overview of a directory is scheduled only when everything it waits   *)
(* for has told it its result, so no overview is generated from a partial   *)
(* set of summaries (pending, overview_scheduled).                          *)
Through(u) == work[W(IF u \in Files THEN "file" ELSE "overview", u)] = "over"
OverviewSeesChildren ==
  \A d \in Dirs : work[W("overview", d)] # "none" =>
    \A u \in Pending(node[d].listed) : u \in heard[d] /\ Through(u)

(* An incremental execution keeps the overview of a directory only when     *)
(* nothing at or below it was changed by the caller and no file below it    *)
(* got a new summary (_file_change_status and _dir_change_status carry the   *)
(* change upwards, one directory at a time).                                *)
NoStaleReuse ==
  \A d \in reused : ~HasDirectChange(d) /\ \A f \in fresh : d \notin Ancestors[f]

(* The tree lock is held until every vector of the execution is in the      *)
(* vector store or given up, as long as no embedding message was retried:   *)
(* the tracker counts every vector that will be counted down.  A retried    *)
(* message is counted down at every try, so the premise is needed.          *)
HeldWhileIndexing ==
  lock = "closed" /\ ~requeued => Expected \subseteq settled

(* The tree lock of the semantic message is closed in the end, whatever     *)
(* the vectorize tasks, the model, the queue and the store do, even if the  *)
(* embedding API never recovers.                                            *)
LockReleased == <>(lock = "closed")
=============================================================================
