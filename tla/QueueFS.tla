------------------------------ MODULE QueueFS ------------------------------
(***************************************************************************)
(* The persistent work queues of OpenViking: the SQLite backend of the     *)
(* queuefs plugin (crates/ragfs/src/plugins/queuefs/backend.rs), the       *)
(* NamedQueue that counts what is in progress (named_queue.py), the worker *)
(* loops and wait_complete of the QueueManager (queue_manager.py), and of  *)
(* the handlers what the queues see of them: what they enqueue, whether    *)
(* they report success, an error or a re-enqueue, and whether they raise.  *)
(*                                                                         *)
(* One action is one call of the backend (it serialises them with a mutex) *)
(* together with the Python code that runs up to the next await.           *)
(***************************************************************************)
EXTENDS Integers, FiniteSets, Sequences

CONSTANTS
  Jobs,           \* the units of work messages are sent for
  Queues,         \* the queue names
  QueueOf,        \* QueueOf[j]: the queue the messages of job j go to
  Outputs,        \* Outputs[j]: the jobs the handler of j enqueues
  StatusOrder,    \* the queues in the order check_status reads them
  MaxConcurrent,  \* MaxConcurrent[q]: 1 selects the sequential worker loop
  Deduped,        \* memory jobs without a coalesce key (SemanticQueue.enqueue)
  Raising,        \* jobs whose handler may raise
  Unreadable,     \* jobs whose stored message may not parse
  Clearable,      \* queues somebody may clear
  Waits,          \* whether somebody calls wait_complete
  MaxRows,        \* bound on the messages ever enqueued
  MaxRestarts     \* bound on crashes and shutdowns

ASSUME QueueOfAssumption == QueueOf \in [Jobs -> Queues]
ASSUME OutputsAssumption == Outputs \in [Jobs -> SUBSET Jobs]
ASSUME OrderAssumption == StatusOrder \in Seq(Queues)
ASSUME ConcurrencyAssumption == MaxConcurrent \in [Queues -> Nat \ {0}]
ASSUME RolesAssumption ==
  /\ Deduped \subseteq Jobs /\ Raising \subseteq Jobs /\ Unreadable \subseteq Jobs
  /\ Clearable \subseteq Queues
ASSUME WaitsAssumption == Waits \in BOOLEAN
ASSUME BoundsAssumption == MaxRows \in Nat /\ MaxRestarts \in Nat

VARIABLES
  rows,        \* the table queue_messages
  nextId,      \* the next AUTOINCREMENT id
  tasks,       \* the messages a worker has fetched and is not done with
  inProgress,  \* NamedQueue._in_progress
  worker,      \* where each worker loop is
  stopping,    \* the stop events are set
  recent,      \* deduplicated jobs enqueued less than the window ago
  wait,        \* a wait_complete call
  restarts,    \* how often the process went down
  settled,     \* history: jobs a handler reported success or an error for
  waived       \* history: jobs whose messages were cleared

vars == <<rows, nextId, tasks, inProgress, worker, stopping, recent, wait,
          restarts, settled, waived>>
-----------------------------------------------------------------------------
Rows == [id : Nat, job : Jobs, status : {"pending", "processing"}]

(* A fetched message: between the fetch and _on_dequeue_start, in its       *)
(* handler (todo: what it has still to enqueue), re-enqueued but not yet    *)
(* reported, or reported and waiting for its ack.                           *)
Stages == {"fetched", "run", "requeued", "ack"}
Tasks == [id : Nat, job : Jobs, stage : Stages, todo : SUBSET Jobs]

RowsOf(q) == {r \in rows : QueueOf[r.job] = q}
Pending(q) == {r \in RowsOf(q) : r.status = "pending"}
TasksOf(q) == {t \in tasks : QueueOf[t.job] = q}
Owed == {r.job : r \in rows}
Down == \A q \in Queues : worker[q] = "off"
Sequential(q) == MaxConcurrent[q] = 1

WaitStates == [pc : {"idle", "size", "count", "done"}, at : Nat, pending : BOOLEAN,
               ok : BOOLEAN, due : SUBSET Jobs]
NoWait == [pc |-> "idle", at |-> 1, pending |-> FALSE, ok |-> TRUE, due |-> {}]

Init ==
  /\ rows = {}
  /\ nextId = 1
  /\ tasks = {}
  /\ inProgress = [q \in Queues |-> 0]
  /\ worker = [q \in Queues |-> "loop"]
  /\ stopping = FALSE
  /\ recent = {}
  /\ wait = NoWait
  /\ restarts = 0
  /\ settled = {}
  /\ waived = {}

manager == <<inProgress, worker, stopping, restarts>>
history == <<settled, waived>>
-----------------------------------------------------------------------------
(* Mutant: the window applies to every message.                             *)
AddRowAlwaysDedupes(j) ==
  IF j \in recent
  THEN UNCHANGED <<rows, nextId, recent>>
  ELSE /\ rows' = rows \cup {[id |-> nextId, job |-> j, status |-> "pending"]}
       /\ nextId' = nextId + 1
       /\ recent' = recent \cup {j}

(* enqueue.  A memory message without a coalesce key is dropped when the    *)
(* same directory was enqueued within the window; the caller cannot tell.   *)
AddRow(j) ==
  IF j \in recent
  THEN UNCHANGED <<rows, nextId, recent>>
  ELSE /\ rows' = rows \cup {[id |-> nextId, job |-> j, status |-> "pending"]}
       /\ nextId' = nextId + 1
       /\ recent' = IF j \in Deduped THEN recent \cup {j} ELSE recent

Move(t, s) == tasks' = (tasks \ {t}) \cup {[t EXCEPT !.stage = s]}
Count(q, n) == inProgress' = [inProgress EXCEPT ![q] = @ + n]

(* A client's request: the work no handler enqueues.                        *)
Enqueue(j) ==
  /\ ~Down
  /\ \A k \in Jobs : j \notin Outputs[k]
  /\ nextId <= MaxRows
  /\ j \notin Owed \cup settled \cup waived
  /\ AddRow(j)
  /\ UNCHANGED <<tasks, manager, wait, history>>

WindowPasses(j) ==
  /\ j \in recent
  /\ recent' = recent \ {j}
  /\ UNCHANGED <<rows, nextId, tasks, manager, wait, history>>

Clear(q) ==
  /\ q \in Clearable
  /\ ~Down
  /\ RowsOf(q) # {}
  /\ rows' = rows \ RowsOf(q)
  /\ waived' = waived \cup {r.job : r \in RowsOf(q)}
  /\ UNCHANGED <<nextId, tasks, manager, recent, wait, settled>>
-----------------------------------------------------------------------------
(* Mutant: a message is deleted when it is fetched.                         *)
FetchDeletes(q) ==
  /\ worker[q] = "loop"
  /\ Cardinality(TasksOf(q)) < MaxConcurrent[q]
  /\ \E r \in Pending(q) :
       /\ rows' = rows \ {r}
       /\ tasks' = tasks \cup {[id |-> r.id, job |-> r.job, stage |-> "fetched",
                                todo |-> Outputs[r.job]]}
  /\ UNCHANGED <<nextId, manager, recent, wait, history>>

(* The worker loops.  The concurrent loop goes on draining the queue after  *)
(* the stop event, the sequential one looks at the event before every       *)
(* message.                                                                 *)
MayFetch(q) ==
  /\ worker[q] = "loop"
  /\ Sequential(q) => ~stopping
  /\ Cardinality(TasksOf(q)) < MaxConcurrent[q]
  /\ \A t \in TasksOf(q) : t.stage # "fetched"

(* Fetch is the size check and the backend's dequeue: the oldest pending    *)
(* message becomes 'processing'.                                            *)
Fetch(q) ==
  /\ MayFetch(q)
  /\ \E r \in Pending(q) :
       /\ \A r2 \in Pending(q) : r.id <= r2.id
       /\ rows' = (rows \ {r}) \cup {[r EXCEPT !.status = "processing"]}
       /\ tasks' = tasks \cup {[id |-> r.id, job |-> r.job, stage |-> "fetched",
                                todo |-> Outputs[r.job]]}
  /\ UNCHANGED <<nextId, manager, recent, wait, history>>

(* The backend commits the new status before it parses the message.  One    *)
(* that does not parse stays 'processing' in nobody's hands: the error is   *)
(* logged and the loop goes on.                                             *)
FetchFails(q) ==
  /\ MayFetch(q)
  /\ \E r \in Pending(q) :
       /\ \A r2 \in Pending(q) : r.id <= r2.id
       /\ r.job \in Unreadable
       /\ rows' = (rows \ {r}) \cup {[r EXCEPT !.status = "processing"]}
  /\ UNCHANGED <<nextId, tasks, manager, recent, wait, history>>

(* _on_dequeue_start, then the task of the message is created.              *)
Start(t) ==
  /\ t.stage = "fetched"
  /\ Move(t, "run")
  /\ Count(QueueOf[t.job], 1)
  /\ UNCHANGED <<rows, nextId, worker, stopping, restarts, recent, wait, history>>

(* The handler enqueues the work that follows from its own.                 *)
Emit(t, j) ==
  /\ t.stage = "run"
  /\ j \in t.todo
  /\ nextId <= MaxRows
  /\ AddRow(j)
  /\ tasks' = (tasks \ {t}) \cup {[t EXCEPT !.todo = @ \ {j}]}
  /\ UNCHANGED <<manager, wait, history>>

(* report_success or report_error; the handler returns and is acked either  *)
(* way.  A handler that succeeds has enqueued everything.                   *)
Report(t) ==
  /\ t.stage = "run"
  /\ Move(t, "ack")
  /\ Count(QueueOf[t.job], -1)
  /\ settled' = settled \cup {t.job}
  /\ UNCHANGED <<rows, nextId, worker, stopping, restarts, recent, wait, waived>>

(* Mutant: a copy that could not be enqueued counts as re-enqueued.         *)
ReenqueueIgnoresFailure(t) ==
  /\ t.stage = "run"
  /\ Move(t, "requeued")
  /\ UNCHANGED <<rows, nextId, manager, recent, wait, history>>

(* A transient failure: a copy of the message is enqueued, then report_     *)
(* requeue and report_success, then the message itself is acked.  Nothing   *)
(* counts the retries; MaxRows ends them in the model.  Without a queue     *)
(* manager get_queue_manager raises and the handler reports an error.       *)
Reenqueue(t) ==
  /\ t.stage = "run"
  /\ nextId <= MaxRows
  /\ AddRow(t.job)
  /\ Move(t, "requeued")
  /\ UNCHANGED <<manager, wait, history>>

(* Mutant: report_requeue takes the message off the counter as well.        *)
ReportRequeueTwice(t) ==
  /\ t.stage = "requeued"
  /\ Move(t, "ack")
  /\ Count(QueueOf[t.job], -2)
  /\ UNCHANGED <<rows, nextId, worker, stopping, restarts, recent, wait, history>>

ReportRequeue(t) ==
  /\ t.stage = "requeued"
  /\ Move(t, "ack")
  /\ Count(QueueOf[t.job], -1)
  /\ UNCHANGED <<rows, nextId, worker, stopping, restarts, recent, wait, history>>

(* Mutant: the concurrent loop forgets the counter, too.                    *)
RaiseKeepsCount(t) ==
  /\ t.stage = "run"
  /\ t.job \in Raising
  /\ tasks' = tasks \ {t}
  /\ UNCHANGED <<rows, nextId, manager, recent, wait, history>>

(* The handler raises: no ack, the message stays 'processing' until the     *)
(* next start.  Only the concurrent loop takes it off the counter.          *)
Raise(t) ==
  /\ t.stage = "run"
  /\ t.job \in Raising
  /\ tasks' = tasks \ {t}
  /\ IF Sequential(QueueOf[t.job])
     THEN UNCHANGED inProgress
     ELSE Count(QueueOf[t.job], -1)
  /\ UNCHANGED <<rows, nextId, worker, stopping, restarts, recent, wait, history>>

(* ack: the backend deletes the message if it is 'processing'.              *)
Ack(t) ==
  /\ t.stage = "ack"
  /\ rows' = {r \in rows : ~(r.id = t.id /\ r.status = "processing")}
  /\ tasks' = tasks \ {t}
  /\ UNCHANGED <<nextId, manager, recent, wait, history>>

(* A failing ack is logged and forgotten.                                   *)
AckFails(t) ==
  /\ t.stage = "ack"
  /\ tasks' = tasks \ {t}
  /\ UNCHANGED <<rows, nextId, manager, recent, wait, history>>
-----------------------------------------------------------------------------
(* stop: the loops leave when they see the event, drain their tasks, and    *)
(* cancel the ones that take longer than five seconds.  CancelledError is   *)
(* no Exception: nothing is reported and nothing acked.  The sequential     *)
(* loop has no tasks beside itself.                                         *)
Stop ==
  /\ ~stopping
  /\ restarts < MaxRestarts
  /\ stopping' = TRUE
  /\ UNCHANGED <<rows, nextId, tasks, inProgress, worker, restarts, recent, wait, history>>

LeaveLoop(q) ==
  /\ stopping
  /\ worker[q] = "loop"
  /\ IF Sequential(q)
     THEN TasksOf(q) = {}
     ELSE \A t \in TasksOf(q) : t.stage # "fetched"
  /\ worker' = [worker EXCEPT ![q] = "drain"]
  /\ UNCHANGED <<rows, nextId, tasks, inProgress, stopping, restarts, recent, wait, history>>

Cancel(q) ==
  /\ worker[q] = "drain"
  /\ TasksOf(q) # {}
  /\ tasks' = tasks \ TasksOf(q)
  /\ UNCHANGED <<rows, nextId, manager, recent, wait, history>>

(* The last loop to end takes the queues and the waiting call with it.      *)
Exit(q) ==
  /\ worker[q] = "drain"
  /\ TasksOf(q) = {}
  /\ worker' = [worker EXCEPT ![q] = "off"]
  /\ wait' = IF \A q2 \in Queues \ {q} : worker[q2] = "off" THEN NoWait ELSE wait
  /\ UNCHANGED <<rows, nextId, tasks, inProgress, stopping, restarts, recent, history>>

Crash ==
  /\ ~Down
  /\ restarts < MaxRestarts
  /\ tasks' = {}
  /\ worker' = [q \in Queues |-> "off"]
  /\ wait' = NoWait
  /\ UNCHANGED <<rows, nextId, inProgress, stopping, restarts, recent, history>>

(* Mutant: messages that were being processed are not recovered.            *)
RestartNoRecovery ==
  /\ Down
  /\ inProgress' = [q \in Queues |-> 0]
  /\ worker' = [q \in Queues |-> "loop"]
  /\ stopping' = FALSE
  /\ recent' = {}
  /\ restarts' = restarts + 1
  /\ UNCHANGED <<rows, nextId, tasks, wait, history>>

(* A new process opens the database: recover_stale (with the default of 0   *)
(* seconds) makes every 'processing' message pending again.                 *)
Restart ==
  /\ Down
  /\ rows' = {[r EXCEPT !.status = "pending"] : r \in rows}
  /\ inProgress' = [q \in Queues |-> 0]
  /\ worker' = [q \in Queues |-> "loop"]
  /\ stopping' = FALSE
  /\ recent' = {}
  /\ restarts' = restarts + 1
  /\ UNCHANGED <<nextId, tasks, wait, history>>
-----------------------------------------------------------------------------
(* wait_complete: get_status of every queue, which reads the size from the  *)
(* backend and then the counter, until all are complete.                    *)
StartWait ==
  /\ Waits
  /\ wait.pc = "idle"
  /\ ~Down
  /\ wait' = [NoWait EXCEPT !.pc = "size", !.due = Owed]
  /\ UNCHANGED <<rows, nextId, tasks, manager, recent, history>>

ReadSize ==
  /\ wait.pc = "size"
  /\ wait' = [wait EXCEPT !.pc = "count",
                          !.pending = Pending(StatusOrder[wait.at]) # {}]
  /\ UNCHANGED <<rows, nextId, tasks, manager, recent, history>>

ReadCount ==
  LET ok == wait.ok /\ ~wait.pending /\ inProgress[StatusOrder[wait.at]] = 0
      round == IF ok THEN [wait EXCEPT !.pc = "done"]
               ELSE [wait EXCEPT !.pc = "size", !.at = 1, !.pending = FALSE, !.ok = TRUE]
  IN
  /\ wait.pc = "count"
  /\ wait' = IF wait.at < Len(StatusOrder)
             THEN [wait EXCEPT !.pc = "size", !.at = @ + 1, !.pending = FALSE, !.ok = ok]
             ELSE round
  /\ UNCHANGED <<rows, nextId, tasks, manager, recent, history>>

EndWait ==
  /\ wait.pc = "done"
  /\ wait' = NoWait
  /\ UNCHANGED <<rows, nextId, tasks, manager, recent, history>>

(* Nothing to fetch and nothing to do: the loops only poll.                 *)
Poll ==
  /\ \A q \in Queues : worker[q] = "loop" /\ Pending(q) = {}
  /\ tasks = {}
  /\ UNCHANGED vars

Handler(t) ==
  Report(t) \/ Reenqueue(t) \/ ReportRequeue(t) \/ Raise(t) \/ \E j \in Jobs : Emit(t, j)

TaskStep(t) == Start(t) \/ Handler(t) \/ Ack(t) \/ AckFails(t)

Next ==
  \/ \E j \in Jobs : Enqueue(j) \/ WindowPasses(j)
  \/ \E q \in Queues : Clear(q) \/ Fetch(q) \/ FetchFails(q)
  \/ \E q \in Queues : LeaveLoop(q) \/ Cancel(q) \/ Exit(q)
  \/ \E t \in tasks : TaskStep(t)
  \/ Stop \/ Crash \/ Restart
  \/ StartWait \/ ReadSize \/ ReadCount \/ EndWait \/ Poll

Spec == Init /\ [][Next]_vars

(* The worker threads and the event loops run, a handler returns, a process *)
(* that is down is started again; nobody has to enqueue, clear, crash, stop *)
(* or wait.                                                                 *)
FairSpec ==
  /\ Spec
  /\ \A q \in Queues :
       /\ WF_vars(Fetch(q) \/ FetchFails(q))
       /\ WF_vars(LeaveLoop(q)) /\ WF_vars(Cancel(q)) /\ WF_vars(Exit(q))
  /\ \A i \in 1 .. MaxRows : WF_vars(\E t \in tasks : t.id = i /\ TaskStep(t))
  /\ WF_vars(Restart)
  /\ WF_vars(ReadSize) /\ WF_vars(ReadCount)
-----------------------------------------------------------------------------
TypeOK ==
  /\ rows \subseteq Rows
  /\ nextId \in Nat
  /\ tasks \subseteq Tasks
  /\ inProgress \in [Queues -> Int]
  /\ worker \in [Queues -> {"loop", "drain", "off"}]
  /\ stopping \in BOOLEAN
  /\ recent \subseteq Deduped
  /\ wait \in WaitStates
  /\ restarts \in Nat
  /\ settled \subseteq Jobs
  /\ waived \subseteq Jobs

(* The job of message id of j is not lost with that message.                *)
Covered(j, id) ==
  \/ j \in settled \cup waived
  \/ \E r \in rows : r.job = j /\ r.id > id

(* A message is acked only when its job has been reported on or given up,   *)
(* or when a later copy of it is in the table: "re-enqueue for retry"       *)
(* (semantic_processor.py) puts the copy there before the ack, whatever     *)
(* becomes of the copy in the meantime.                                     *)
AckIsSafe ==
  \A t \in tasks : t.stage \in {"requeued", "ack"} => Covered(t.job, t.id)

(* While a worker runs, every message marked 'processing' is in the hands   *)
(* of a task, unless its job is settled, given up or carried on by a later  *)
(* copy, its handler raised, or what is stored did not parse: nothing else  *)
(* waits for a restart.                                                     *)
NothingStranded ==
  \A r \in rows :
    r.status = "processing" /\ worker[QueueOf[r.job]] = "loop" =>
      \/ \E t \in tasks : t.id = r.id
      \/ Covered(r.job, r.id)
      \/ r.job \in Raising \cup Unreadable

(* The counter that wait_complete and the status endpoint read is the       *)
(* number of messages between _on_dequeue_start and their report, over any  *)
(* mix of success, error, re-enqueue, exception and restart.                *)
Handled(q) == {t \in TasksOf(q) : t.stage \in {"run", "requeued"}}
InProgressExact ==
  \A q \in Queues : worker[q] = "loop" /\ ~Sequential(q) =>
    inProgress[q] = Cardinality(Handled(q))

Ledger == INSTANCE JobLedger WITH owed <- Owed
(* The queues implement the ledger: whatever is re-enqueued, acked,         *)
(* cancelled, crashed or recovered, a job's last message leaves the table   *)
(* only after the job was settled or its queue cleared.                     *)
LedgerSpec == Ledger!Spec

(* A wait_complete that has returned: nothing that was owed when it began,  *)
(* and nothing that followed from it, is still pending or in a handler      *)
(* ("blocks until all queued tasks are processed",                          *)
(* docs/en/api/07-system.md).                                               *)
Unfinished(j) ==
  \/ \E r \in rows : r.job = j /\ r.status = "pending"
  \/ \E t \in tasks : t.job = j /\ t.stage \in {"fetched", "run"}
WaitMeansDone ==
  wait.pc = "done" =>
    \A j \in wait.due : ~Unfinished(j) /\ \A k \in Outputs[j] : ~Unfinished(k)

(* The code puts no cap on retries: a message whose API keeps failing goes  *)
(* round for ever ("which would cycle forever", collection_schemas.py, of   *)
(* the errors it therefore does not re-enqueue).  In the model such a job   *)
(* uses up the rows.                                                        *)
RetriedOnAndOn == nextId > MaxRows

(* Its handler raised, or it did not parse: the message of a job waits for  *)
(* the next start.                                                          *)
LeftToRestart(j) ==
  /\ j \in Raising \cup Unreadable
  /\ \E r \in rows :
       r.job = j /\ r.status = "processing" /\ \A t \in tasks : t.id # r.id

(* Every job that was accepted is settled in the end, through crashes,      *)
(* shutdowns, cancelled tasks and failed acks, in sequential and concurrent *)
(* loops, unless its message is left to the next start or it is re-enqueued *)
(* on and on: a finite number of retries delays a job and never loses it.   *)
EveryJobSettles ==
  \A j \in Jobs :
    (j \in Owed) ~> (j \in settled \cup waived \/ LeftToRestart(j) \/ RetriedOnAndOn)

(* A wait_complete without a timeout returns once the queues come to rest,  *)
(* even when handlers raise and acks fail.                                  *)
WaitReturns == (wait.pc \in {"size", "count"}) ~> (wait.pc \in {"done", "idle"})
-----------------------------------------------------------------------------
(* The inductive invariants: CountInv behind InProgressExact, IInv behind   *)
(* AckIsSafe, NothingStranded and LedgerSpec in queues that deduplicate     *)
(* nothing.                                                                 *)

(* Ids are handed out once.                                                 *)
IdsFresh == (\A r \in rows : r.id < nextId) /\ (\A t \in tasks : t.id < nextId)
IdsUnique ==
  /\ \A r1, r2 \in rows : r1.id = r2.id => r1 = r2
  /\ \A t1, t2 \in tasks : t1.id = t2.id => t1 = t2

(* A task and its row, if it is still there, agree.                         *)
TaskRow ==
  \A t \in tasks, r \in rows :
    t.id = r.id => t.job = r.job /\ r.status = "processing"

(* A message in its handler is still in the table or was cleared.           *)
RunOwed ==
  \A t \in tasks : t.stage \in {"fetched", "run"} =>
    t.job \in waived \/ \E r \in rows : r.id = t.id

(* A worker that is off has no tasks.                                       *)
OffIdle == \A t \in tasks : worker[QueueOf[t.job]] # "off"

(* What holds of ids, tasks and workers whether or not messages are         *)
(* deduplicated, and what the counter needs besides.                        *)
Identity == IdsFresh /\ IdsUnique /\ TaskRow /\ OffIdle
CountInv == TypeOK /\ Identity /\ IsFiniteSet(tasks) /\ InProgressExact

IInv == TypeOK /\ Identity /\ RunOwed /\ AckIsSafe /\ NothingStranded
=============================================================================
