--------------------------- MODULE SessionCommit ---------------------------
(***************************************************************************)
(* The two-phase commit of one session (openviking/session/session.py):    *)
(* add_messages appends to the root file under the session lock;           *)
(* commit_async, under the same lock, writes an intent, the raw archive, a *)
(* message for the SessionCommit queue and a task, and only then rewrites  *)
(* the root and publishes the archive as ready; the queue's handler        *)
(* (resume_queued_commit) reconciles an interrupted first phase, waits for *)
(* the earlier archives, rolls the failed ones into its input, extracts    *)
(* memories and writes .done last.                                         *)
(*                                                                         *)
(* One action is one durable write with the code up to the next one.  The  *)
(* session lock is held exactly while commit.pc is not "idle"; its other   *)
(* holders write once, so each of them is a single step that needs the     *)
(* lock to be free.  PathLock models the lock, QueueFS the queue.          *)
(***************************************************************************)
EXTENDS Integers, FiniteSets

CONSTANTS
  MaxMsgs,        \* bound on the messages of the session
  MaxArchives,    \* bound on its archives
  MemorySteps,    \* the extraction steps whose progress is recorded
  MaxConcurrent,  \* commit jobs the queue worker runs at a time
  FaultKinds,     \* what may go wrong, each at most once (see Fault)
  MaxFaults,      \* bound on the faults of a behaviour
  MaxCrashes      \* bound on the crashes

ASSUME BoundsAssumption ==
  MaxMsgs \in Nat /\ MaxArchives \in Nat /\ MaxFaults \in Nat /\ MaxCrashes \in Nat
ASSUME ConcurrencyAssumption == MaxConcurrent \in Nat \ {0}
ASSUME StepsAssumption == "summary" \notin MemorySteps

VARIABLES
  sent,         \* messages 1..sent were appended
  live,         \* the root messages.jsonl
  phase1,       \* .meta.json of an archive: the intent of its first phase
  raw,          \* messages.jsonl of an archive; {} when there is none
  failed,       \* .failed.json: "none" when there is none, else its cause
  done,         \* .done
  overview,     \* there is a readable overview
  progress,     \* completed_memory_steps of .meta.json and .failed.json
  job,          \* the queue message of an archive
  task,         \* its task in the task store
  cached,       \* its task in the tracker's cache
  commit,       \* the commit_async that holds the session lock
  phase2,       \* the handler of the queue message of an archive
  times,        \* history: how often a message went through a memory step
  interrupted,  \* history: a commit ended unfinished, or progress was lost
  faults,       \* the faults that happened
  crashes       \* how often the process crashed

disk == <<phase1, raw, failed, done, overview, progress>>
tracker == <<task, cached>>
history == <<times, interrupted>>
bounds == <<faults, crashes>>
vars == <<sent, live, disk, job, tracker, commit, phase2, history, bounds>>
-----------------------------------------------------------------------------
Msgs == 1 .. MaxMsgs
Archives == 1 .. MaxArchives
Causes == {"phase1", "recovery", "archive_read", "replay", "extraction"}
Terminal == {"completed", "failed"}
Statuses == {"none", "pending", "running"} \cup Terminal
Steps == [MemorySteps -> SUBSET Msgs]
NoSteps == [s \in MemorySteps |-> {}]

(* "none": there is no directory; "bare": there is one, without an intent.  *)
Intents ==
  [status : {"none", "bare", "preparing", "ready"}, out : SUBSET Msgs, keep : SUBSET Msgs]
NoIntent == [status |-> "none", out |-> {}, keep |-> {}]
BareDir == [status |-> "bare", out |-> {}, keep |-> {}]

(* coverage_start_archive, covered_failed_archives and, as history, the     *)
(* messages the second phase has worked on.                                 *)
Dones == [on : BOOLEAN, from : Nat, absorbed : SUBSET Archives, input : SUBSET Msgs]
NotDone == [on |-> FALSE, from |-> 0, absorbed |-> {}, input |-> {}]

CommitPCs == {"idle", "marker", "raw", "enqueue", "task", "root", "ready", "fail"}
Commits == [pc : CommitPCs, arch : Nat, out : SUBSET Msgs, keep : SUBSET Msgs]
NoCommit == [pc |-> "idle", arch |-> 0, out |-> {}, keep |-> {}]

(* todo: the concurrent steps that still run; unsaved: the ones that are    *)
(* through but not recorded; bad: one of them failed.                       *)
Phase2PCs == {"off", "begin", "ensure", "wait", "run", "meta", "done", "complete",
              "mark", "known", "giveup", "ack"}
Phase2s == [pc : Phase2PCs, input : SUBSET Msgs, from : Nat, absorbed : SUBSET Archives,
            steps : Steps, todo : SUBSET (MemorySteps \cup {"summary"}),
            unsaved : SUBSET MemorySteps, bad : BOOLEAN, cause : Causes]
NoPhase2 == [pc |-> "off", input |-> {}, from |-> 0, absorbed |-> {}, steps |-> NoSteps,
             todo |-> {}, unsaved |-> {}, bad |-> FALSE, cause |-> "extraction"]

Init ==
  /\ sent = 0
  /\ live = {}
  /\ phase1 = [a \in Archives |-> NoIntent]
  /\ raw = [a \in Archives |-> {}]
  /\ failed = [a \in Archives |-> "none"]
  /\ done = [a \in Archives |-> NotDone]
  /\ overview = [a \in Archives |-> FALSE]
  /\ progress = [a \in Archives |-> NoSteps]
  /\ job = [a \in Archives |-> "none"]
  /\ task = [a \in Archives |-> "none"]
  /\ cached = [a \in Archives |-> "none"]
  /\ commit = NoCommit
  /\ phase2 = [a \in Archives |-> NoPhase2]
  /\ times = [m \in Msgs |-> [s \in MemorySteps |-> 0]]
  /\ interrupted = FALSE
  /\ faults = {}
  /\ crashes = 0

LockFree == commit.pc = "idle"

(* A fault of kind k happens here.                                          *)
Fault(k) ==
  /\ k \in FaultKinds \ faults
  /\ Cardinality(faults) < MaxFaults
  /\ faults' = faults \cup {k}
-----------------------------------------------------------------------------
(* What the markers in the directories say (_scan_archive_states).          *)
Exists(a) == phase1[a].status # "none" \/ failed[a] # "none"
Completed(a) == done[a].on /\ overview[a]
Failed(a) == (done[a].on /\ ~overview[a]) \/ (~done[a].on /\ failed[a] # "none")
Pending(a) == Exists(a) /\ ~done[a].on /\ failed[a] = "none"

(* _covered_archive_ids.                                                    *)
Covers(a, b) ==
  /\ Completed(a)
  /\ \/ b \in done[a].from .. a /\ (Completed(b) \/ Failed(b))
     \/ b \in done[a].absorbed /\ b <= a /\ Failed(b)
Covered(b) == \E a \in Archives : Covers(a, b)

(* The messages get_session_context shows next to the latest overview.      *)
Context == live \cup UNION {raw[b] : b \in {c \in Archives : ~Covered(c) /\ ~Completed(c)}}

(* The messages a completed archive's summary stands for.                   *)
Digested == UNION {done[a].input : a \in {b \in Archives : Completed(b)}}
-----------------------------------------------------------------------------
(* The task tracker: what it knows of a task, creating it (an existing task *)
(* of that id is only loaded) and moving it on unless it has ended.         *)
Known(a) == IF cached[a] = "none" THEN task[a] ELSE cached[a]

Create(a) ==
  LET status == IF Known(a) = "none" THEN "pending" ELSE Known(a) IN
  /\ cached' = [cached EXCEPT ![a] = status]
  /\ task' = [task EXCEPT ![a] = IF Known(a) = "none" THEN "pending" ELSE @]

Advance(a, status) ==
  IF Known(a) \in Terminal \cup {"none"}
  THEN UNCHANGED tracker
  ELSE /\ cached' = [cached EXCEPT ![a] = status]
       /\ task' = [task EXCEPT ![a] = status]

(* The cached record is changed before the store refuses the update.        *)
AdvanceFails(a, status) ==
  /\ Known(a) \notin Terminal \cup {"none"}
  /\ cached' = [cached EXCEPT ![a] = status]
  /\ UNCHANGED task
-----------------------------------------------------------------------------
(* add_messages: reload, append, save, under the lock.                      *)
Append ==
  /\ LockFree
  /\ sent < MaxMsgs
  /\ sent' = sent + 1
  /\ live' = live \cup {sent + 1}
  /\ UNCHANGED <<disk, job, tracker, commit, phase2, history, bounds>>

(* The splits of the live messages: the archived ones come first, and a     *)
(* partly archived turn leaves a copy of its user anchor on both sides.     *)
Splits ==
  {s \in [out : SUBSET live, keep : SUBSET live] :
     /\ s.out # {}
     /\ s.out \cup s.keep = live
     /\ \A x \in s.out, y \in s.keep \ s.out : x < y
     /\ \A x, y \in s.out \cap s.keep : x = y
     /\ \A x \in s.out \cap s.keep : \E z \in s.out : x < z}

(* The index after the highest directory in history/.                       *)
NextIndex(n) ==
  /\ n \in Archives
  /\ \A a \in Archives : Exists(a) => a < n
  /\ n > 1 => Exists(n - 1)

Step(pc) == commit' = [commit EXCEPT !.pc = pc]

CommitBegin(n) ==
  /\ LockFree
  /\ NextIndex(n)
  /\ \E s \in Splits :
       commit' = [pc |-> "marker", arch |-> n, out |-> s.out, keep |-> s.keep]
  /\ UNCHANGED <<sent, live, disk, job, tracker, phase2, history, bounds>>

(* The listing of history/ fails and counts as empty, or ends before the    *)
(* last directory: the commit takes the index of an archive that is there.  *)
(* Its queue message and its task are new ones.  (An archive that has not   *)
(* ended would be pulled from under its handler; that case is left out.)    *)
CommitBeginUnlisted(n) ==
  /\ LockFree
  /\ n \in Archives
  /\ Exists(n) /\ ~Pending(n) /\ job[n] \in {"none", "acked"} /\ phase2[n].pc = "off"
  /\ Fault("list")
  /\ \E s \in Splits :
       commit' = [pc |-> "marker", arch |-> n, out |-> s.out, keep |-> s.keep]
  /\ job' = [job EXCEPT ![n] = "none"]
  /\ task' = [task EXCEPT ![n] = "none"]
  /\ cached' = [cached EXCEPT ![n] = "none"]
  /\ UNCHANGED <<sent, live, disk, phase2, history, crashes>>

(* write_file creates the directory before it writes the intent.            *)
MakeDir ==
  /\ commit.pc = "marker"
  /\ phase1[commit.arch].status = "none"
  /\ phase1' = [phase1 EXCEPT ![commit.arch] = BareDir]
  /\ UNCHANGED <<sent, live, raw, failed, done, overview, progress, job, tracker, commit,
                 phase2, history, bounds>>

(* Mutant: the status is one the readers do not know.                       *)
WriteIntentStarted ==
  /\ commit.pc = "marker"
  /\ phase1[commit.arch].status # "none"
  /\ phase1' = [phase1 EXCEPT ![commit.arch] =
                  [status |-> "started", out |-> commit.out, keep |-> commit.keep]]
  /\ Step("raw")
  /\ UNCHANGED <<sent, live, raw, failed, done, overview, progress, job, tracker, phase2,
                 history, bounds>>

WritePhase1Marker ==
  /\ commit.pc = "marker"
  /\ phase1[commit.arch].status # "none"
  /\ phase1' = [phase1 EXCEPT ![commit.arch] =
                  [status |-> "preparing", out |-> commit.out, keep |-> commit.keep]]
  /\ Step("raw")
  /\ UNCHANGED <<sent, live, raw, failed, done, overview, progress, job, tracker, phase2,
                 history, bounds>>

(* Mutant: the raw archive is left for later.                               *)
WriteRawLater ==
  /\ commit.pc = "raw"
  /\ Step("enqueue")
  /\ UNCHANGED <<sent, live, disk, job, tracker, phase2, history, bounds>>

WriteRaw ==
  /\ commit.pc = "raw"
  /\ raw' = [raw EXCEPT ![commit.arch] = commit.out]
  /\ Step("enqueue")
  /\ UNCHANGED <<sent, live, phase1, failed, done, overview, progress, job, tracker, phase2,
                 history, bounds>>

(* _merge_archive_meta takes a .meta.json it cannot read for an empty one   *)
(* and writes it anew: what was in it is gone.  Here it merges the          *)
(* retention plan.                                                          *)
PlanForgets ==
  /\ commit.pc = "enqueue"
  /\ Fault("merge")
  /\ phase1' = [phase1 EXCEPT ![commit.arch] = BareDir]
  /\ progress' = [progress EXCEPT ![commit.arch] = NoSteps]
  /\ interrupted' = TRUE
  /\ UNCHANGED <<sent, live, raw, failed, done, overview, job, tracker, commit, phase2,
                 times, crashes>>

EnqueueJob ==
  /\ commit.pc = "enqueue"
  /\ job' = [job EXCEPT ![commit.arch] = "queued"]
  /\ Step("task")
  /\ UNCHANGED <<sent, live, disk, tracker, phase2, history, bounds>>

CreateTask ==
  /\ commit.pc = "task"
  /\ Create(commit.arch)
  /\ Step("root")
  /\ UNCHANGED <<sent, live, disk, job, phase2, history, bounds>>

RewriteRoot ==
  /\ commit.pc = "root"
  /\ live' = commit.keep
  /\ Step("ready")
  /\ UNCHANGED <<sent, disk, job, tracker, phase2, history, bounds>>

PublishReady ==
  /\ commit.pc = "ready"
  /\ phase1' = [phase1 EXCEPT ![commit.arch].status = "ready"]
  /\ commit' = NoCommit
  /\ UNCHANGED <<sent, live, raw, failed, done, overview, progress, job, tracker, phase2,
                 history, bounds>>

(* A write of the first phase raises: the archive is marked as failed.      *)
CommitFails ==
  /\ commit.pc \notin {"idle", "fail"}
  /\ Fault("phase1")
  /\ Step("fail")
  /\ UNCHANGED <<sent, live, disk, job, tracker, phase2, history, crashes>>

(* The root still has what the commit archives: a later commit archives it  *)
(* once more.                                                               *)
Unfinished == commit.pc # "idle" /\ (commit.out \ commit.keep) \cap live # {}

WriteCommitFailed ==
  /\ commit.pc = "fail"
  /\ failed' = [failed EXCEPT ![commit.arch] = "phase1"]
  /\ commit' = NoCommit
  /\ interrupted' = (interrupted \/ Unfinished)
  /\ UNCHANGED <<sent, live, phase1, raw, done, overview, progress, job, tracker, phase2,
                 times, bounds>>

(* The marker cannot be written either; that is only logged.  The backend   *)
(* that failed before is still out: MaxFaults does not count it again.      *)
CommitFailedUnmarked ==
  /\ commit.pc = "fail"
  /\ "marker" \in FaultKinds \ faults
  /\ faults' = faults \cup {"marker"}
  /\ commit' = NoCommit
  /\ interrupted' = (interrupted \/ Unfinished)
  /\ UNCHANGED <<sent, live, disk, job, tracker, phase2, times, crashes>>
-----------------------------------------------------------------------------
(* The worker of the SessionCommit queue takes the oldest message.          *)
Fetch(a) ==
  /\ job[a] = "queued"
  /\ \A b \in Archives : job[b] = "queued" => a <= b
  /\ Cardinality({b \in Archives : job[b] = "running"}) < MaxConcurrent
  /\ job' = [job EXCEPT ![a] = "running"]
  /\ phase2' = [phase2 EXCEPT ![a] = [NoPhase2 EXCEPT !.pc = "begin"]]
  /\ UNCHANGED <<sent, live, disk, tracker, commit, history, bounds>>

Goto(a, pc) == phase2' = [phase2 EXCEPT ![a].pc = pc]
Mark(a, cause) == phase2' = [phase2 EXCEPT ![a].pc = "mark", ![a].cause = cause]

(* resume_queued_commit: a finished or failed archive only has its task     *)
(* brought up to date.                                                      *)
Begin(a) ==
  /\ phase2[a].pc = "begin"
  /\ Create(a)
  /\ Goto(a, IF done[a].on THEN IF Known(a) = "completed" THEN "ack" ELSE "known"
             ELSE IF failed[a] # "none" THEN "giveup" ELSE "ensure")
  /\ UNCHANGED <<sent, live, disk, job, commit, history, bounds>>

(* The first phase of b has rewritten the root, as far as the root tells:   *)
(* what it keeps comes first and nothing it archived is left.               *)
Applied(b) ==
  /\ phase1[b].keep \subseteq live
  /\ \A x \in phase1[b].keep, y \in live \ phase1[b].keep : x < y
  /\ (phase1[b].out \ phase1[b].keep) \cap live = {}

(* _ensure_phase1_ready under the lock.                                     *)
Reconcile(b) ==
  IF Applied(b)
  THEN /\ phase1' = [phase1 EXCEPT ![b].status = "ready"]
       /\ UNCHANGED failed
  ELSE /\ failed' = [failed EXCEPT ![b] = "recovery"]
       /\ UNCHANGED phase1

(* Its error path: the intent or the root cannot be read.                   *)
Unverified(b) ==
  /\ Fault("root")
  /\ failed' = [failed EXCEPT ![b] = "recovery"]
  /\ UNCHANGED phase1

(* Ready: the archive is read; one without messages is marked as failed.    *)
GoOn(a) == IF raw[a] = {} THEN Mark(a, "archive_read") ELSE Goto(a, "wait")

EnsureReady(a) ==
  /\ phase2[a].pc = "ensure"
  /\ \/ /\ phase1[a].status \in {"ready", "bare"}
        /\ GoOn(a)
        /\ UNCHANGED <<phase1, failed>>
     \/ /\ phase1[a].status = "preparing" /\ failed[a] # "none"
        /\ Goto(a, "giveup")
        /\ UNCHANGED <<phase1, failed>>
     \/ /\ phase1[a].status = "preparing" /\ failed[a] = "none" /\ LockFree
        /\ Reconcile(a)
        /\ IF Applied(a) THEN GoOn(a) ELSE Goto(a, "giveup")
  /\ UNCHANGED <<sent, live, raw, done, overview, progress, job, tracker, commit, history,
                 bounds>>

EnsureUnverified(a) ==
  /\ phase2[a].pc = "ensure"
  /\ phase1[a].status = "preparing" /\ failed[a] = "none" /\ LockFree
  /\ Unverified(a)
  /\ Goto(a, "giveup")
  /\ UNCHANGED <<sent, live, raw, done, overview, progress, job, tracker, commit, history,
                 crashes>>

(* An unreadable .meta.json is taken for an archive of an older version,    *)
(* which has no first phase to wait for.                                    *)
EnsureLegacy(a) ==
  /\ phase2[a].pc = "ensure"
  /\ phase1[a].status = "preparing"
  /\ Fault("meta")
  /\ GoOn(a)
  /\ interrupted' = TRUE
  /\ UNCHANGED <<sent, live, disk, job, tracker, commit, times, crashes>>
-----------------------------------------------------------------------------
(* Mutant: every pending archive is waited for.                             *)
WaitPolls(a) ==
  /\ phase2[a].pc = "wait"
  /\ UNCHANGED vars

(* _wait_for_previous_archive_done: an earlier intent that is not ready is  *)
(* reconciled, any other pending archive waited for.                        *)
WaitReconciles(a) ==
  /\ phase2[a].pc = "wait"
  /\ LockFree
  /\ \E b \in 1 .. a - 1 :
       /\ Pending(b)
       /\ phase1[b].status = "preparing"
       /\ Reconcile(b)
  /\ UNCHANGED <<sent, live, raw, done, overview, progress, job, tracker, commit, phase2,
                 history, bounds>>

WaitUnverified(a) ==
  /\ phase2[a].pc = "wait"
  /\ LockFree
  /\ \E b \in 1 .. a - 1 :
       /\ Pending(b)
       /\ phase1[b].status = "preparing"
       /\ Unverified(b)
  /\ UNCHANGED <<sent, live, raw, done, overview, progress, job, tracker, commit, phase2,
                 history, crashes>>

(* The lock is not to be had within 30 seconds: the second phase fails.     *)
LockTimeout(a) ==
  /\ ~LockFree
  /\ \/ phase2[a].pc = "meta"
     \/ /\ phase2[a].pc = "wait"
        /\ \E b \in 1 .. a - 1 : Pending(b) /\ phase1[b].status = "preparing"
  /\ Fault("lock")
  /\ Mark(a, "extraction")
  /\ UNCHANGED <<sent, live, disk, job, tracker, commit, history, crashes>>

(* The failed archives before a that no completed one covers.               *)
Replay(a) == {b \in 1 .. a - 1 : Failed(b) /\ ~Covered(b)}
Least(S) == CHOOSE x \in S : \A y \in S : x <= y

StepsOf(S) == [s \in MemorySteps |-> UNION {progress[b][s] : b \in S}]
MessagesOf(S) == UNION {raw[b] : b \in S}

(* Mutant: the progress of the archives that are replayed is forgotten.     *)
KnownStepsOwn(a) == progress[a]

KnownSteps(a) == StepsOf(Replay(a) \cup {a})

PreviousEnded(a) == \A b \in 1 .. a - 1 : ~Pending(b)

(* Mutant: the input is this archive alone, the failed ones count covered.  *)
InputOwn(a) == raw[a]

(* The failed archives are rolled forward into this one.                    *)
Input(a) == MessagesOf(Replay(a) \cup {a})

(* The second phase starts on the input, with the archives in absorbed      *)
(* rolled into it, and leaves out the steps that are known to be through.   *)
StartOn(a, input, absorbed, known) ==
  phase2' = [phase2 EXCEPT ![a] =
    [@ EXCEPT !.pc = "run", !.input = input, !.from = Least(absorbed \cup {a}),
              !.absorbed = absorbed, !.steps = known,
              !.todo = {"summary"} \cup {s \in MemorySteps : ~(input \subseteq known[s])}]]

(* _prepare_phase2_archive_messages, and the task is running.  Reading an   *)
(* archive without a messages.jsonl raises.                                 *)
Prepare(a) ==
  /\ phase2[a].pc = "wait"
  /\ PreviousEnded(a)
  /\ \A b \in Replay(a) : raw[b] # {}
  /\ StartOn(a, Input(a), Replay(a), KnownSteps(a))
  /\ Advance(a, "running")
  /\ UNCHANGED <<sent, live, disk, job, commit, history, bounds>>

PrepareRaises(a) ==
  /\ phase2[a].pc = "wait"
  /\ PreviousEnded(a)
  /\ \E b \in Replay(a) : raw[b] = {}
  /\ Mark(a, "replay")
  /\ UNCHANGED <<sent, live, disk, job, tracker, commit, history, bounds>>

(* The progress of some of the archives cannot be read and counts as none.  *)
PrepareForgets(a) ==
  /\ phase2[a].pc = "wait"
  /\ PreviousEnded(a)
  /\ \A b \in Replay(a) : raw[b] # {}
  /\ Fault("progress")
  /\ \E S \in SUBSET (Replay(a) \cup {a}) :
       StartOn(a, Input(a), Replay(a), StepsOf(S))
  /\ Advance(a, "running")
  /\ interrupted' = TRUE
  /\ UNCHANGED <<sent, live, disk, job, commit, times, crashes>>

(* A listing fails and counts as empty, which ends the waiting, or markers  *)
(* cannot be read: archives that failed are passed over, others that have   *)
(* ended are taken for failed.                                              *)
PrepareMisled(a) ==
  /\ phase2[a].pc = "wait"
  /\ Fault("scan")
  /\ \E S \in SUBSET {b \in 1 .. a - 1 : Exists(b) /\ ~Pending(b) /\ raw[b] # {}} :
       StartOn(a, MessagesOf(S \cup {a}), S, StepsOf(S \cup {a}))
  /\ Advance(a, "running")
  /\ UNCHANGED <<sent, live, disk, job, commit, history, crashes>>
-----------------------------------------------------------------------------
(* The summary and the memory steps run concurrently.                       *)
Summary(a) ==
  /\ "summary" \in phase2[a].todo
  /\ overview' = [overview EXCEPT ![a] = TRUE]
  /\ phase2' = [phase2 EXCEPT ![a].todo = @ \ {"summary"}]
  /\ UNCHANGED <<sent, live, phase1, raw, failed, done, progress, job, tracker, commit,
                 history, bounds>>

(* Its token counts are merged into a .meta.json that cannot be read.       *)
SummaryForgets(a) ==
  /\ phase2[a].pc = "run"
  /\ "summary" \in phase2[a].todo
  /\ Fault("merge")
  /\ overview' = [overview EXCEPT ![a] = TRUE]
  /\ phase1' = [phase1 EXCEPT ![a] = BareDir]
  /\ progress' = [progress EXCEPT ![a] = NoSteps]
  /\ phase2' = [phase2 EXCEPT ![a].todo = @ \ {"summary"}]
  /\ interrupted' = TRUE
  /\ UNCHANGED <<sent, live, raw, failed, done, job, tracker, commit, times, crashes>>

(* The model returns an empty summary; nothing is written.                  *)
SummaryEmpty(a) ==
  /\ "summary" \in phase2[a].todo
  /\ Fault("overview")
  /\ phase2' = [phase2 EXCEPT ![a].todo = @ \ {"summary"}]
  /\ UNCHANGED <<sent, live, disk, job, tracker, commit, history, crashes>>

(* A memory step goes over the messages it has not seen yet.                *)
Extract(a, s) ==
  LET p == phase2[a] IN
  /\ s \in p.todo \cap MemorySteps
  /\ times' = [m \in Msgs |-> [times[m] EXCEPT ![s] =
                 IF m \in p.input \ p.steps[s] THEN @ + 1 ELSE @]]
  /\ phase2' = [phase2 EXCEPT ![a].todo = @ \ {s}, ![a].unsaved = @ \cup {s},
                              ![a].steps[s] = @ \cup p.input]
  /\ UNCHANGED <<sent, live, disk, job, tracker, commit, interrupted, bounds>>

(* Its progress is recorded before it waits for the others.                 *)
Record(a, s) ==
  /\ s \in phase2[a].unsaved
  /\ progress' = [progress EXCEPT ![a] = phase2[a].steps]
  /\ phase2' = [phase2 EXCEPT ![a].unsaved = @ \ {s}]
  /\ UNCHANGED <<sent, live, phase1, raw, failed, done, overview, job, tracker, commit,
                 history, bounds>>

(* The intent is gone with the .meta.json that cannot be read.              *)
RecordForgets(a, s) ==
  /\ phase2[a].pc = "run"
  /\ s \in phase2[a].unsaved
  /\ Fault("merge")
  /\ progress' = [progress EXCEPT ![a] = phase2[a].steps]
  /\ phase1' = [phase1 EXCEPT ![a] = BareDir]
  /\ phase2' = [phase2 EXCEPT ![a].unsaved = @ \ {s}]
  /\ interrupted' = TRUE
  /\ UNCHANGED <<sent, live, raw, failed, done, overview, job, tracker, commit, times,
                 crashes>>

(* A step, or recording it, fails after its retries; the others go on.      *)
StepFails(a, s) ==
  /\ s \in phase2[a].todo \cup phase2[a].unsaved
  /\ Fault("step")
  /\ phase2' = [phase2 EXCEPT ![a].todo = @ \ {s}, ![a].unsaved = @ \ {s}, ![a].bad = TRUE]
  /\ UNCHANGED <<sent, live, disk, job, tracker, commit, history, crashes>>

Gathered(a) ==
  /\ phase2[a].pc = "run"
  /\ phase2[a].todo = {} /\ phase2[a].unsaved = {}
  /\ IF phase2[a].bad THEN Mark(a, "extraction") ELSE Goto(a, "meta")
  /\ UNCHANGED <<sent, live, disk, job, tracker, commit, history, bounds>>

(* _merge_and_save_commit_meta, under the lock.                             *)
MergeMeta(a) ==
  /\ phase2[a].pc = "meta"
  /\ LockFree
  /\ Goto(a, "done")
  /\ UNCHANGED <<sent, live, disk, job, tracker, commit, history, bounds>>

WriteDone(a) ==
  LET p == phase2[a] IN
  /\ p.pc = "done"
  /\ done' = [done EXCEPT ![a] =
       [on |-> TRUE, from |-> p.from, absorbed |-> p.absorbed, input |-> p.input]]
  /\ Goto(a, "complete")
  /\ UNCHANGED <<sent, live, phase1, raw, failed, overview, progress, job, tracker, commit,
                 history, bounds>>

(* The marker of a failed second phase carries the steps that are through.  *)
WriteFailed(a) ==
  LET p == phase2[a] IN
  /\ p.pc = "mark"
  /\ failed' = [failed EXCEPT ![a] = p.cause]
  /\ progress' = [progress EXCEPT ![a] = [s \in MemorySteps |-> @[s] \cup p.steps[s]]]
  /\ Goto(a, "giveup")
  /\ UNCHANGED <<sent, live, phase1, raw, done, overview, job, tracker, commit, history, bounds>>

(* Mutant: a failed archive is acked without a word to the tracker.         *)
ReportNoFailure(a) ==
  /\ phase2[a].pc \in {"complete", "known", "giveup"}
  /\ IF phase2[a].pc = "giveup" THEN UNCHANGED tracker ELSE Advance(a, "completed")
  /\ Goto(a, "ack")
  /\ UNCHANGED <<sent, live, disk, job, commit, history, bounds>>

(* tracker.complete or tracker.fail.                                        *)
Report(a) ==
  /\ phase2[a].pc \in {"complete", "known", "giveup"}
  /\ Advance(a, IF phase2[a].pc = "giveup" THEN "failed" ELSE "completed")
  /\ Goto(a, "ack")
  /\ UNCHANGED <<sent, live, disk, job, commit, history, bounds>>

(* The store refuses: a completion inside the second phase is turned into   *)
(* a failure, any other error leaves the handler.                           *)
ReportFails(a) ==
  /\ phase2[a].pc \in {"complete", "known", "giveup"}
  /\ Fault("task")
  /\ AdvanceFails(a, IF phase2[a].pc = "giveup" THEN "failed" ELSE "completed")
  /\ IF phase2[a].pc = "complete"
     THEN Mark(a, "extraction") /\ UNCHANGED job
     ELSE /\ phase2' = [phase2 EXCEPT ![a] = NoPhase2]
          /\ job' = [job EXCEPT ![a] = "stuck"]
  /\ UNCHANGED <<sent, live, disk, commit, history, crashes>>

Ack(a) ==
  /\ phase2[a].pc = "ack"
  /\ job' = [job EXCEPT ![a] = "acked"]
  /\ phase2' = [phase2 EXCEPT ![a] = NoPhase2]
  /\ UNCHANGED <<sent, live, disk, tracker, commit, history, bounds>>

(* Steps that are through, but neither .meta.json nor .failed.json has it.  *)
Unrecorded(a) ==
  LET p == phase2[a] IN
  \E s \in MemorySteps :
    ~(p.steps[s] \subseteq UNION {progress[b][s] : b \in p.absorbed \cup {a}})

(* The handler raises, or the ack fails: the message stays in the table,    *)
(* out of everybody's hands until the next start.                           *)
HandlerRaises(a) ==
  /\ phase2[a].pc \in {"begin", "ensure", "mark", "ack"}
  /\ Fault("raise")
  /\ job' = [job EXCEPT ![a] = "stuck"]
  /\ phase2' = [phase2 EXCEPT ![a] = NoPhase2]
  /\ interrupted' = (interrupted \/ Unrecorded(a))
  /\ UNCHANGED <<sent, live, disk, tracker, commit, times, crashes>>
-----------------------------------------------------------------------------
(* The process dies and comes back: the queue makes fetched messages        *)
(* pending again, the session lock goes stale, the cache is empty.          *)
Crash ==
  /\ crashes < MaxCrashes
  /\ crashes' = crashes + 1
  /\ commit' = NoCommit
  /\ phase2' = [a \in Archives |-> NoPhase2]
  /\ job' = [a \in Archives |-> IF job[a] \in {"running", "stuck"} THEN "queued" ELSE job[a]]
  /\ cached' = [a \in Archives |-> "none"]
  /\ interrupted' = \/ interrupted
                    \/ Unfinished
                    \/ \E a \in Archives : Unrecorded(a)
  /\ UNCHANGED <<sent, live, disk, task, times, faults>>

CommitStep ==
  \/ MakeDir \/ WritePhase1Marker \/ WriteRaw \/ EnqueueJob \/ CreateTask \/ RewriteRoot
  \/ PublishReady \/ WriteCommitFailed

MemoryStep(a, s) == Extract(a, s) \/ Record(a, s)

HandlerStep(a) ==
  \/ Begin(a) \/ EnsureReady(a) \/ WaitReconciles(a) \/ Prepare(a) \/ PrepareRaises(a)
  \/ Summary(a) \/ (\E s \in MemorySteps : MemoryStep(a, s))
  \/ Gathered(a) \/ MergeMeta(a) \/ WriteDone(a) \/ WriteFailed(a) \/ Report(a) \/ Ack(a)

HandlerFault(a) ==
  \/ EnsureLegacy(a) \/ EnsureUnverified(a) \/ WaitUnverified(a) \/ LockTimeout(a)
  \/ SummaryEmpty(a)
  \/ (\E s \in MemorySteps \cup {"summary"} : StepFails(a, s))
  \/ ReportFails(a) \/ HandlerRaises(a)

(* The errors the code swallows: a read that fails stands for nothing there. *)
Forgets(a) ==
  \/ PrepareForgets(a) \/ SummaryForgets(a)
  \/ (\E s \in MemorySteps : RecordForgets(a, s))

Swallowed ==
  \/ (\E n \in Archives : CommitBeginUnlisted(n))
  \/ PlanForgets
  \/ (\E a \in Archives : Forgets(a) \/ PrepareMisled(a))

Next ==
  \/ Append
  \/ \E n \in Archives : CommitBegin(n)
  \/ CommitStep \/ CommitFails \/ CommitFailedUnmarked
  \/ \E a \in Archives : Fetch(a) \/ HandlerStep(a) \/ HandlerFault(a)
  \/ Swallowed
  \/ Crash

Spec == Init /\ [][Next]_vars

(* A commit that has begun and a handler that has started go on, the worker *)
(* fetches; nobody has to append, commit, fail or crash.                    *)
FairSpec ==
  /\ Spec
  /\ WF_vars(CommitStep)
  /\ \A a \in Archives : WF_vars(Fetch(a)) /\ WF_vars(HandlerStep(a))
-----------------------------------------------------------------------------
(* Every variable has its type.                                             *)
TypeOK ==
  /\ sent \in 0 .. MaxMsgs
  /\ live \subseteq Msgs
  /\ phase1 \in [Archives -> Intents]
  /\ raw \in [Archives -> SUBSET Msgs]
  /\ failed \in [Archives -> Causes \cup {"none"}]
  /\ done \in [Archives -> Dones]
  /\ overview \in [Archives -> BOOLEAN]
  /\ progress \in [Archives -> Steps]
  /\ job \in [Archives -> {"none", "queued", "running", "stuck", "acked"}]
  /\ task \in [Archives -> Statuses]
  /\ cached \in [Archives -> Statuses]
  /\ commit \in Commits
  /\ phase2 \in [Archives -> Phase2s]
  /\ times \in [Msgs -> [MemorySteps -> Nat]]
  /\ interrupted \in BOOLEAN
  /\ faults \subseteq FaultKinds
  /\ crashes \in Nat

(* A listing of history/ came back empty or cut short, or a scan misread    *)
(* the markers; the code takes what it got for the truth.                   *)
Misled == faults \cap {"list", "scan"} # {}

(* "Archive raw remains durable and recoverable before any live             *)
(* conversation history is removed from the root JSONL" (session.py): a     *)
(* message that was appended is shown to the model as it is (the root, or   *)
(* the raw archive that is not covered yet) or has gone into a completed    *)
(* archive.                                                                 *)
RawRecoverable == \A m \in 1 .. sent : m \in Context \cup Digested

(* No message is ever lost, whatever crashes and fails between the writes   *)
(* of the two phases, unreadable intents and erased metadata included, as   *)
(* long as no listing or scan of the archives was wrong: a commit that      *)
(* takes an index twice writes its messages over an archive that has ended, *)
(* and a second phase that overtakes a pending archive may cover it.        *)
NothingLost == Misled \/ RawRecoverable

(* The latest overview may stand for all that came before it: when an       *)
(* archive is completed, every message archived up to it, in archives that  *)
(* failed or were interrupted too, has gone into a completed archive, and   *)
(* into one that is no later, because a second phase waits for all that     *)
(* came before.  An intent that could not be read, or was erased, lets a    *)
(* later archive overtake: it takes the interrupted one for failed while    *)
(* that one's handler takes it for ready.  After a wrong listing or scan    *)
(* nothing is claimed: the second phase does not wait then.                 *)
DigestedBy(a) == UNION {done[c].input : c \in {d \in 1 .. a : Completed(d)}}
IntentLost == faults \cap {"meta", "merge"} # {}
CompletedInOrder ==
  Misled \/ \A a \in Archives : Completed(a) =>
    \A b \in 1 .. a : raw[b] \subseteq IF IntentLost THEN Digested ELSE DigestedBy(a)

(* The user messages that were archived as a copy and kept as well.         *)
Anchors == UNION {phase1[a].out \cap phase1[a].keep : a \in Archives}

(* A memory step goes over a message once, over failed siblings, replayed   *)
(* archives, empty summaries, redelivered messages and restarts.  It takes  *)
(* one of these to do it twice: a first phase that ended before it rewrote  *)
(* the root, an intent that could not be read, a step that could not be     *)
(* recorded, recorded progress that could not be read or was erased, or a   *)
(* wrong listing or scan.  The anchor of a partly archived turn is in       *)
(* several archives.                                                        *)
ExtractedOnce ==
  \/ interrupted \/ Misled
  \/ \A m \in Msgs \ Anchors, s \in MemorySteps : times[m][s] <= 1

(* A commit message leaves the queue only when its archive has ended one    *)
(* way or the other and its task says so, in the store as well unless the   *)
(* store refused an update.                                                 *)
AckedIsSettled ==
  \A a \in Archives : job[a] = "acked" =>
    /\ ~Pending(a)
    /\ task[a] \in Terminal \/ "task" \in faults
    /\ Known(a) = "completed" => done[a].on

(* A pending archive that nobody owns and nobody reconciles: it is ready,   *)
(* or has no intent, and no message of its own is in the queue or with the  *)
(* worker.                                                                  *)
Abandoned(a) ==
  Pending(a) /\ phase1[a].status # "preparing" /\ job[a] \notin {"queued", "running"}

(* A queued commit comes to an end, or its own handler raises, or an        *)
(* earlier archive is abandoned: the waiting for earlier archives is no     *)
(* deadlock, and interrupted intents in between are reconciled on the way.  *)
CommitsSettle ==
  \A a \in Archives : (job[a] = "queued") ~>
    (~Pending(a) \/ job[a] = "stuck" \/ \E b \in 1 .. a - 1 : Abandoned(b))

(* An intent left by an interruption is reconciled "rather than waiting     *)
(* forever for a queue item that may never have existed" (session.py,       *)
(* _wait_for_previous_archive_done): nobody waits for ever.                 *)
NobodyWaitsForever ==
  \A a \in Archives : (job[a] = "queued") ~> (~Pending(a) \/ job[a] = "stuck")
=============================================================================
