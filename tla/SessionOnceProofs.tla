------------------------- MODULE SessionOnceProofs -------------------------
(* The proof that a memory step of SessionCommit goes over a message once,  *)
(* for any number of messages, archives, memory steps, concurrent handlers, *)
(* faults and crashes.  It rests on the invariants of SessionCommitProofs.  *)
EXTENDS SessionCommitProofs

(* Abbreviations of the specification that every proof may expand.          *)
USE DEF disk, tracker, history, bounds, LockFree, Step, Goto, Mark, StepsOf, MessagesOf,
        StartOn
-----------------------------------------------------------------------------
(* The inductive invariant behind ExtractedOnce.                            *)

(* The states of an archive without an intent.                              *)
Unwritten == {"none", "bare"}

(* What the commit in progress has written, and what it is going to.        *)
CommitIntent ==
  /\ commit.pc \in {"marker", "raw", "enqueue", "task", "root"} =>
       commit.out \subseteq live /\ commit.keep \subseteq live
  /\ commit.pc = "marker" => phase1[commit.arch].status \in Unwritten
  /\ commit.pc \in {"raw", "enqueue", "task", "root", "ready"} =>
       phase1[commit.arch].out = commit.out /\ phase1[commit.arch].keep = commit.keep
  /\ commit.pc \in {"enqueue", "task", "root", "ready"} => raw[commit.arch] = commit.out
  /\ commit.pc \in {"marker", "raw", "enqueue"} => job[commit.arch] = "none"
  /\ commit.pc = "ready" => live = commit.keep
  /\ commit.pc = "fail" =>
       \/ raw[commit.arch] = {}
       \/ /\ raw[commit.arch] = commit.out /\ phase1[commit.arch].out = commit.out
          /\ phase1[commit.arch].keep = commit.keep
NoIntents == \A a \in Archives : phase1[a].status \in Unwritten => phase1[a].out = {}
Sent == live \subseteq 1 .. sent /\ \A a \in Archives : raw[a] \subseteq 1 .. sent

(* A message that is no anchor is in one archive, and no longer in the root *)
(* when the commit that archives it is over.                                *)
Home(m, b) ==
  /\ \A c \in Archives : m \in raw[c] => c = b
  /\ m \in live => commit.pc # "idle" /\ commit.arch = b
Homes ==
  ~interrupted => \A m \in Msgs \ Anchors, b \in Archives : m \in raw[b] => Home(m, b)

(* A handler works on, and remembers, messages of its archive and of those  *)
(* before; only archived messages have gone through a memory step.          *)
RawUpTo(a) == UNION {raw[b] : b \in 1 .. a}
Source(a) ==
  /\ phase2[a].input \subseteq RawUpTo(a)
  /\ \A s \in MemorySteps :
       progress[a][s] \subseteq RawUpTo(a) /\ phase2[a].steps[s] \subseteq RawUpTo(a)
TimesHome == \A m \in Msgs, s \in MemorySteps : times[m][s] # 0 => \E b \in Archives : m \in raw[b]

(* Where a handler is, and what its fields hold there.                      *)
Tidy(a) ==
  /\ phase2[a].pc # "off" => job[a] = "running"
  /\ phase2[a].pc \in {"off", "begin", "ensure", "wait"} => phase2[a].steps = NoSteps
  /\ phase2[a].pc # "run" => phase2[a].todo = {} /\ phase2[a].unsaved = {}
  /\ phase2[a].pc \in {"meta", "done"} => phase2[a].bad = FALSE

(* What an archive has steps of has waited for all that came before.        *)
HasSteps(a) == \E s \in MemorySteps : progress[a][s] # {} \/ phase2[a].steps[s] # {}
Started(a) == HasSteps(a) => PreviousEnded(a) /\ job[a] # "none"

(* What came before a prepared or finished second phase is covered, or the  *)
(* phase absorbs it.                                                        *)
Rolled(a, from, absorbed) ==
  /\ from <= a
  /\ \A b \in 1 .. a - 1 : raw[b] # {} => Covered(b) \/ b \in absorbed
Coverage(a) ==
  /\ phase2[a].pc \in Prepared => Rolled(a, phase2[a].from, phase2[a].absorbed)
  /\ done[a].on => Rolled(a, done[a].from, done[a].absorbed)

(* A second phase knows what its archive has recorded, and what it knows of *)
(* a step that is not waiting to be recorded is on disk.                    *)
OnDisk(a, s) == UNION {progress[d][s] : d \in phase2[a].absorbed \cup {a}}
Recorded(a) ==
  phase2[a].pc \in Prepared => \A s \in MemorySteps :
    /\ progress[a][s] \subseteq phase2[a].steps[s]
    /\ phase2[a].bad = FALSE /\ s \notin phase2[a].unsaved =>
         phase2[a].steps[s] \subseteq OnDisk(a, s)

(* It goes on with what no second phase before it has done.                 *)
Resumes(a) ==
  ~interrupted /\ phase2[a].pc = "run" =>
    \A m \in phase2[a].input \ Anchors, s \in MemorySteps :
      times[m][s] # 0 => m \in phase2[a].steps[s]

(* A message that went through a step did so once, and as long as nothing   *)
(* later is completed, an archive that will be replayed with it has it on   *)
(* disk, or the handler of a pending one still holds it.                    *)
Passed(b) == \E x \in Archives : b <= x /\ Completed(x)
Holding == {"run", "meta", "done", "mark"}
Holds(c, m, s) == phase2[c].pc \in Holding /\ Pending(c) /\ m \in phase2[c].steps[s]
Stored(m, s, b) == \E c \in Archives : b <= c /\ (m \in progress[c][s] \/ Holds(c, m, s))
Remembered ==
  ~interrupted => \A m \in Msgs \ Anchors, s \in MemorySteps :
    /\ times[m][s] <= 1
    /\ times[m][s] # 0 => \A b \in Archives : m \in raw[b] => Passed(b) \/ Stored(m, s, b)

LossInterrupts == IntentLost => interrupted
FirstPhase == LossInterrupts /\ CommitIntent /\ NoIntents /\ Sent /\ Homes
SecondPhase ==
  \A a \in Archives :
    Source(a) /\ Tidy(a) /\ Started(a) /\ Recorded(a) /\ (IntentLost \/ Coverage(a))
OnceInv ==
  /\ IInv /\ OrderInv
  /\ FirstPhase /\ SecondPhase
  /\ TimesHome /\ Remembered /\ \A a \in Archives : Resumes(a)
-----------------------------------------------------------------------------
(* The steps that neither mislead nor forget.                               *)
Calm == CommitMoves \/ (\E a \in Archives : Handles(a)) \/ Crash \/ UNCHANGED vars

LEMMA CalmCases == [Next]_vars /\ ~Misled' /\ ~interrupted' => Calm
<1> SUFFICES ASSUME [Next]_vars, ~Misled', ~interrupted' PROVE Calm
  OBVIOUS
<1>1. ASSUME PlanForgets \/ \E a \in Archives : Forgets(a) PROVE FALSE
  BY <1>1 DEF PlanForgets, Forgets, PrepareForgets, SummaryForgets, RecordForgets
<1> QED
  BY <1>1, NextCases DEF Calm

LEMMA CalmIsNext == Calm => [Next]_vars
  BY DEF Calm, CommitMoves, Handles, Next

(* An interruption is remembered.                                           *)
LEMMA InterruptedStays == interrupted /\ [Next]_vars => interrupted'
<1> SUFFICES ASSUME interrupted, [Next]_vars PROVE interrupted'
  OBVIOUS
<1>1. CASE CommitMoves \/ Crash \/ UNCHANGED vars
  BY <1>1 DEF CommitMoves, Append, CommitBegin, CommitStep, MakeDir, WritePhase1Marker, WriteRaw,
     EnqueueJob, CreateTask, RewriteRoot, PublishReady, WriteCommitFailed, CommitFails,
     CommitFailedUnmarked, Crash, vars
<1>2. ASSUME NEW a \in Archives, Fetch(a) \/ HandlerStep(a) PROVE interrupted' = interrupted
  BY <1>2 DEF Fetch, HandlerStep, MemoryStep, Begin, EnsureReady, WaitReconciles, Prepare,
     PrepareRaises, Summary, Extract, Record, Gathered, MergeMeta, WriteDone, WriteFailed,
     Report, Ack
<1>3. CASE \E a \in Archives : HandlerFault(a)
  BY <1>3 DEF HandlerFault, EnsureLegacy, EnsureUnverified, WaitUnverified, LockTimeout,
     SummaryEmpty, StepFails, ReportFails, HandlerRaises
<1>4. CASE Swallowed
  BY <1>4 DEF Swallowed, CommitBeginUnlisted, PlanForgets, Forgets, PrepareForgets,
     SummaryForgets, RecordForgets, PrepareMisled
<1> QED
  BY <1>1, <1>2, <1>3, <1>4 DEF Next, CommitMoves

(* What every such step leaves.                                             *)

(* Every step keeps the markers of every archive.                           *)
LEMMA StepKeeps ==
  ASSUME IInv, Calm
  PROVE  faults \subseteq faults' /\ \A b \in Archives : Kept(b)
<1>1. CASE CommitMoves
  <2>1. faults \subseteq faults'
    BY <1>1 DEF CommitMoves, Append, CommitBegin, CommitStep, MakeDir, WritePhase1Marker, WriteRaw,
                EnqueueJob, CreateTask, RewriteRoot, PublishReady, WriteCommitFailed, CommitFails,
                CommitFailedUnmarked, Fault
  <2> QED
    BY <1>1, <2>1, CommitKeeps
<1>2. ASSUME NEW a \in Archives, Handles(a)
      PROVE  faults \subseteq faults' /\ \A b \in Archives : Kept(b)
  BY <1>2, HandlerKeeps
<1>3. CASE Crash
  <2>1. UNCHANGED disk /\ faults' = faults /\ \A b \in Archives : phase2'[b].pc = "off"
    BY <1>3 DEF Crash, NoPhase2
  <2> QED
    BY <2>1 DEF Kept, Prepared, Exists
<1>4. CASE UNCHANGED vars
  BY <1>4 DEF vars, Kept, Exists
<1> QED
  BY <1>1, <1>2, <1>3, <1>4 DEF Calm

(* Archived messages stay archived.                                         *)
LEMMA RawGrows ==
  ASSUME \A b \in Archives : Kept(b)
  PROVE  /\ \A b \in Archives : raw[b] \subseteq raw'[b]
         /\ \A a \in Archives : RawUpTo(a) \subseteq RawUpTo(a)'
<1>1. ASSUME NEW b \in Archives PROVE raw[b] \subseteq raw'[b]
  <2>1. CASE LastOne(b)
    BY <2>1 DEF LastOne, Untouched, Archives
  <2> QED
    BY <2>1 DEF Kept
<1>2. ASSUME NEW a \in Archives PROVE RawUpTo(a) \subseteq RawUpTo(a)'
  <2>1. 1 .. a \subseteq Archives
    BY BoundsAssumption DEF Archives
  <2> QED
    BY <1>1, <2>1 DEF RawUpTo
<1> QED
  BY <1>1, <1>2

(* What came before an archive whose message was enqueued has ended for     *)
(* good.                                                                    *)
LEMMA StillEnded ==
  ASSUME IInv, \A b \in Archives : Kept(b), NEW c \in Archives, job[c] # "none", PreviousEnded(c)
  PROVE  PreviousEnded(c)'
<1> SUFFICES ASSUME NEW b \in 1 .. c - 1, Pending(b)' PROVE FALSE
  BY DEF PreviousEnded
<1>1. b \in Archives /\ c >= b
  BY BoundsAssumption DEF Archives
<1>2. ~LastOne(b)
  BY <1>1 DEF LastOne, Untouched
<1>3. ~done[b].on /\ failed[b] = "none"
  BY <1>1 DEF Kept, Pending
<1>4. Exists(b)
  BY <1>1, <1>2 DEF Kept, Pending, Exists
<1> QED
  BY <1>3, <1>4 DEF PreviousEnded, Pending

(* A completed archive stays completed, and an ended one ended.             *)
LEMMA CompletedStays ==
  ASSUME NEW b \in Archives, Kept(b)
  PROVE  /\ Completed(b) => Completed(b)' /\ done'[b] = done[b]
         /\ Completed(b) \/ Failed(b) => Completed(b)' \/ Failed(b)'
  BY DEF Kept, Completed, Failed

LEMMA PassedStays ==
  ASSUME \A b \in Archives : Kept(b), NEW b \in Archives, Passed(b)
  PROVE  Passed(b)'
<1>1. PICK x \in Archives : b <= x /\ Completed(x)
  BY DEF Passed
<1>2. Completed(x)'
  BY <1>1, CompletedStays
<1> QED
  BY <1>1, <1>2 DEF Passed

(* So a covered archive stays covered: if it comes to be completed it       *)
(* covers itself.                                                           *)
LEMMA CoveredStays ==
  ASSUME TypeOK', \A b \in Archives : Kept(b), NEW b \in Archives, Covered(b),
         done'[b].on => done'[b].from <= b
  PROVE  Covered(b)'
<1>1. PICK x \in Archives : Covers(x, b)
  BY DEF Covered
<1>2. Completed(x) /\ Completed(x)' /\ done'[x] = done[x]
  BY <1>1, CompletedStays DEF Covers
<1>3. Completed(b)' \/ Failed(b)'
  BY <1>1, CompletedStays DEF Covers
<1>4. CASE Completed(b)'
  <2>1. done'[b].from \in Nat /\ done'[b].from <= b
    BY <1>4 DEF Completed, TypeOK, Dones
  <2>2. b \in done'[b].from .. b
    BY <2>1 DEF Archives
  <2> QED
    BY <1>4, <2>2 DEF Covered, Covers
<1>5. CASE Failed(b)'
  <2>1. \/ b \in done'[x].from .. x
        \/ b \in done'[x].absorbed /\ b <= x
    BY <1>1, <1>2 DEF Covers
  <2> QED
    BY <1>2, <1>5, <2>1 DEF Covered, Covers
<1> QED
  BY <1>3, <1>4, <1>5

(* No step takes an enqueued message out of the queue's table, or undoes    *)
(* that a commit or a step was interrupted.                                 *)
LEMMA JobsStay ==
  ASSUME TypeOK, Calm, NEW b \in Archives, job[b] # "none"
  PROVE  job'[b] # "none"
<1>1. CASE EnqueueJob
  BY <1>1 DEF EnqueueJob, TypeOK
<1>2. CASE Append \/ (\E n \in Archives : CommitBegin(n)) \/ CommitFails \/ CommitFailedUnmarked
  BY <1>2 DEF Append, CommitBegin, CommitFails, CommitFailedUnmarked
<1>3. CASE CommitStep /\ ~EnqueueJob
  BY <1>3 DEF CommitStep, MakeDir, WritePhase1Marker, WriteRaw, CreateTask, RewriteRoot,
     PublishReady, WriteCommitFailed
<1>4. ASSUME NEW a \in Archives, Fetch(a) \/ ReportFails(a) \/ Ack(a) \/ HandlerRaises(a)
      PROVE  job'[b] # "none"
  BY <1>4 DEF Fetch, ReportFails, Ack, HandlerRaises, TypeOK
<1>5. ASSUME NEW a \in Archives, HandlerStep(a), ~Ack(a) PROVE job'[b] # "none"
  BY <1>5 DEF HandlerStep, MemoryStep, Begin, EnsureReady, WaitReconciles, Prepare, PrepareRaises,
              Summary, Extract, Record, Gathered, MergeMeta, WriteDone, WriteFailed, Report
<1>6. ASSUME NEW a \in Archives, HandlerFault(a), ~ReportFails(a), ~HandlerRaises(a)
      PROVE  job'[b] # "none"
  BY <1>6 DEF HandlerFault, EnsureLegacy, EnsureUnverified, WaitUnverified, Unverified,
     LockTimeout, SummaryEmpty, StepFails
<1>7. CASE Crash
  BY <1>7 DEF Crash
<1>8. CASE UNCHANGED vars
  BY <1>8 DEF vars
<1> QED
  BY <1>1, <1>2, <1>3, <1>4, <1>5, <1>6, <1>7, <1>8 DEF Calm, CommitMoves, Handles
-----------------------------------------------------------------------------
(* The first phase.                                                         *)
(* The message of a handler that takes a step is in the queue's table.      *)
LEMMA ActorIsEnqueued ==
  ASSUME NEW a \in Archives, Tidy(a), Handles(a)
  PROVE  job[a] # "none"
<1>1. CASE Fetch(a)
  BY <1>1 DEF Fetch
<1>2. CASE phase2[a].todo # {} \/ phase2[a].unsaved # {}
  BY <1>2 DEF Tidy
<1>3. CASE phase2[a].pc # "off"
  BY <1>3 DEF Tidy
<1>4. CASE HandlerStep(a)
  BY <1>2, <1>3, <1>4 DEF HandlerStep, MemoryStep, Begin, EnsureReady, WaitReconciles, Prepare,
     PrepareRaises, Summary, Extract, Record, Gathered, MergeMeta, WriteDone, WriteFailed, Report,
     Ack
<1>5. CASE HandlerFault(a)
  BY <1>2, <1>3, <1>5 DEF HandlerFault, EnsureLegacy, EnsureUnverified, WaitUnverified,
     Unverified, LockTimeout, SummaryEmpty, StepFails, ReportFails, HandlerRaises
<1> QED
  BY <1>1, <1>4, <1>5 DEF Handles

(* A handler leaves the root, the raw archives and the commit alone, and of *)
(* the intents it changes the status of one that is prepared, under the     *)
(* lock.                                                                    *)
LEMMA HandlerLeaves ==
  ASSUME TypeOK, NEW a \in Archives, Handles(a)
  PROVE  /\ UNCHANGED <<sent, live, raw, commit>>
         /\ \A b \in Archives \ {a} : job'[b] = job[b]
         /\ interrupted => interrupted'
         /\ LossInterrupts => LossInterrupts'
         /\ \/ UNCHANGED phase1
            \/ /\ commit.pc = "idle"
               /\ \E b \in Archives : /\ phase1[b].status = "preparing"
                                      /\ phase1' = [phase1 EXCEPT ![b].status = "ready"]
<1> USE DEF Handles
<1>1. UNCHANGED <<sent, live, raw, commit>>
  BY DEF Fetch, HandlerStep, MemoryStep, HandlerFault, Begin, EnsureReady, EnsureLegacy,
     EnsureUnverified, WaitUnverified, Unverified, WaitReconciles, LockTimeout, Prepare,
     PrepareRaises, Summary, SummaryEmpty, Extract, Record, StepFails, Gathered, MergeMeta,
     WriteDone, WriteFailed, Report, ReportFails, Ack, HandlerRaises
<1>2. \A b \in Archives \ {a} : job'[b] = job[b]
  <2>1. CASE Fetch(a) \/ ReportFails(a) \/ Ack(a) \/ HandlerRaises(a)
    BY <2>1 DEF Fetch, ReportFails, Ack, HandlerRaises, TypeOK
  <2>2. CASE HandlerStep(a) /\ ~Ack(a)
    BY <2>2 DEF HandlerStep, MemoryStep, Begin, EnsureReady, WaitReconciles, Prepare,
       PrepareRaises, Summary, Extract, Record, Gathered, MergeMeta, WriteDone, WriteFailed, Report
  <2>3. CASE HandlerFault(a) /\ ~ReportFails(a) /\ ~HandlerRaises(a)
    BY <2>3 DEF HandlerFault, EnsureLegacy, EnsureUnverified, WaitUnverified, Unverified,
       LockTimeout, SummaryEmpty, StepFails
  <2> QED
    BY <2>1, <2>2, <2>3
<1>3. (interrupted => interrupted') /\ (LossInterrupts => LossInterrupts')
  <2>1. CASE Fetch(a) \/ HandlerStep(a)
    <3>1. UNCHANGED <<interrupted, faults>>
      BY <2>1 DEF Fetch, HandlerStep, MemoryStep, Begin, EnsureReady, WaitReconciles, Prepare,
         PrepareRaises, Summary, Extract, Record, Gathered, MergeMeta, WriteDone, WriteFailed,
         Report, Ack
    <3> QED
      BY <3>1 DEF LossInterrupts, IntentLost
  <2>2. CASE EnsureLegacy(a)
    BY <2>2 DEF EnsureLegacy, LossInterrupts
  <2>3. CASE HandlerFault(a) /\ ~EnsureLegacy(a)
    <3>1. \E k \in {"root", "lock", "overview", "step", "task", "raise"} :
            faults' = faults \cup {k}
      BY <2>3 DEF HandlerFault, EnsureUnverified, WaitUnverified, Unverified, LockTimeout,
         SummaryEmpty, StepFails, ReportFails, HandlerRaises, Fault
    <3>2. interrupted => interrupted'
      BY <2>3 DEF HandlerFault, EnsureUnverified, WaitUnverified, Unverified, LockTimeout,
         SummaryEmpty, StepFails, ReportFails, HandlerRaises
    <3> QED
      BY <3>1, <3>2 DEF LossInterrupts, IntentLost
  <2> QED
    BY <2>1, <2>2, <2>3
<1> DEFINE Published == \/ UNCHANGED phase1
                        \/ /\ commit.pc = "idle"
                           /\ \E b \in Archives :
                                /\ phase1[b].status = "preparing"
                                /\ phase1' = [phase1 EXCEPT ![b].status = "ready"]
<1>4. Published
  <2>1. CASE EnsureReady(a)
    BY <2>1 DEF EnsureReady, Reconcile
  <2>2. CASE WaitReconciles(a)
    <3>1. PICK b \in 1 .. a - 1 : phase1[b].status = "preparing" /\ Reconcile(b)
      BY <2>2 DEF WaitReconciles
    <3>2. b \in Archives /\ commit.pc = "idle"
      BY <2>2, BoundsAssumption DEF WaitReconciles, Archives
    <3> QED
      BY <3>1, <3>2 DEF Reconcile
  <2>3. CASE HandlerStep(a) /\ ~EnsureReady(a) /\ ~WaitReconciles(a)
    BY <2>3 DEF HandlerStep, MemoryStep, Begin, Prepare, PrepareRaises, Summary, Extract, Record,
       Gathered, MergeMeta, WriteDone, WriteFailed, Report, Ack
  <2>4. CASE Fetch(a) \/ HandlerFault(a)
    BY <2>4 DEF Fetch, HandlerFault, EnsureLegacy, EnsureUnverified, WaitUnverified, Unverified,
       LockTimeout, SummaryEmpty, StepFails, ReportFails, HandlerRaises
  <2> QED
    BY <2>1, <2>2, <2>3, <2>4
<1> HIDE DEF Published
<1> QED
  BY <1>1, <1>2, <1>3, <1>4 DEF Published

(* What the messages' homes depend on.                                      *)
LEMMA AnchorsGrow ==
  ASSUME \A b \in Archives : phase1[b].out \cap phase1[b].keep \subseteq
                               phase1'[b].out \cap phase1'[b].keep
  PROVE  Anchors \subseteq Anchors'
  BY DEF Anchors

(* The anchors of a commit are among all anchors.                           *)
LEMMA AnchorOf ==
  ASSUME NEW b \in Archives, NEW m, m \in phase1[b].out, m \in phase1[b].keep
  PROVE  m \in Anchors
  BY DEF Anchors

(* A step that leaves the root, the raw archives and the commit alone.      *)
LEMMA HomesStay ==
  ASSUME Homes, interrupted => interrupted', Anchors \subseteq Anchors',
         UNCHANGED <<live, raw, commit>>
  PROVE  Homes'
  BY DEF Homes, Home

(* A handler keeps what the invariant says of the first phase.              *)
LEMMA FirstHandler ==
  ASSUME IInv, FirstPhase, SecondPhase, NEW a \in Archives, Handles(a)
  PROVE  FirstPhase' /\ Anchors \subseteq Anchors'
<1>0. TypeOK /\ job[a] # "none"
  BY ActorIsEnqueued DEF IInv, SecondPhase
<1>1. /\ UNCHANGED <<sent, live, raw, commit>>
      /\ \A b \in Archives \ {a} : job'[b] = job[b]
      /\ interrupted => interrupted'
      /\ LossInterrupts'
  BY <1>0, HandlerLeaves DEF FirstPhase
<1>2. \/ UNCHANGED phase1
      \/ /\ commit.pc = "idle"
         /\ \E b \in Archives : /\ phase1[b].status = "preparing"
                                /\ phase1' = [phase1 EXCEPT ![b].status = "ready"]
  BY <1>0, HandlerLeaves
<1>3. ASSUME NEW b \in Archives
      PROVE  /\ phase1'[b].out = phase1[b].out /\ phase1'[b].keep = phase1[b].keep
             /\ phase1'[b].status \in Unwritten => phase1[b].status \in Unwritten
             /\ commit.pc # "idle" => phase1'[b] = phase1[b]
  BY <1>0, <1>2 DEF TypeOK, Intents, Unwritten
<1>4. Anchors \subseteq Anchors'
  BY <1>3, AnchorsGrow
<1>5. Homes'
  BY <1>1, <1>4, HomesStay DEF FirstPhase
<1>6. NoIntents'
  BY <1>3 DEF FirstPhase, NoIntents
<1>7. Sent'
  BY <1>1 DEF FirstPhase, Sent
<1>8. CommitIntent'
  <2>1. commit.pc # "idle" => commit.arch \in Archives /\ phase1'[commit.arch] = phase1[commit.arch]
    BY <1>3 DEF IInv, CommitIsDurable
  <2>2. commit.pc \in {"marker", "raw", "enqueue"} => job'[commit.arch] = "none"
    BY <1>0, <1>1, <2>1 DEF FirstPhase, CommitIntent
  <2> QED
    BY <1>1, <2>1, <2>2 DEF FirstPhase, CommitIntent
<1> QED
  BY <1>1, <1>4, <1>5, <1>6, <1>7, <1>8 DEF FirstPhase

(* A commit may be forgotten when it has rewritten the root: what it has    *)
(* archived, save its anchor, is gone from there.                           *)
LEMMA CommitOver ==
  ASSUME IInv, FirstPhase, ~interrupted, ~Unfinished, NEW b \in Archives,
         NEW m \in Msgs \ Anchors, m \in raw[b]
  PROVE  m \notin live
<1> SUFFICES ASSUME m \in live PROVE FALSE
  OBVIOUS
<1>1. commit.pc # "idle" /\ commit.arch = b
  BY DEF FirstPhase, Homes, Home
<1>2. raw[b] # {}
  OBVIOUS
<1>3. commit.pc \notin {"marker", "raw"}
  BY <1>1, <1>2 DEF IInv, CommitIsLast, Untouched, Archives
<1>4. commit.pc \in CommitPCs
  BY DEF IInv, TypeOK, Commits
<1>5. raw[b] = commit.out /\ phase1[b].out = commit.out /\ phase1[b].keep = commit.keep
  BY <1>1, <1>2, <1>3, <1>4 DEF FirstPhase, CommitIntent, CommitPCs
<1>6. m \notin commit.keep
  BY <1>5, AnchorOf
<1> QED
  BY <1>1, <1>5, <1>6 DEF Unfinished

(* The commit is over.                                                      *)
LEMMA FirstOver ==
  ASSUME IInv, FirstPhase, UNCHANGED <<sent, live, raw>>, commit'.pc = "idle",
         LossInterrupts', interrupted => interrupted', ~interrupted' => ~Unfinished,
         \A b \in Archives : /\ phase1'[b].out = phase1[b].out /\ phase1'[b].keep = phase1[b].keep
                             /\ phase1'[b].status \in Unwritten => phase1[b].status \in Unwritten
  PROVE  FirstPhase' /\ Anchors \subseteq Anchors'
<1>1. Anchors \subseteq Anchors'
  BY AnchorsGrow
<1>2. Homes'
  <2> SUFFICES ASSUME ~interrupted', NEW m \in Msgs \ Anchors', NEW b \in Archives, m \in raw[b]
               PROVE  Home(m, b)'
    BY DEF Homes
  <2>1. m \in Msgs \ Anchors /\ ~interrupted
    BY <1>1
  <2>2. m \notin live
    BY <2>1, CommitOver
  <2>3. Home(m, b)
    BY <2>1 DEF FirstPhase, Homes
  <2> QED
    BY <2>2, <2>3 DEF Home
<1>3. CommitIntent'
  BY DEF CommitIntent
<1>4. NoIntents' /\ Sent'
  BY DEF FirstPhase, NoIntents, Sent
<1> QED
  BY <1>1, <1>2, <1>3, <1>4 DEF FirstPhase

(* The steps of a commit keep what the invariant says of the first phase.   *)
LEMMA FirstCommit ==
  ASSUME IInv, FirstPhase, CommitMoves
  PROVE  FirstPhase' /\ Anchors \subseteq Anchors'
<1>0. TypeOK /\ (commit.pc # "idle" => commit.arch \in Archives)
  BY DEF IInv, CommitIsDurable
<1>f. commit \in Commits /\ phase1 \in [Archives -> Intents] /\ raw \in [Archives -> SUBSET Msgs]
  BY <1>0 DEF TypeOK
<1>s. ASSUME NEW x, Step(x)
      PROVE  /\ commit'.pc = x /\ commit'.arch = commit.arch /\ commit'.out = commit.out
             /\ commit'.keep = commit.keep
  BY <1>f, <1>s DEF Commits
<1>m. UNCHANGED <<interrupted, faults>> => LossInterrupts'
  BY DEF FirstPhase, LossInterrupts, IntentLost
<1>p. UNCHANGED phase1 => Anchors \subseteq Anchors' /\ NoIntents'
  BY DEF FirstPhase, Anchors, NoIntents
<1>1. CASE Append
  <2>1. /\ UNCHANGED <<phase1, raw, commit, job, interrupted, faults>> /\ commit.pc = "idle"
        /\ sent' = sent + 1 /\ live' = live \cup {sent + 1}
    BY <1>1 DEF Append
  <2>2. sent \in Nat
    BY <1>0, BoundsAssumption DEF TypeOK
  <2>3. Sent'
    BY <2>1, <2>2 DEF FirstPhase, Sent
  <2>4. Homes'
    <3>1. ASSUME NEW b \in Archives PROVE sent + 1 \notin raw[b]
      BY <2>2 DEF FirstPhase, Sent
    <3> QED
      BY <1>p, <2>1, <3>1 DEF FirstPhase, Homes, Home
  <2>5. CommitIntent'
    BY <2>1 DEF CommitIntent
  <2> QED
    BY <1>m, <1>p, <2>1, <2>3, <2>4, <2>5 DEF FirstPhase
<1>2. ASSUME NEW n \in Archives, CommitBegin(n) PROVE FirstPhase' /\ Anchors \subseteq Anchors'
  <2>1. /\ UNCHANGED <<sent, live, phase1, raw, job, interrupted, faults>> /\ commit.pc = "idle"
        /\ commit'.pc = "marker" /\ commit'.arch = n
    BY <1>2 DEF CommitBegin
  <2>2. commit'.out \subseteq live /\ commit'.keep \subseteq live
    BY <1>2 DEF CommitBegin, Splits
  <2>3. ~Exists(n)
    BY <1>2 DEF CommitBegin, NextIndex, Archives
  <2>4. phase1[n].status = "none" /\ job[n] = "none"
    BY <2>3 DEF Exists, IInv, Absent, Untouched
  <2>5. CommitIntent'
    BY <2>1, <2>2, <2>4 DEF CommitIntent, Unwritten
  <2>6. Homes'
    BY <1>p, <2>1 DEF FirstPhase, Homes, Home
  <2>7. Sent'
    BY <2>1 DEF FirstPhase, Sent
  <2> QED
    BY <1>m, <1>p, <2>1, <2>5, <2>6, <2>7 DEF FirstPhase
<1>10. CASE MakeDir
  <2>1. /\ UNCHANGED <<sent, live, raw, job, commit, interrupted, faults>>
        /\ commit.pc = "marker" /\ phase1' = [phase1 EXCEPT ![commit.arch] = BareDir]
    BY <1>10 DEF MakeDir
  <2>2. /\ phase1'[commit.arch] = BareDir
        /\ \A b \in Archives : b # commit.arch => phase1'[b] = phase1[b]
    BY <1>0, <1>f, <2>1
  <2>3. phase1[commit.arch].out = {}
    BY <1>0, <2>1 DEF FirstPhase, CommitIntent, NoIntents
  <2>4. Anchors \subseteq Anchors'
    <3>1. ASSUME NEW b \in Archives
          PROVE  phase1[b].out \cap phase1[b].keep \subseteq phase1'[b].out \cap phase1'[b].keep
      BY <2>2, <2>3
    <3> QED
      BY <3>1, AnchorsGrow
  <2>5. NoIntents'
    BY <2>2 DEF FirstPhase, NoIntents, BareDir
  <2>6. CommitIntent'
    BY <1>0, <2>1, <2>2 DEF FirstPhase, CommitIntent, BareDir, Unwritten
  <2>7. Homes'
    BY <2>1, <2>4, HomesStay DEF FirstPhase
  <2>8. Sent'
    BY <2>1 DEF FirstPhase, Sent
  <2> QED
    BY <1>m, <2>1, <2>4, <2>5, <2>6, <2>7, <2>8 DEF FirstPhase
<1>3. CASE WritePhase1Marker
  <2> DEFINE i == [status |-> "preparing", out |-> commit.out, keep |-> commit.keep]
  <2>1. /\ UNCHANGED <<sent, live, raw, job, interrupted, faults>> /\ commit.pc = "marker"
        /\ phase1' = [phase1 EXCEPT ![commit.arch] = i] /\ Step("raw")
    BY <1>3 DEF WritePhase1Marker
  <2>2. /\ phase1'[commit.arch] = i /\ i.status = "preparing" /\ i.out = commit.out
        /\ i.keep = commit.keep
        /\ \A b \in Archives : b # commit.arch => phase1'[b] = phase1[b]
    BY <1>0, <1>f, <2>1
  <2> HIDE DEF i
  <2>3. phase1[commit.arch].out = {}
    BY <1>0, <2>1 DEF FirstPhase, CommitIntent, NoIntents
  <2>4. Anchors \subseteq Anchors'
    <3>1. ASSUME NEW b \in Archives
          PROVE  phase1[b].out \cap phase1[b].keep \subseteq phase1'[b].out \cap phase1'[b].keep
      BY <2>2, <2>3
    <3> QED
      BY <3>1, AnchorsGrow
  <2>5. NoIntents'
    BY <2>2 DEF FirstPhase, NoIntents, Unwritten
  <2>6. CommitIntent'
    BY <1>s, <2>1, <2>2 DEF FirstPhase, CommitIntent
  <2>7. Homes'
    BY <1>s, <2>1, <2>4 DEF FirstPhase, Homes, Home
  <2>8. Sent'
    BY <2>1 DEF FirstPhase, Sent
  <2> QED
    BY <1>m, <2>1, <2>4, <2>5, <2>6, <2>7, <2>8 DEF FirstPhase
<1>4. CASE WriteRaw
  <2>1. /\ UNCHANGED <<sent, live, phase1, job, interrupted, faults>> /\ commit.pc = "raw"
        /\ raw' = [raw EXCEPT ![commit.arch] = commit.out] /\ Step("enqueue")
    BY <1>4 DEF WriteRaw
  <2>2. /\ raw'[commit.arch] = commit.out
        /\ \A b \in Archives : b # commit.arch => raw'[b] = raw[b]
    BY <1>0, <1>f, <2>1
  <2>3. commit.out \subseteq live
    BY <2>1 DEF FirstPhase, CommitIntent
  <2>4. Sent'
    BY <2>1, <2>2, <2>3 DEF FirstPhase, Sent
  <2>5. CommitIntent'
    BY <1>s, <2>1, <2>2 DEF FirstPhase, CommitIntent
  <2>6. Homes'
    <3> SUFFICES ASSUME ~interrupted', NEW m \in Msgs \ Anchors', NEW b \in Archives, m \in raw'[b]
                 PROVE  Home(m, b)'
      BY DEF Homes
    <3>1. m \in Msgs \ Anchors /\ ~interrupted
      BY <1>p, <2>1
    <3>2. ASSUME NEW c \in Archives, m \in raw[c] PROVE Home(m, c)
      BY <3>1, <3>2 DEF FirstPhase, Homes
    <3>3. commit'.pc # "idle" /\ commit'.arch = commit.arch
      BY <1>s, <2>1
    <3>4. CASE b = commit.arch
      BY <2>1, <2>2, <2>3, <3>2, <3>3, <3>4 DEF Home
    <3>5. CASE b # commit.arch
      <4>1. Home(m, b)
        BY <2>2, <3>2, <3>5
      <4>2. m \notin live
        BY <3>5, <4>1 DEF Home
      <4>3. \A c \in Archives : m \in raw'[c] => c = b
        BY <2>2, <2>3, <4>1, <4>2 DEF Home
      <4> QED
        BY <2>1, <4>2, <4>3 DEF Home
    <3> QED
      BY <3>4, <3>5
  <2> QED
    BY <1>m, <1>p, <2>1, <2>4, <2>5, <2>6 DEF FirstPhase
<1>5. CASE EnqueueJob \/ CreateTask
  <2>1. /\ UNCHANGED <<sent, live, phase1, raw, interrupted, faults>>
        /\ commit.pc \in {"enqueue", "task"} /\ \E x \in {"task", "root"} : Step(x)
    BY <1>5 DEF EnqueueJob, CreateTask
  <2>2. commit'.pc \in {"task", "root"} /\ commit'.arch = commit.arch /\ commit'.out = commit.out
        /\ commit'.keep = commit.keep
    BY <1>s, <2>1
  <2>3. CommitIntent'
    BY <2>1, <2>2 DEF FirstPhase, CommitIntent
  <2>4. Homes'
    BY <1>p, <2>1, <2>2 DEF FirstPhase, Homes, Home
  <2>5. Sent'
    BY <2>1 DEF FirstPhase, Sent
  <2> QED
    BY <1>m, <1>p, <2>1, <2>3, <2>4, <2>5 DEF FirstPhase
<1>6. CASE RewriteRoot
  <2>1. /\ UNCHANGED <<sent, phase1, raw, interrupted, faults>>
        /\ commit.pc = "root" /\ live' = commit.keep /\ Step("ready")
    BY <1>6 DEF RewriteRoot
  <2>2. commit'.pc = "ready" /\ commit'.arch = commit.arch /\ commit'.out = commit.out
        /\ commit'.keep = commit.keep /\ live' \subseteq live
    BY <1>s, <2>1 DEF FirstPhase, CommitIntent
  <2>3. CommitIntent'
    BY <2>1, <2>2 DEF FirstPhase, CommitIntent
  <2>4. Homes'
    BY <1>p, <2>1, <2>2 DEF FirstPhase, Homes, Home
  <2>5. Sent'
    BY <2>1, <2>2 DEF FirstPhase, Sent
  <2> QED
    BY <1>m, <1>p, <2>1, <2>3, <2>4, <2>5 DEF FirstPhase
<1>7. CASE PublishReady
  <2>1. /\ UNCHANGED <<sent, live, raw, interrupted, faults>> /\ commit.pc = "ready"
        /\ phase1' = [phase1 EXCEPT ![commit.arch].status = "ready"] /\ commit' = NoCommit
    BY <1>7 DEF PublishReady
  <2>2. ASSUME NEW b \in Archives
        PROVE  /\ phase1'[b].out = phase1[b].out /\ phase1'[b].keep = phase1[b].keep
               /\ phase1'[b].status \in Unwritten => phase1[b].status \in Unwritten
    BY <1>0, <1>f, <2>1 DEF Intents, Unwritten
  <2>3. ~Unfinished
    BY <2>1 DEF FirstPhase, CommitIntent, Unfinished
  <2>4. commit'.pc = "idle"
    BY <2>1 DEF NoCommit
  <2> QED
    BY <1>m, <2>1, <2>2, <2>3, <2>4, FirstOver
<1>8. CASE CommitFails
  <2>1. /\ UNCHANGED <<sent, live, phase1, raw, interrupted>> /\ Step("fail")
        /\ faults' = faults \cup {"phase1"} /\ commit.pc \notin {"idle", "fail"}
    BY <1>8 DEF CommitFails, Fault
  <2>2. commit'.pc = "fail" /\ commit'.arch = commit.arch /\ commit'.out = commit.out
        /\ commit'.keep = commit.keep /\ commit.pc \in CommitPCs
    BY <1>f, <1>s, <2>1 DEF Commits
  <2>3. commit.pc \in {"marker", "raw"} => raw[commit.arch] = {}
    BY <1>0 DEF IInv, CommitIsLast, Untouched, Archives
  <2>4. CommitIntent'
    BY <2>1, <2>2, <2>3 DEF FirstPhase, CommitIntent, CommitPCs
  <2>5. Homes'
    BY <1>p, <2>1, <2>2 DEF FirstPhase, Homes, Home
  <2>6. Sent' /\ LossInterrupts'
    BY <2>1 DEF FirstPhase, Sent, LossInterrupts, IntentLost
  <2> QED
    BY <1>p, <2>1, <2>4, <2>5, <2>6 DEF FirstPhase
<1>9. CASE WriteCommitFailed \/ CommitFailedUnmarked
  <2>1. /\ UNCHANGED <<sent, live, raw, phase1>> /\ commit' = NoCommit
        /\ interrupted' = (interrupted \/ Unfinished) /\ faults' \subseteq faults \cup {"marker"}
    BY <1>9 DEF WriteCommitFailed, CommitFailedUnmarked, Fault
  <2>2. commit'.pc = "idle"
    BY <2>1 DEF NoCommit
  <2>3. LossInterrupts'
    BY <2>1 DEF FirstPhase, LossInterrupts, IntentLost
  <2> QED
    BY <2>1, <2>2, <2>3, FirstOver
<1> QED
  BY <1>1, <1>2, <1>3, <1>4, <1>5, <1>6, <1>7, <1>8, <1>9, <1>10
     DEF CommitMoves, CommitStep

(* So do a crash and a step that changes nothing.                           *)
LEMMA FirstCrash ==
  ASSUME IInv, FirstPhase, Crash \/ UNCHANGED vars
  PROVE  FirstPhase' /\ Anchors \subseteq Anchors'
<1>1. CASE Crash
  <2>1. /\ UNCHANGED <<sent, live, raw, phase1, faults>> /\ commit' = NoCommit
        /\ interrupted' = (interrupted \/ Unfinished \/ \E a \in Archives : Unrecorded(a))
    BY <1>1 DEF Crash
  <2>2. commit'.pc = "idle"
    BY <2>1 DEF NoCommit
  <2>3. (interrupted => interrupted') /\ (~interrupted' => ~Unfinished)
    BY <2>1
  <2>4. LossInterrupts'
    BY <2>1, <2>3 DEF FirstPhase, LossInterrupts, IntentLost
  <2> QED
    BY <2>1, <2>2, <2>3, <2>4, FirstOver
<1>2. CASE UNCHANGED vars
  BY <1>2 DEF vars, FirstPhase, LossInterrupts, IntentLost, CommitIntent, NoIntents, Sent,
     Homes, Home, Anchors
<1> QED
  BY <1>1, <1>2
-----------------------------------------------------------------------------
(* What a step of a handler does to what it works on.                       *)
Early == {"off", "begin", "ensure", "wait"}
Quiet == UNCHANGED <<progress, done, times>>
Others(a) == \A c \in Archives \ {a} : phase2'[c] = phase2[c]
SameData(a) ==
  /\ phase2'[a].input = phase2[a].input /\ phase2'[a].from = phase2[a].from
  /\ phase2'[a].absorbed = phase2[a].absorbed /\ phase2'[a].steps = phase2[a].steps
SameWork(a) ==
  /\ phase2'[a].todo = phase2[a].todo /\ phase2'[a].unsaved = phase2[a].unsaved
  /\ phase2'[a].bad = phase2[a].bad

(* It starts, or gives up before it has prepared anything.                  *)
Fresh(a) ==
  /\ Quiet /\ Others(a)
  /\ phase2[a].pc \in Early /\ phase2'[a].pc \notin Prepared
  /\ phase2'[a].input \subseteq phase2[a].input /\ phase2'[a].steps = NoSteps
  /\ phase2'[a].todo = {} /\ phase2'[a].unsaved = {}

(* It goes on after the steps, ...                                          *)
Moves(a) ==
  /\ Quiet /\ Others(a) /\ SameData(a) /\ SameWork(a)
  /\ phase2[a].todo = {} /\ phase2[a].unsaved = {}
  /\ phase2[a].pc \notin Early /\ phase2'[a].pc \notin Early \cup {"run"}
  /\ phase2[a].pc \in Holding => phase2'[a].pc \in Holding
  /\ phase2'[a].pc \in {"meta", "done"} => phase2[a].pc \in Prepared /\ phase2[a].bad = FALSE

(* ... is through with the summary or with a step that fails, ...           *)
Trims(a) ==
  /\ Quiet /\ Others(a) /\ SameData(a)
  /\ phase2[a].pc = "run" /\ phase2'[a].pc = "run"
  /\ \/ phase2'[a].bad = TRUE
     \/ phase2'[a].bad = phase2[a].bad /\ phase2'[a].unsaved = phase2[a].unsaved

(* ... or lets go of its message.                                           *)
Drops(a) ==
  /\ Quiet /\ Others(a) /\ phase2'[a] = NoPhase2
  /\ phase2[a].pc \in Holding => interrupted' \/ ~Unrecorded(a)

LEMMA GotoAll ==
  ASSUME TypeOK, NEW a \in Archives, NEW x, Goto(a, x)
  PROVE  phase2'[a].pc = x /\ Others(a) /\ SameData(a) /\ SameWork(a)
<1> DEFINE q == [phase2[a] EXCEPT !.pc = x]
<1>1. phase2' = [phase2 EXCEPT ![a] = q]
  OBVIOUS
<1>2. phase2 \in [Archives -> Phase2s] /\ phase2[a] \in Phase2s
  BY DEF TypeOK
<1>3. /\ q.pc = x /\ q.input = phase2[a].input /\ q.from = phase2[a].from
      /\ q.absorbed = phase2[a].absorbed /\ q.steps = phase2[a].steps /\ q.todo = phase2[a].todo
      /\ q.unsaved = phase2[a].unsaved /\ q.bad = phase2[a].bad
  BY <1>2 DEF Phase2s
<1> HIDE DEF q
<1>4. phase2'[a] = q /\ Others(a)
  BY <1>1, <1>2 DEF Others
<1> QED
  BY <1>3, <1>4 DEF SameData, SameWork

LEMMA MarkAll ==
  ASSUME TypeOK, NEW a \in Archives, NEW x, Mark(a, x)
  PROVE  phase2'[a].pc = "mark" /\ Others(a) /\ SameData(a) /\ SameWork(a)
<1> DEFINE q == [[phase2[a] EXCEPT !.pc = "mark"] EXCEPT !.cause = x]
<1>1. phase2' = [phase2 EXCEPT ![a] = q]
  OBVIOUS
<1>2. phase2 \in [Archives -> Phase2s] /\ phase2[a] \in Phase2s
  BY DEF TypeOK
<1>3. /\ q.pc = "mark" /\ q.input = phase2[a].input /\ q.from = phase2[a].from
      /\ q.absorbed = phase2[a].absorbed /\ q.steps = phase2[a].steps /\ q.todo = phase2[a].todo
      /\ q.unsaved = phase2[a].unsaved /\ q.bad = phase2[a].bad
  BY <1>2 DEF Phase2s
<1> HIDE DEF q
<1>4. phase2'[a] = q /\ Others(a)
  BY <1>1, <1>2 DEF Others
<1> QED
  BY <1>3, <1>4 DEF SameData, SameWork

(* The handler that is not there, and the one that begins.                  *)
LEMMA NoPhase2Fields ==
  /\ NoPhase2.pc = "off" /\ NoPhase2.input = {} /\ NoPhase2.steps = NoSteps
  /\ NoPhase2.todo = {} /\ NoPhase2.unsaved = {} /\ NoPhase2.bad = FALSE
  BY DEF NoPhase2

(* Before it has prepared, ...                                              *)
LEMMA EarlyFresh ==
  ASSUME TypeOK, NEW a \in Archives, Tidy(a),
         \/ Fetch(a) \/ Begin(a) \/ EnsureReady(a) \/ EnsureLegacy(a) \/ EnsureUnverified(a)
         \/ PrepareRaises(a)
         \/ LockTimeout(a) /\ phase2[a].pc = "wait"
  PROVE  Fresh(a)
<1>1. CASE Fetch(a)
  <2> DEFINE q == [NoPhase2 EXCEPT !.pc = "begin"]
  <2>1. phase2' = [phase2 EXCEPT ![a] = q] /\ Quiet
    BY <1>1 DEF Fetch, Quiet
  <2>2. q.pc = "begin" /\ q.input = {} /\ q.steps = NoSteps /\ q.todo = {} /\ q.unsaved = {}
    BY DEF NoPhase2
  <2>3. phase2 \in [Archives -> Phase2s]
    BY DEF TypeOK
  <2> HIDE DEF q
  <2>4. phase2'[a] = q /\ Others(a)
    BY <2>1, <2>3 DEF Others
  <2>5. phase2[a].pc = "off"
    BY <1>1 DEF Fetch, Tidy
  <2>6. phase2'[a].pc \notin Prepared
    BY <2>2, <2>4 DEF Prepared
  <2> QED
    BY <2>1, <2>2, <2>4, <2>5, <2>6 DEF Fresh, Early
<1>2. CASE ~Fetch(a)
  <2>1. Quiet
    BY <1>2 DEF Quiet, Begin, EnsureReady, EnsureLegacy, EnsureUnverified, PrepareRaises,
                LockTimeout
  <2>2. phase2[a].pc \in {"begin", "ensure", "wait"}
    BY <1>2 DEF Begin, EnsureReady, EnsureLegacy, EnsureUnverified, PrepareRaises
  <2>3. phase2[a].steps = NoSteps /\ phase2[a].todo = {} /\ phase2[a].unsaved = {}
    BY <2>2 DEF Tidy
  <2>4. \/ \E x \in {"ack", "known", "giveup", "ensure", "wait"} : Goto(a, x)
        \/ \E c \in Causes : Mark(a, c)
    <3>1. CASE Begin(a)
      BY <3>1 DEF Begin
    <3>2. CASE EnsureReady(a)
      BY <3>2 DEF EnsureReady, GoOn, Causes
    <3>3. CASE EnsureLegacy(a)
      BY <3>3 DEF EnsureLegacy, GoOn, Causes
    <3>5. CASE EnsureUnverified(a)
      BY <3>5 DEF EnsureUnverified
    <3>4. CASE PrepareRaises(a) \/ LockTimeout(a)
      BY <3>4 DEF PrepareRaises, LockTimeout, Causes
    <3> QED
      BY <1>2, <3>1, <3>2, <3>3, <3>4, <3>5
  <2>5. /\ phase2'[a].pc \in {"ack", "known", "giveup", "ensure", "wait", "mark"}
        /\ Others(a) /\ SameData(a) /\ SameWork(a)
    <3>1. CASE \E x \in {"ack", "known", "giveup", "ensure", "wait"} : Goto(a, x)
      BY <3>1, GotoAll
    <3>2. CASE \E c \in Causes : Mark(a, c)
      BY <3>2, MarkAll
    <3> QED
      BY <2>4, <3>1, <3>2
  <2> QED
    BY <2>1, <2>2, <2>3, <2>5 DEF Fresh, Early, Prepared, SameData, SameWork
<1> QED
  BY <1>1, <1>2

(* ... after the steps, ...                                                 *)
LEMMA LateMoves ==
  ASSUME TypeOK, NEW a \in Archives, Tidy(a),
         \/ Gathered(a) \/ MergeMeta(a) \/ Report(a)
         \/ LockTimeout(a) /\ phase2[a].pc # "wait"
         \/ ReportFails(a) /\ phase2[a].pc = "complete"
  PROVE  Moves(a)
<1>1. Quiet
  BY DEF Quiet, Gathered, MergeMeta, Report, LockTimeout, ReportFails
<1>2. phase2[a].pc \in {"run", "meta", "complete", "known", "giveup"}
  BY DEF Gathered, MergeMeta, Report, LockTimeout
<1>3. phase2[a].todo = {} /\ phase2[a].unsaved = {}
  BY <1>2 DEF Tidy, Gathered, MergeMeta, Report, LockTimeout
<1>4. \/ phase2[a].bad = FALSE /\ phase2[a].pc = "run" /\ Goto(a, "meta")
      \/ phase2[a].bad = FALSE /\ phase2[a].pc = "meta" /\ Goto(a, "done")
      \/ phase2[a].pc \in {"complete", "known", "giveup"} /\ Goto(a, "ack")
      \/ Mark(a, "extraction")
  <2>1. CASE Gathered(a)
    <3>1. phase2[a].bad \in BOOLEAN
      BY DEF TypeOK, Phase2s
    <3> QED
      BY <2>1, <3>1 DEF Gathered
  <2>2. CASE ~Gathered(a)
    BY <2>2 DEF Tidy, MergeMeta, Report, LockTimeout, ReportFails
  <2> QED
    BY <2>1, <2>2
<1>5. CASE Mark(a, "extraction")
  <2>1. phase2'[a].pc = "mark" /\ Others(a) /\ SameData(a) /\ SameWork(a)
    BY <1>5, MarkAll
  <2> QED
    BY <1>1, <1>2, <1>3, <2>1 DEF Moves, Early, Holding
<1>6. ASSUME NEW x \in {"meta", "done", "ack"}, Goto(a, x),
             x \in {"meta", "done"} => phase2[a].bad = FALSE /\ phase2[a].pc \in {"run", "meta"},
             x = "ack" => phase2[a].pc \in {"complete", "known", "giveup"}
      PROVE  Moves(a)
  <2>1. phase2'[a].pc = x /\ Others(a) /\ SameData(a) /\ SameWork(a)
    BY <1>6, GotoAll
  <2>2. /\ phase2[a].pc \notin Early /\ phase2'[a].pc \notin Early \cup {"run"}
        /\ phase2[a].pc \in Holding => phase2'[a].pc \in Holding
        /\ phase2'[a].pc \in {"meta", "done"} => phase2[a].pc \in Prepared
    BY <1>2, <1>6, <2>1 DEF Early, Holding, Prepared
  <2> QED
    BY <1>1, <1>3, <1>6, <2>1, <2>2 DEF Moves
<1> QED
  BY <1>4, <1>5, <1>6

(* ... in between, ...                                                      *)
LEMMA WorkTrims ==
  ASSUME TypeOK, NEW a \in Archives, Tidy(a),
         \/ Summary(a) \/ SummaryEmpty(a)
         \/ \E s \in MemorySteps \cup {"summary"} : StepFails(a, s)
  PROVE  Trims(a)
<1>1. Quiet /\ phase2[a].pc = "run"
  BY DEF Quiet, Tidy, Summary, SummaryEmpty, StepFails
<1>2. phase2 \in [Archives -> Phase2s] /\ phase2[a] \in Phase2s
  BY DEF TypeOK
<1>3. CASE Summary(a) \/ SummaryEmpty(a)
  <2> DEFINE q == [phase2[a] EXCEPT !.todo = @ \ {"summary"}]
  <2>1. phase2' = [phase2 EXCEPT ![a] = q]
    BY <1>3 DEF Summary, SummaryEmpty
  <2>2. /\ q.pc = phase2[a].pc /\ q.input = phase2[a].input /\ q.from = phase2[a].from
        /\ q.absorbed = phase2[a].absorbed /\ q.steps = phase2[a].steps
        /\ q.unsaved = phase2[a].unsaved /\ q.bad = phase2[a].bad
    BY <1>2 DEF Phase2s
  <2> HIDE DEF q
  <2>3. phase2'[a] = q /\ Others(a)
    BY <1>2, <2>1 DEF Others
  <2> QED
    BY <1>1, <2>2, <2>3 DEF Trims, SameData
<1>4. ASSUME NEW s \in MemorySteps \cup {"summary"}, StepFails(a, s) PROVE Trims(a)
  <2> DEFINE q == [phase2[a] EXCEPT !.todo = @ \ {s}, !.unsaved = @ \ {s}, !.bad = TRUE]
  <2>1. phase2' = [phase2 EXCEPT ![a] = q]
    BY <1>4 DEF StepFails
  <2>2. /\ q.pc = phase2[a].pc /\ q.input = phase2[a].input /\ q.from = phase2[a].from
        /\ q.absorbed = phase2[a].absorbed /\ q.steps = phase2[a].steps
        /\ q.bad = TRUE
    BY <1>2 DEF Phase2s
  <2> HIDE DEF q
  <2>3. phase2'[a] = q /\ Others(a)
    BY <1>2, <2>1 DEF Others
  <2> QED
    BY <1>1, <2>2, <2>3 DEF Trims, SameData
<1> QED
  BY <1>3, <1>4

(* ... and at the end.                                                      *)
LEMMA EndDrops ==
  ASSUME TypeOK, NEW a \in Archives,
         Ack(a) \/ HandlerRaises(a) \/ (ReportFails(a) /\ phase2[a].pc # "complete")
  PROVE  Drops(a)
<1>1. Quiet /\ phase2' = [phase2 EXCEPT ![a] = NoPhase2]
  BY DEF Quiet, Ack, HandlerRaises, ReportFails
<1>2. phase2'[a] = NoPhase2 /\ Others(a)
  BY <1>1 DEF TypeOK, Others
<1>3. phase2[a].pc \in Holding => interrupted' \/ ~Unrecorded(a)
  BY DEF Ack, HandlerRaises, ReportFails, Holding
<1> QED
  BY <1>1, <1>2, <1>3 DEF Drops

(* All that a handler's step may be.                                        *)
LEMMA HandlerShape ==
  ASSUME TypeOK, NEW a \in Archives, Tidy(a), Handles(a)
  PROVE  \/ UNCHANGED phase2 /\ Quiet
         \/ Fresh(a) \/ Moves(a) \/ Trims(a) \/ Drops(a)
         \/ Prepare(a) \/ WriteDone(a) \/ WriteFailed(a)
         \/ \E s \in MemorySteps : Extract(a, s) \/ Record(a, s)
<1>1. WaitReconciles(a) \/ WaitUnverified(a) => UNCHANGED phase2 /\ Quiet
  BY DEF WaitReconciles, WaitUnverified, Quiet
<1>2. CASE Fetch(a)
  BY <1>2, EarlyFresh
<1>3. CASE HandlerStep(a)
  BY <1>1, <1>3, EarlyFresh, LateMoves, WorkTrims, EndDrops DEF HandlerStep, MemoryStep
<1>4. CASE HandlerFault(a)
  <2>1. CASE LockTimeout(a)
    BY <2>1, EarlyFresh, LateMoves
  <2>2. CASE ReportFails(a)
    BY <2>2, LateMoves, EndDrops
  <2> QED
    BY <1>1, <1>4, <2>1, <2>2, EarlyFresh, WorkTrims, EndDrops DEF HandlerFault
<1> QED
  BY <1>2, <1>3, <1>4 DEF Handles
-----------------------------------------------------------------------------
(* What the steps that write something do.                                  *)
LEMMA PrepareFields ==
  ASSUME TypeOK, NEW a \in Archives, Tidy(a), Prepare(a)
  PROVE  /\ Quiet /\ Others(a) /\ phase2'[a].pc = "run" /\ phase2'[a].input = Input(a)
         /\ phase2'[a].from = Least(Replay(a) \cup {a}) /\ phase2'[a].absorbed = Replay(a)
         /\ phase2'[a].steps = KnownSteps(a) /\ phase2'[a].unsaved = {}
<1> DEFINE i == Input(a)
           f == Least(Replay(a) \cup {a})
           r == Replay(a)
           k == KnownSteps(a)
           t == {"summary"} \cup {s \in MemorySteps : ~(i \subseteq k[s])}
           q == [phase2[a] EXCEPT !.pc = "run", !.input = i, !.from = f, !.absorbed = r,
                                  !.steps = k, !.todo = t]
<1>1. phase2' = [phase2 EXCEPT ![a] = q] /\ phase2[a].pc = "wait"
  BY DEF Prepare
<1>2. phase2 \in [Archives -> Phase2s] /\ phase2[a] \in Phase2s /\ phase2[a].unsaved = {}
  BY <1>1 DEF TypeOK, Tidy
<1> HIDE DEF i, f, r, k, t
<1>3. /\ q.pc = "run" /\ q.input = i /\ q.from = f /\ q.absorbed = r /\ q.steps = k
      /\ q.unsaved = {}
  BY <1>2 DEF Phase2s
<1> HIDE DEF q
<1>4. phase2'[a] = q /\ Others(a)
  BY <1>1, <1>2 DEF Others
<1>5. Quiet
  BY DEF Prepare, Quiet
<1> QED
  BY <1>3, <1>4, <1>5 DEF i, f, r, k

LEMMA ExtractFields ==
  ASSUME TypeOK, NEW a \in Archives, Tidy(a), NEW s \in MemorySteps, Extract(a, s)
  PROVE  /\ Others(a) /\ UNCHANGED <<progress, done>>
         /\ phase2[a].pc = "run" /\ phase2'[a].pc = "run"
         /\ phase2'[a].input = phase2[a].input /\ phase2'[a].from = phase2[a].from
         /\ phase2'[a].absorbed = phase2[a].absorbed
         /\ phase2'[a].steps = [phase2[a].steps EXCEPT ![s] = @ \cup phase2[a].input]
         /\ phase2'[a].unsaved = phase2[a].unsaved \cup {s} /\ phase2'[a].bad = phase2[a].bad
<1> DEFINE p == phase2[a]
           k == [p.steps EXCEPT ![s] = @ \cup p.input]
           q == [p EXCEPT !.todo = @ \ {s}, !.unsaved = @ \cup {s}, !.steps = k]
<1>1. phase2' = [phase2 EXCEPT ![a] = q] /\ UNCHANGED <<progress, done>>
  BY DEF Extract
<1>2. phase2[a].pc = "run"
  BY DEF Extract, Tidy
<1>3. phase2 \in [Archives -> Phase2s] /\ phase2[a] \in Phase2s
  BY DEF TypeOK
<1> HIDE DEF k
<1>4. /\ q.pc = p.pc /\ q.input = p.input /\ q.from = p.from /\ q.absorbed = p.absorbed
      /\ q.steps = k /\ q.unsaved = p.unsaved \cup {s} /\ q.bad = p.bad
  BY <1>3 DEF Phase2s
<1> HIDE DEF q
<1>5. phase2'[a] = q /\ Others(a)
  BY <1>1, <1>3 DEF Others
<1> QED
  BY <1>1, <1>2, <1>4, <1>5 DEF k

LEMMA RecordFields ==
  ASSUME TypeOK, NEW a \in Archives, Tidy(a), NEW s \in MemorySteps, Record(a, s)
  PROVE  /\ Others(a) /\ SameData(a) /\ UNCHANGED <<done, times>>
         /\ phase2[a].pc = "run" /\ phase2'[a].pc = "run" /\ phase2'[a].bad = phase2[a].bad
         /\ progress' = [progress EXCEPT ![a] = phase2[a].steps]
<1> DEFINE q == [phase2[a] EXCEPT !.unsaved = @ \ {s}]
<1>1. /\ phase2' = [phase2 EXCEPT ![a] = q] /\ UNCHANGED <<done, times>>
      /\ progress' = [progress EXCEPT ![a] = phase2[a].steps]
  BY DEF Record
<1>2. phase2[a].pc = "run"
  BY DEF Record, Tidy
<1>3. phase2 \in [Archives -> Phase2s] /\ phase2[a] \in Phase2s
  BY DEF TypeOK
<1>4. /\ q.pc = phase2[a].pc /\ q.input = phase2[a].input /\ q.from = phase2[a].from
      /\ q.absorbed = phase2[a].absorbed /\ q.steps = phase2[a].steps /\ q.bad = phase2[a].bad
  BY <1>3 DEF Phase2s
<1> HIDE DEF q
<1>5. phase2'[a] = q /\ Others(a)
  BY <1>1, <1>3 DEF Others
<1> QED
  BY <1>1, <1>2, <1>4, <1>5 DEF SameData

LEMMA WriteDoneFields ==
  ASSUME TypeOK, NEW a \in Archives, WriteDone(a)
  PROVE  /\ Others(a) /\ SameData(a) /\ SameWork(a) /\ UNCHANGED <<progress, times>>
         /\ phase2[a].pc = "done" /\ phase2'[a].pc = "complete"
         /\ \A c \in Archives \ {a} : done'[c] = done[c]
         /\ done'[a].on /\ done'[a].from = phase2[a].from
         /\ done'[a].absorbed = phase2[a].absorbed
<1> DEFINE d == [on |-> TRUE, from |-> phase2[a].from, absorbed |-> phase2[a].absorbed,
                 input |-> phase2[a].input]
<1>1. /\ Goto(a, "complete") /\ UNCHANGED <<progress, times>> /\ phase2[a].pc = "done"
      /\ done' = [done EXCEPT ![a] = d]
  BY DEF WriteDone
<1>2. d.on /\ d.from = phase2[a].from /\ d.absorbed = phase2[a].absorbed
  OBVIOUS
<1> HIDE DEF d
<1>3. done'[a] = d /\ \A c \in Archives \ {a} : done'[c] = done[c]
  BY <1>1 DEF TypeOK
<1>4. phase2'[a].pc = "complete" /\ Others(a) /\ SameData(a) /\ SameWork(a)
  BY <1>1, GotoAll
<1> QED
  BY <1>1, <1>2, <1>3, <1>4

LEMMA WriteFailedFields ==
  ASSUME TypeOK, NEW a \in Archives, WriteFailed(a)
  PROVE  /\ Others(a) /\ SameData(a) /\ SameWork(a) /\ UNCHANGED <<done, times>>
         /\ phase2[a].pc = "mark" /\ phase2'[a].pc = "giveup"
         /\ \A c \in Archives \ {a} : progress'[c] = progress[c]
         /\ progress'[a] = [s \in MemorySteps |-> progress[a][s] \cup phase2[a].steps[s]]
<1> DEFINE k == [s \in MemorySteps |-> progress[a][s] \cup phase2[a].steps[s]]
<1>1. /\ Goto(a, "giveup") /\ UNCHANGED <<done, times>> /\ phase2[a].pc = "mark"
      /\ progress' = [progress EXCEPT ![a] = k]
  BY DEF WriteFailed
<1> HIDE DEF k
<1>2. progress'[a] = k /\ \A c \in Archives \ {a} : progress'[c] = progress[c]
  BY <1>1 DEF TypeOK
<1>3. phase2'[a].pc = "giveup" /\ Others(a) /\ SameData(a) /\ SameWork(a)
  BY <1>1, GotoAll
<1> QED
  BY <1>1, <1>2, <1>3 DEF k

(* What any step of a handler does to the steps it knows and records.       *)
Evolves(a) ==
  /\ Others(a)
  /\ \A c \in Archives \ {a} : progress'[c] = progress[c] /\ done'[c] = done[c]
  /\ \A s \in MemorySteps :
       /\ progress[a][s] \subseteq progress'[a][s]
       /\ progress'[a][s] \subseteq progress[a][s] \cup phase2[a].steps[s]
  /\ phase2'[a].pc \notin Prepared =>
       /\ phase2'[a].input \subseteq phase2[a].input
       /\ phase2'[a].steps = NoSteps \/ phase2'[a].steps = phase2[a].steps
  /\ phase2'[a].pc \in Prepared =>
       \/ Prepare(a)
       \/ /\ phase2[a].pc \in Prepared /\ phase2'[a].input = phase2[a].input
          /\ phase2'[a].from = phase2[a].from /\ phase2'[a].absorbed = phase2[a].absorbed
          /\ \A s \in MemorySteps :
               /\ phase2[a].steps[s] \subseteq phase2'[a].steps[s]
               /\ phase2'[a].steps[s] \subseteq phase2[a].steps[s] \cup phase2[a].input

LEMMA HandlerEvolves ==
  ASSUME TypeOK, NEW a \in Archives, Tidy(a), Recorded(a), Handles(a)
  PROVE  Evolves(a)
<1>1. CASE UNCHANGED phase2 /\ Quiet
  BY <1>1 DEF Evolves, Quiet, Others
<1>2. CASE Fresh(a)
  BY <1>2 DEF Evolves, Fresh, Quiet
<1>3. CASE Moves(a)
  <2>1. phase2'[a].pc \in Prepared => phase2[a].pc \in Prepared
    BY <1>3 DEF Moves, Prepared
  <2> QED
    BY <1>3, <2>1 DEF Evolves, Moves, Quiet, SameData
<1>4. CASE Trims(a)
  <2>1. phase2'[a].pc \in Prepared /\ phase2[a].pc \in Prepared
    BY <1>4 DEF Trims, Prepared
  <2> QED
    BY <1>4, <2>1 DEF Evolves, Trims, Quiet, SameData
<1>5. CASE Drops(a)
  BY <1>5, NoPhase2Fields DEF Evolves, Drops, Quiet, Prepared
<1>6. CASE Prepare(a)
  BY <1>6, PrepareFields DEF Evolves, Quiet, Prepared
<1>7. CASE WriteDone(a)
  BY <1>7, WriteDoneFields DEF Evolves, SameData, Prepared
<1>8. CASE WriteFailed(a)
  BY <1>8, WriteFailedFields DEF Evolves, SameData, Prepared
<1>9. ASSUME NEW s \in MemorySteps, Extract(a, s) PROVE Evolves(a)
  <2>1. phase2[a].steps \in Steps /\ phase2[a].pc \in Prepared /\ phase2'[a].pc \in Prepared
    BY <1>9, ExtractFields DEF TypeOK, Phase2s, Prepared
  <2>2. ASSUME NEW t \in MemorySteps
        PROVE  /\ phase2[a].steps[t] \subseteq phase2'[a].steps[t]
               /\ phase2'[a].steps[t] \subseteq phase2[a].steps[t] \cup phase2[a].input
    <3>1. phase2'[a].steps = [phase2[a].steps EXCEPT ![s] = @ \cup phase2[a].input]
      BY <1>9, ExtractFields
    <3> QED
      BY <2>1, <3>1 DEF Steps
  <2> QED
    BY <1>9, <2>1, <2>2, ExtractFields DEF Evolves
<1>10. ASSUME NEW s \in MemorySteps, Record(a, s) PROVE Evolves(a)
  <2>1. phase2[a].pc \in Prepared /\ phase2'[a].pc \in Prepared
    BY <1>10, RecordFields DEF Prepared
  <2>2. progress'[a] = phase2[a].steps /\ \A c \in Archives \ {a} : progress'[c] = progress[c]
    BY <1>10, RecordFields DEF TypeOK
  <2> QED
    BY <1>10, <2>1, <2>2, RecordFields DEF Evolves, Recorded, SameData
<1> QED
  BY <1>1, <1>2, <1>3, <1>4, <1>5, <1>6, <1>7, <1>8, <1>9, <1>10, HandlerShape
-----------------------------------------------------------------------------
(* The second phase.                                                        *)

(* What is recorded stays recorded.                                         *)
ProgressGrows == \A c \in Archives, s \in MemorySteps : progress[c][s] \subseteq progress'[c][s]

LEMMA HandlerRecords ==
  ASSUME NEW a \in Archives, Evolves(a)
  PROVE  ProgressGrows
<1> SUFFICES ASSUME NEW c \in Archives, NEW s \in MemorySteps
             PROVE  progress[c][s] \subseteq progress'[c][s]
  BY DEF ProgressGrows
<1>1. CASE c = a
  BY <1>1 DEF Evolves
<1>2. CASE c # a
  BY <1>2 DEF Evolves
<1> QED
  BY <1>1, <1>2

(* A completed archive covers itself.                                       *)
LEMMA FromStays ==
  ASSUME IInv, SecondPhase, \A b \in Archives : Kept(b), ~IntentLost,
         NEW b \in Archives, done'[b].on
  PROVE  done'[b].from <= b
<1>1. CASE done[b].on
  BY <1>1 DEF Kept, SecondPhase, Coverage, Rolled
<1>2. CASE ~done[b].on
  <2>1. WriteDone(b) /\ TypeOK
    BY <1>2 DEF Kept, IInv
  <2>2. phase2[b].pc = "done" /\ done'[b].from = phase2[b].from
    BY <2>1, WriteDoneFields
  <2> QED
    BY <2>2 DEF SecondPhase, Coverage, Rolled, Prepared
<1> QED
  BY <1>1, <1>2

(* What is covered or absorbed stays so.                                    *)
LEMMA RolledStays ==
  ASSUME IInv, SecondPhase, TypeOK', \A b \in Archives : Kept(b), ~IntentLost,
         NEW a \in Archives, ~Untouched(a), NEW f, NEW r, Rolled(a, f, r)
  PROVE  f <= a /\ \A b \in 1 .. a - 1 : raw'[b] # {} => Covered(b)' \/ b \in r
<1> SUFFICES ASSUME NEW b \in 1 .. a - 1, raw'[b] # {}, b \notin r PROVE Covered(b)'
  BY DEF Rolled
<1>1. b \in Archives /\ a >= b
  BY BoundsAssumption DEF Archives
<1>2. raw'[b] = raw[b]
  <2>1. ~LastOne(b)
    BY <1>1 DEF LastOne
  <2> QED
    BY <1>1, <2>1 DEF Kept
<1>3. Covered(b)
  BY <1>2 DEF Rolled
<1> QED
  BY <1>1, <1>3, FromStays, CoveredStays

(* A second phase that is prepared covers, or absorbs, all that came before.*)
LEMMA PrepareRolls ==
  ASSUME IInv, SecondPhase, ~IntentLost, NEW a \in Archives, Prepare(a)
  PROVE  Rolled(a, Least(Replay(a) \cup {a}), Replay(a))
<1> DEFINE R == Replay(a) \cup {a}
<1>1. Least(R) <= a
  <2>1. R \in SUBSET Nat /\ a \in R /\ a \in Nat
    BY BoundsAssumption DEF Replay, Archives
  <2>2. \A y \in R : y <= a
    BY BoundsAssumption DEF Replay, Archives
  <2> HIDE DEF R
  <2>3. Least(R) \in R
    BY <2>1, LeastIsIn
  <2> QED
    BY <2>2, <2>3
<1>2. ASSUME NEW b \in 1 .. a - 1, raw[b] # {}, b \notin Replay(a) PROVE Covered(b)
  <2>1. b \in Archives /\ b \in Nat
    BY BoundsAssumption DEF Archives
  <2>2. Exists(b)
    BY <1>2, <2>1 DEF IInv, Absent, Untouched
  <2>3. Completed(b) \/ Failed(b)
    BY <2>2 DEF Prepare, PreviousEnded, Pending, Completed, Failed
  <2>4. CASE Failed(b)
    BY <1>2, <2>4 DEF Replay
  <2>5. CASE Completed(b)
    <3>1. done[b].from \in Nat
      BY <2>1 DEF IInv, TypeOK, Dones
    <3>2. done[b].from <= b
      BY <2>1, <2>5 DEF Completed, SecondPhase, Coverage, Rolled
    <3>3. b \in done[b].from .. b
      BY <2>1, <3>1, <3>2
    <3> QED
      BY <2>1, <2>5, <3>3 DEF Covered, Covers
  <2> QED
    BY <2>3, <2>4, <2>5
<1> QED
  BY <1>1, <1>2 DEF Rolled

(* The coverage of an archive a handler has evolved, or left alone.         *)
LEMMA CoverageStep ==
  ASSUME IInv, SecondPhase, TypeOK', \A b \in Archives : Kept(b), ~IntentLost,
         NEW a \in Archives, Evolves(a) \/ phase2'[a] = phase2[a] \/ phase2'[a].pc = "off"
  PROVE  Coverage(a)'
<1>0. TypeOK /\ Tidy(a) /\ Coverage(a)
  BY DEF IInv, SecondPhase
<1>1. ASSUME phase2'[a].pc \in Prepared
      PROVE  Rolled(a, phase2[a].from, phase2[a].absorbed)'
  <2>1. CASE Prepare(a)
    <3> DEFINE f == Least(Replay(a) \cup {a})
               r == Replay(a)
    <3>1. Rolled(a, f, r) /\ phase2'[a].from = f /\ phase2'[a].absorbed = r
      BY <1>0, <2>1, PrepareRolls, PrepareFields
    <3>2. ~Untouched(a)
      BY <2>1 DEF Prepare, Untouched
    <3> HIDE DEF f, r
    <3>3. f <= a /\ \A b \in 1 .. a - 1 : raw'[b] # {} => Covered(b)' \/ b \in r
      BY <3>1, <3>2, RolledStays
    <3> QED
      BY <3>1, <3>3 DEF Rolled
  <2>2. CASE ~Prepare(a)
    <3>1. /\ phase2[a].pc \in Prepared /\ phase2'[a].from = phase2[a].from
          /\ phase2'[a].absorbed = phase2[a].absorbed
      BY <1>1, <2>2 DEF Evolves, Prepared
    <3>2. Rolled(a, phase2[a].from, phase2[a].absorbed) /\ ~Untouched(a)
      BY <1>0, <3>1 DEF Coverage, Untouched, Prepared
    <3> QED
      BY <3>1, <3>2, RolledStays DEF Rolled
  <2> QED
    BY <2>1, <2>2
<1>2. ASSUME done'[a].on PROVE Rolled(a, done[a].from, done[a].absorbed)'
  <2>1. CASE done[a].on
    <3>1. done'[a] = done[a] /\ ~Untouched(a) /\ Rolled(a, done[a].from, done[a].absorbed)
      BY <1>0, <2>1 DEF Kept, Untouched, Coverage
    <3> QED
      BY <3>1, RolledStays DEF Rolled
  <2>2. CASE ~done[a].on
    <3>1. WriteDone(a)
      BY <1>2, <2>2 DEF Kept
    <3>2. /\ phase2[a].pc = "done" /\ done'[a].from = phase2[a].from
          /\ done'[a].absorbed = phase2[a].absorbed
      BY <1>0, <3>1, WriteDoneFields
    <3>3. Rolled(a, phase2[a].from, phase2[a].absorbed) /\ ~Untouched(a)
      BY <1>0, <3>2 DEF Coverage, Untouched, Prepared
    <3> QED
      BY <3>2, <3>3, RolledStays DEF Rolled
  <2> QED
    BY <2>1, <2>2
<1> QED
  BY <1>1, <1>2 DEF Coverage

(* Handlers work on archived messages.                                      *)
LEMMA SourceHandler ==
  ASSUME TypeOK, SecondPhase, UNCHANGED raw, NEW a \in Archives, Evolves(a)
  PROVE  Source(a)'
<1>1. RawUpTo(a)' = RawUpTo(a) /\ Source(a) /\ Tidy(a)
  BY DEF RawUpTo, SecondPhase
<1>2. ASSUME NEW d \in Replay(a) \cup {a}
      PROVE  raw[d] \subseteq RawUpTo(a) /\ d \in Archives /\ RawUpTo(d) \subseteq RawUpTo(a)
  <2>1. d \in 1 .. a /\ d \in Archives /\ d <= a /\ a \in Nat
    BY BoundsAssumption DEF Replay, Archives
  <2>2. 1 .. d \subseteq 1 .. a
    BY <2>1
  <2> QED
    BY <2>1, <2>2 DEF RawUpTo
<1>3. phase2'[a].input \subseteq RawUpTo(a)
  <2>1. CASE Prepare(a)
    <3>1. phase2'[a].input = Input(a)
      BY <1>1, <2>1, PrepareFields
    <3> QED
      BY <1>2, <3>1 DEF Input
  <2>2. CASE ~Prepare(a)
    BY <1>1, <2>2 DEF Evolves, Source
  <2> QED
    BY <2>1, <2>2
<1>4. ASSUME NEW s \in MemorySteps PROVE progress'[a][s] \subseteq RawUpTo(a)
  BY <1>1 DEF Evolves, Source
<1>5. ASSUME NEW s \in MemorySteps PROVE phase2'[a].steps[s] \subseteq RawUpTo(a)
  <2>1. CASE Prepare(a)
    <3>1. phase2'[a].steps[s] = UNION {progress[d][s] : d \in Replay(a) \cup {a}}
      <4>1. phase2'[a].steps = KnownSteps(a)
        BY <1>1, <2>1, PrepareFields
      <4> QED
        BY <4>1 DEF KnownSteps
    <3>2. ASSUME NEW d \in Replay(a) \cup {a} PROVE progress[d][s] \subseteq RawUpTo(a)
      <4>1. d \in Archives /\ RawUpTo(d) \subseteq RawUpTo(a)
        BY <1>2
      <4>2. progress[d][s] \subseteq RawUpTo(d)
        BY <4>1 DEF SecondPhase, Source
      <4> QED
        BY <4>1, <4>2
    <3> QED
      BY <3>1, <3>2
  <2>2. CASE phase2'[a].steps = NoSteps
    BY <2>2 DEF NoSteps
  <2>3. CASE ~Prepare(a) /\ phase2'[a].steps # NoSteps
    <3>1. phase2'[a].steps[s] \subseteq phase2[a].steps[s] \cup phase2[a].input
      BY <2>3 DEF Evolves
    <3> QED
      BY <1>1, <3>1 DEF Source
  <2> QED
    BY <2>1, <2>2, <2>3
<1> QED
  BY <1>1, <1>3, <1>4, <1>5 DEF Source

(* A handler that goes on has its message with the worker.                  *)
LEMMA RunningHandler ==
  ASSUME TypeOK, NEW a \in Archives, Tidy(a), Handles(a), phase2'[a].pc # "off"
  PROVE  job'[a] = "running"
<1>1. CASE Fetch(a)
  BY <1>1 DEF Fetch, TypeOK
<1>2. CASE Drops(a)
  BY <1>2, NoPhase2Fields DEF Drops
<1>3. CASE ReportFails(a) /\ ~Drops(a)
  <2>1. phase2[a].pc = "complete"
    BY <1>3, EndDrops
  <2> QED
    BY <1>3, <2>1 DEF ReportFails, Tidy
<1>4. CASE phase2[a].todo # {} \/ phase2[a].unsaved # {}
  BY <1>4 DEF Tidy, Handles, HandlerStep, HandlerFault, MemoryStep, Begin, EnsureReady,
     WaitReconciles, Prepare, PrepareRaises, Summary, Extract, Record, Gathered, MergeMeta,
     WriteDone, WriteFailed, Report, Ack, EnsureLegacy, EnsureUnverified, WaitUnverified,
     LockTimeout, SummaryEmpty, StepFails, ReportFails, HandlerRaises, Fetch
<1>5. CASE HandlerStep(a) /\ ~Drops(a)
  <2>1. ~Ack(a)
    <3>1. Ack(a) => Drops(a)
      BY EndDrops
    <3> QED
      BY <1>5, <3>1
  <2>2. UNCHANGED job
    BY <1>5, <2>1 DEF HandlerStep, MemoryStep, Begin, EnsureReady, WaitReconciles, Prepare,
       PrepareRaises, Summary, Extract, Record, Gathered, MergeMeta, WriteDone, WriteFailed, Report
  <2>3. phase2[a].pc # "off"
    BY <1>5, <2>1 DEF HandlerStep, MemoryStep, Begin, EnsureReady, WaitReconciles, Prepare, Tidy,
       PrepareRaises, Summary, Extract, Record, Gathered, MergeMeta, WriteDone, WriteFailed, Report
  <2> QED
    BY <2>2, <2>3 DEF Tidy
<1>6. CASE HandlerFault(a) /\ ~Drops(a) /\ ~ReportFails(a)
  <2>1. ~HandlerRaises(a)
    <3>1. HandlerRaises(a) => Drops(a)
      BY EndDrops
    <3> QED
      BY <1>6, <3>1
  <2>2. UNCHANGED job
    BY <1>6, <2>1 DEF HandlerFault, EnsureLegacy, EnsureUnverified, WaitUnverified, Unverified,
       LockTimeout, SummaryEmpty, StepFails
  <2>3. phase2[a].pc # "off"
    BY <1>6, <2>1 DEF HandlerFault, EnsureLegacy, EnsureUnverified, WaitUnverified, Unverified,
       LockTimeout, SummaryEmpty, StepFails, Tidy
  <2> QED
    BY <2>2, <2>3 DEF Tidy
<1> QED
  BY <1>1, <1>2, <1>3, <1>5, <1>6 DEF Handles

LEMMA TidyHandler ==
  ASSUME TypeOK, NEW a \in Archives, Tidy(a), Handles(a)
  PROVE  Tidy(a)'
<1> DEFINE Neat == /\ phase2'[a].pc \in Early => phase2'[a].steps = NoSteps
                   /\ phase2'[a].pc # "run" => phase2'[a].todo = {} /\ phase2'[a].unsaved = {}
                   /\ phase2'[a].pc \in {"meta", "done"} => phase2'[a].bad = FALSE
<1>1. Neat
  <2>1. CASE UNCHANGED phase2
    BY <2>1 DEF Tidy, Early
  <2>2. CASE Fresh(a)
    BY <2>2 DEF Fresh, Prepared
  <2>3. CASE Moves(a)
    BY <2>3 DEF Moves, SameWork
  <2>4. CASE Drops(a)
    BY <2>4, NoPhase2Fields DEF Drops
  <2>5. CASE phase2'[a].pc = "run"
    BY <2>5 DEF Early
  <2>6. CASE WriteDone(a)
    <3>1. /\ phase2[a].pc = "done" /\ phase2'[a].pc = "complete" /\ SameWork(a)
      BY <2>6, WriteDoneFields
    <3> QED
      BY <3>1 DEF Tidy, Early, SameWork
  <2>7. CASE WriteFailed(a)
    <3>1. /\ phase2[a].pc = "mark" /\ phase2'[a].pc = "giveup" /\ SameWork(a)
      BY <2>7, WriteFailedFields
    <3> QED
      BY <3>1 DEF Tidy, Early, SameWork
  <2>8. Trims(a) \/ Prepare(a) \/ (\E s \in MemorySteps : Extract(a, s) \/ Record(a, s)) =>
          phase2'[a].pc = "run"
    BY PrepareFields, ExtractFields, RecordFields DEF Trims
  <2> HIDE DEF Neat
  <2> QED
    BY <2>1, <2>2, <2>3, <2>4, <2>5, <2>6, <2>7, <2>8, HandlerShape
<1>2. phase2'[a].pc # "off" => job'[a] = "running"
  BY RunningHandler
<1> QED
  BY <1>1, <1>2 DEF Tidy, Early

(* It has waited for all that came before when it takes up steps.           *)
LEMMA StartedHandler ==
  ASSUME IInv, OrderInv, SecondPhase, Calm, \A b \in Archives : Kept(b),
         NEW a \in Archives, Handles(a), Evolves(a)
  PROVE  Started(a)'
<1> SUFFICES ASSUME HasSteps(a)' PROVE PreviousEnded(a)' /\ job'[a] # "none"
  BY DEF Started
<1>1. TypeOK /\ Tidy(a) /\ Started(a)
  BY DEF IInv, SecondPhase
<1>2. job[a] # "none"
  BY <1>1, ActorIsEnqueued
<1>3. PreviousEnded(a)
  <2>1. CASE Prepare(a)
    BY <2>1 DEF Prepare
  <2>2. CASE phase2[a].pc \in Prepared
    BY <2>2 DEF OrderInv, EarlierEnded, Past
  <2>3. CASE ~Prepare(a) /\ phase2[a].pc \notin Prepared
    <3>1. phase2'[a].steps = NoSteps \/ phase2'[a].steps = phase2[a].steps
      BY <2>3 DEF Evolves
    <3>2. PICK s \in MemorySteps : progress'[a][s] # {} \/ phase2'[a].steps[s] # {}
      BY DEF HasSteps
    <3>3. progress'[a][s] \subseteq progress[a][s] \cup phase2[a].steps[s]
      BY DEF Evolves
    <3>4. NoSteps[s] = {}
      BY DEF NoSteps
    <3>5. progress[a][s] # {} \/ phase2[a].steps[s] # {}
      BY <3>1, <3>2, <3>3, <3>4
    <3> QED
      BY <1>1, <3>5 DEF Started, HasSteps
  <2> QED
    BY <2>1, <2>2, <2>3
<1> QED
  BY <1>1, <1>2, <1>3, StillEnded, JobsStay

(* What it knows is on disk or waiting to be recorded.                      *)
LEMMA RecordedHandler ==
  ASSUME TypeOK, NEW a \in Archives, Tidy(a), Recorded(a), Handles(a), ProgressGrows
  PROVE  Recorded(a)'
<1> SUFFICES ASSUME phase2'[a].pc \in Prepared, NEW t \in MemorySteps
             PROVE  /\ progress'[a][t] \subseteq phase2'[a].steps[t]
                    /\ phase2'[a].bad = FALSE /\ t \notin phase2'[a].unsaved =>
                         phase2'[a].steps[t] \subseteq OnDisk(a, t)'
  BY DEF Recorded
<1> DEFINE Goal == /\ progress'[a][t] \subseteq phase2'[a].steps[t]
                   /\ phase2'[a].bad = FALSE /\ t \notin phase2'[a].unsaved =>
                        phase2'[a].steps[t] \subseteq OnDisk(a, t)'
<1>1. ASSUME phase2[a].pc \in Prepared, Quiet, SameData(a),
             \/ phase2'[a].bad = TRUE
             \/ phase2'[a].bad = phase2[a].bad /\ phase2'[a].unsaved = phase2[a].unsaved
      PROVE  Goal
  <2>1. OnDisk(a, t)' = OnDisk(a, t)
    BY <1>1 DEF OnDisk, Quiet, SameData
  <2> QED
    BY <1>1, <2>1 DEF Recorded, Quiet, SameData
<1>2. ASSUME UNCHANGED phase2 /\ Quiet PROVE Goal
  BY <1>1, <1>2 DEF SameData
<1>3. ASSUME Moves(a) PROVE Goal
  BY <1>1, <1>3 DEF Moves, Prepared, SameWork
<1>4. ASSUME Trims(a) PROVE Goal
  BY <1>1, <1>4 DEF Trims, Prepared
<1>5. ASSUME Prepare(a) PROVE Goal
  <2>1. /\ UNCHANGED progress /\ phase2'[a].absorbed = Replay(a)
        /\ phase2'[a].steps = KnownSteps(a)
    BY <1>5, PrepareFields DEF Quiet
  <2>2. phase2'[a].steps[t] = UNION {progress[d][t] : d \in Replay(a) \cup {a}}
    BY <2>1 DEF KnownSteps
  <2>3. OnDisk(a, t)' = UNION {progress[d][t] : d \in Replay(a) \cup {a}}
    BY <2>1 DEF OnDisk
  <2> QED
    BY <2>1, <2>2, <2>3
<1>6. ASSUME NEW s \in MemorySteps, Extract(a, s) PROVE Goal
  <2>1. /\ UNCHANGED progress /\ phase2'[a].absorbed = phase2[a].absorbed
        /\ phase2'[a].steps = [phase2[a].steps EXCEPT ![s] = @ \cup phase2[a].input]
        /\ phase2'[a].unsaved = phase2[a].unsaved \cup {s} /\ phase2'[a].bad = phase2[a].bad
        /\ phase2[a].pc = "run"
    BY <1>6, ExtractFields
  <2>2. OnDisk(a, t)' = OnDisk(a, t)
    BY <2>1 DEF OnDisk
  <2>3. phase2[a].steps \in Steps
    BY DEF TypeOK, Phase2s
  <2>4. phase2[a].steps[t] \subseteq phase2'[a].steps[t]
    BY <2>1, <2>3 DEF Steps
  <2>5. t # s => phase2'[a].steps[t] = phase2[a].steps[t]
    BY <2>1, <2>3 DEF Steps
  <2> QED
    BY <2>1, <2>2, <2>4, <2>5 DEF Recorded, Prepared
<1>7. ASSUME NEW s \in MemorySteps, Record(a, s) PROVE Goal
  <2>1. SameData(a) /\ progress'[a] = phase2[a].steps
    BY <1>7, RecordFields DEF TypeOK
  <2>2. progress'[a][t] \subseteq OnDisk(a, t)'
    BY DEF OnDisk
  <2> QED
    BY <2>1, <2>2 DEF SameData
<1>8. Fresh(a) \/ Drops(a) \/ WriteDone(a) \/ WriteFailed(a) => FALSE
  BY NoPhase2Fields, WriteDoneFields, WriteFailedFields DEF Fresh, Drops, Prepared
<1> HIDE DEF Goal
<1>9. Goal
  <2>1. (\E s \in MemorySteps : Extract(a, s) \/ Record(a, s)) => Goal
    BY <1>6, <1>7
  <2> QED
    BY <1>2, <1>3, <1>4, <1>5, <1>8, <2>1, HandlerShape
<1> QED
  BY <1>9 DEF Goal

(* A handler that another step leaves alone, or that a crash ends.          *)
LEMMA SecondLeft ==
  ASSUME IInv, SecondPhase, Calm, \A b \in Archives : Kept(b), ProgressGrows,
         NEW c \in Archives, phase2'[c] = phase2[c] \/ phase2'[c] = NoPhase2,
         progress'[c] = progress[c], phase2'[c].pc # "off" => job'[c] = job[c]
  PROVE  Source(c)' /\ Tidy(c)' /\ Started(c)' /\ Recorded(c)'
<1>0. TypeOK /\ Source(c) /\ Tidy(c) /\ Started(c) /\ Recorded(c)
  BY DEF IInv, SecondPhase
<1>1. RawUpTo(c) \subseteq RawUpTo(c)'
  BY RawGrows
<1>2. CASE phase2'[c] = phase2[c]
  <2>1. Source(c)'
    BY <1>0, <1>1, <1>2 DEF Source
  <2>2. Tidy(c)'
    BY <1>0, <1>2 DEF Tidy
  <2>3. Started(c)'
    BY <1>0, <1>2, StillEnded, JobsStay DEF Started, HasSteps
  <2>4. Recorded(c)'
    <3>1. ASSUME phase2[c].pc \in Prepared, NEW s \in MemorySteps
          PROVE  OnDisk(c, s) \subseteq OnDisk(c, s)'
      <4>1. phase2[c].absorbed \subseteq Archives
        BY <1>0 DEF TypeOK, Phase2s
      <4>2. phase2'[c].absorbed = phase2[c].absorbed
        BY <1>2
      <4>3. \A d \in phase2[c].absorbed \cup {c} : progress[d][s] \subseteq progress'[d][s]
        BY <4>1 DEF ProgressGrows
      <4> QED
        BY <4>2, <4>3 DEF OnDisk
    <3>2. ASSUME phase2'[c].pc \in Prepared, NEW s \in MemorySteps
          PROVE  /\ progress'[c][s] \subseteq phase2'[c].steps[s]
                 /\ phase2'[c].bad = FALSE /\ s \notin phase2'[c].unsaved =>
                      phase2'[c].steps[s] \subseteq OnDisk(c, s)'
      BY <1>0, <1>2, <3>1, <3>2 DEF Recorded
    <3> QED
      BY <3>2 DEF Recorded
  <2> QED
    BY <2>1, <2>2, <2>3, <2>4
<1>3. CASE phase2'[c] = NoPhase2
  <2>0. \A s \in MemorySteps : NoSteps[s] = {}
    BY DEF NoSteps
  <2>1. Source(c)'
    BY <1>0, <1>1, <1>3, <2>0, NoPhase2Fields DEF Source
  <2>2. Tidy(c)'
    BY <1>3, NoPhase2Fields DEF Tidy
  <2>3. Started(c)'
    BY <1>0, <1>3, <2>0, StillEnded, JobsStay, NoPhase2Fields DEF Started, HasSteps
  <2>4. Recorded(c)'
    BY <1>3, NoPhase2Fields DEF Recorded, Prepared
  <2> QED
    BY <2>1, <2>2, <2>3, <2>4
<1> QED
  BY <1>2, <1>3

(* What a commit leaves of the second phase.                                *)
LEMMA CommitLeaves ==
  ASSUME IInv, FirstPhase, SecondPhase, CommitMoves
  PROVE  /\ UNCHANGED <<phase2, progress, done, times>>
         /\ interrupted => interrupted'
         /\ \A c \in Archives : phase2[c].pc # "off" => job'[c] = job[c]
<1>1. UNCHANGED <<phase2, progress, done, times>>
  BY DEF CommitMoves, Append, CommitBegin, CommitStep, MakeDir, WritePhase1Marker, WriteRaw,
     EnqueueJob, CreateTask, RewriteRoot, PublishReady, WriteCommitFailed, CommitFails,
     CommitFailedUnmarked
<1>3. interrupted => interrupted'
  <2>1. CASE WriteCommitFailed \/ CommitFailedUnmarked
    <3>1. interrupted' = (interrupted \/ Unfinished)
      BY <2>1 DEF WriteCommitFailed, CommitFailedUnmarked
    <3> QED
      BY <3>1
  <2>2. CASE ~WriteCommitFailed /\ ~CommitFailedUnmarked
    <3>1. UNCHANGED interrupted
      BY <2>2 DEF CommitMoves, Append, CommitBegin, CommitStep, MakeDir, WritePhase1Marker,
         WriteRaw, EnqueueJob, CreateTask, RewriteRoot, PublishReady, CommitFails
    <3> QED
      BY <3>1
  <2> QED
    BY <2>1, <2>2
<1>2. ASSUME NEW c \in Archives, phase2[c].pc # "off" PROVE job'[c] = job[c]
  <2>1. CASE EnqueueJob
    <3>1. job[commit.arch] = "none" /\ job[c] = "running"
      BY <1>2, <2>1 DEF EnqueueJob, FirstPhase, CommitIntent, SecondPhase, Tidy
    <3> QED
      BY <2>1, <3>1 DEF EnqueueJob, IInv, TypeOK
  <2>2. CASE ~EnqueueJob
    <3>1. UNCHANGED job
      BY <2>2 DEF CommitMoves, Append, CommitBegin, CommitStep, MakeDir, WritePhase1Marker,
         WriteRaw, CreateTask, RewriteRoot, PublishReady, WriteCommitFailed, CommitFails,
         CommitFailedUnmarked
    <3> QED
      BY <3>1
  <2> QED
    BY <2>1, <2>2
<1> QED
  BY <1>1, <1>2, <1>3

(* Every step keeps what the invariant says of the second phase.            *)
LEMMA SecondStep ==
  ASSUME IInv, OrderInv, FirstPhase, SecondPhase, Calm
  PROVE  SecondPhase' /\ ProgressGrows
<1>1. TypeOK /\ TypeOK'
  BY TypeStep, CalmIsNext DEF IInv
<1>2. faults \subseteq faults' /\ \A b \in Archives : Kept(b)
  BY StepKeeps
<1> DEFINE Second(c) == Source(c)' /\ Tidy(c)' /\ Started(c)' /\ Recorded(c)'
<1>3. ASSUME ProgressGrows,
             \A c \in Archives : Second(c) /\ (~IntentLost' => Coverage(c)')
      PROVE  SecondPhase' /\ ProgressGrows
  BY <1>3 DEF SecondPhase
<1>4. CASE CommitMoves
  <2>1. /\ UNCHANGED <<phase2, progress, done>>
        /\ \A c \in Archives : phase2[c].pc # "off" => job'[c] = job[c]
    BY <1>4, CommitLeaves
  <2>2. ProgressGrows
    BY <2>1 DEF ProgressGrows
  <2>3. ASSUME NEW c \in Archives PROVE Second(c)
    BY <1>2, <2>1, <2>2, SecondLeft
  <2>4. ASSUME NEW c \in Archives, ~IntentLost' PROVE Coverage(c)'
    BY <1>1, <1>2, <2>1, <2>4, CoverageStep DEF IntentLost
  <2> HIDE DEF Second
  <2> QED
    BY <1>3, <2>2, <2>3, <2>4
<1>5. ASSUME NEW a \in Archives, Handles(a) PROVE SecondPhase' /\ ProgressGrows
  <2>0. Tidy(a) /\ Recorded(a)
    BY DEF SecondPhase
  <2>1. Evolves(a)
    BY <1>1, <1>5, <2>0, HandlerEvolves
  <2>2. ProgressGrows
    BY <2>1, HandlerRecords
  <2>3. UNCHANGED raw /\ \A c \in Archives \ {a} : job'[c] = job[c]
    BY <1>1, <1>5, HandlerLeaves
  <2>4. Second(a)
    BY <1>1, <1>2, <1>5, <2>0, <2>1, <2>2, <2>3, SourceHandler, TidyHandler, StartedHandler,
       RecordedHandler
  <2>5. ASSUME NEW c \in Archives \ {a} PROVE Second(c)
    <3>1. phase2'[c] = phase2[c] /\ progress'[c] = progress[c]
      BY <2>1 DEF Evolves, Others
    <3> QED
      BY <1>2, <2>2, <2>3, <3>1, SecondLeft
  <2>6. ASSUME NEW c \in Archives, ~IntentLost' PROVE Coverage(c)'
    <3>1. Evolves(c) \/ phase2'[c] = phase2[c]
      <4>1. CASE c = a
        BY <2>1, <4>1
      <4>2. CASE c # a
        BY <2>1, <4>2 DEF Evolves, Others
      <4> QED
        BY <4>1, <4>2
    <3>2. ~IntentLost
      BY <1>2, <2>6 DEF IntentLost
    <3> QED
      BY <1>1, <1>2, <3>1, <3>2, CoverageStep
  <2> HIDE DEF Second
  <2> QED
    BY <1>3, <2>2, <2>4, <2>5, <2>6
<1>6. CASE Crash \/ UNCHANGED vars
  <2>1. UNCHANGED progress
    BY <1>6 DEF Crash, vars
  <2>2. ASSUME NEW c \in Archives
        PROVE  /\ phase2'[c] = phase2[c] \/ phase2'[c] = NoPhase2
               /\ phase2'[c].pc # "off" => job'[c] = job[c]
    <3>1. CASE Crash
      BY <3>1, NoPhase2Fields DEF Crash
    <3>2. CASE UNCHANGED vars
      BY <3>2 DEF vars
    <3> QED
      BY <1>6, <3>1, <3>2
  <2>3. ProgressGrows
    BY <2>1 DEF ProgressGrows
  <2>4. ASSUME NEW c \in Archives PROVE Second(c)
    BY <1>2, <2>1, <2>2, <2>3, SecondLeft
  <2>5. ASSUME NEW c \in Archives, ~IntentLost' PROVE Coverage(c)'
    <3>1. phase2'[c] = phase2[c] \/ phase2'[c].pc = "off"
      BY <2>2, NoPhase2Fields
    <3> QED
      BY <1>1, <1>2, <2>5, <3>1, CoverageStep DEF IntentLost
  <2> HIDE DEF Second
  <2> QED
    BY <1>3, <2>3, <2>4, <2>5
<1>7. CommitMoves \/ (\E a \in Archives : Handles(a)) \/ Crash \/ UNCHANGED vars
  BY DEF Calm
<1> QED
  BY <1>4, <1>5, <1>6, <1>7
-----------------------------------------------------------------------------
(* The memory steps.                                                        *)

(* Only a memory step counts, and none of them is undone.                   *)
LEMMA TimesStay ==
  ASSUME Calm
  PROVE  UNCHANGED times \/ \E a \in Archives, s \in MemorySteps : Extract(a, s)
<1>1. CASE CommitMoves
  BY <1>1 DEF CommitMoves, Append, CommitBegin, CommitStep, MakeDir, WritePhase1Marker,
     WriteRaw, EnqueueJob, CreateTask, RewriteRoot, PublishReady, WriteCommitFailed,
     CommitFails, CommitFailedUnmarked
<1>2. ASSUME NEW a \in Archives, Fetch(a) \/ HandlerFault(a)
      PROVE  UNCHANGED times
  BY <1>2 DEF Fetch, HandlerFault, EnsureLegacy, EnsureUnverified, WaitUnverified, Unverified,
     LockTimeout, SummaryEmpty, StepFails, ReportFails, HandlerRaises
<1>3. ASSUME NEW a \in Archives, HandlerStep(a), ~\E s \in MemorySteps : Extract(a, s)
      PROVE  UNCHANGED times
  BY <1>3 DEF HandlerStep, MemoryStep, Begin, EnsureReady, WaitReconciles, Prepare, PrepareRaises,
     Summary, Record, Gathered, MergeMeta, WriteDone, WriteFailed, Report, Ack
<1>4. CASE Crash \/ UNCHANGED vars
  BY <1>4 DEF Crash, vars
<1> QED
  BY <1>1, <1>2, <1>3, <1>4 DEF Calm, Handles

(* A directory stays.                                                       *)
LEMMA ExistsStays ==
  ASSUME TypeOK, CommitMoves \/ (\E a \in Archives : Handles(a)) \/ Crash \/ UNCHANGED vars,
         NEW c \in Archives, phase1[c].status # "none"
  PROVE  phase1'[c].status # "none"
<1>0. phase1 \in [Archives -> Intents] /\ phase1[c] \in Intents
  BY DEF TypeOK
<1>1. CASE WritePhase1Marker
  <2> DEFINE i == [status |-> "preparing", out |-> commit.out, keep |-> commit.keep]
  <2>1. phase1' = [phase1 EXCEPT ![commit.arch] = i] /\ i.status = "preparing"
    BY <1>1 DEF WritePhase1Marker
  <2> HIDE DEF i
  <2> QED
    BY <1>0, <2>1
<1>2. CASE PublishReady
  <2>1. phase1' = [phase1 EXCEPT ![commit.arch].status = "ready"]
    BY <1>2 DEF PublishReady
  <2> QED
    BY <1>0, <2>1 DEF Intents
<1>7. CASE MakeDir
  BY <1>0, <1>7 DEF MakeDir, BareDir
<1>3. CASE CommitMoves /\ ~MakeDir /\ ~WritePhase1Marker /\ ~PublishReady
  <2>1. UNCHANGED phase1
    BY <1>3 DEF CommitMoves, Append, CommitBegin, CommitStep, WriteRaw, EnqueueJob, CreateTask,
       RewriteRoot, WriteCommitFailed, CommitFails, CommitFailedUnmarked
  <2> QED
    BY <2>1
<1>4. ASSUME NEW a \in Archives, Handles(a) PROVE phase1'[c].status # "none"
  <2>1. \/ UNCHANGED phase1
        \/ \E b \in Archives : phase1' = [phase1 EXCEPT ![b].status = "ready"]
    BY <1>4, HandlerLeaves
  <2> QED
    BY <1>0, <2>1 DEF Intents
<1>5. CASE Crash \/ UNCHANGED vars
  <2>1. UNCHANGED phase1
    BY <1>5 DEF Crash, vars
  <2> QED
    BY <2>1
<1> QED
  BY <1>1, <1>2, <1>3, <1>4, <1>5, <1>7

(* As long as its handler is at work, an archive fails by its handler.      *)
LEMMA FailsItself ==
  ASSUME IInv, OpenInv, ~IntentLost, Calm, NEW c \in Archives,
         phase2[c].pc \in Working, failed[c] = "none", failed'[c] # "none"
  PROVE  WriteFailed(c)
<1>0. TypeOK /\ phase1[c].status = "ready" /\ failed \in [Archives -> Causes \cup {"none"}]
  BY DEF IInv, OpenInv, ReadyFirst, TypeOK
<1>1. CASE CommitMoves
  <2>1. CASE WriteCommitFailed
    <3>1. failed' = [failed EXCEPT ![commit.arch] = "phase1"] /\ commit.pc = "fail"
      BY <2>1 DEF WriteCommitFailed
    <3>2. c = commit.arch
      BY <1>0, <3>1
    <3> QED
      BY <1>0, <3>1, <3>2 DEF OpenInv, CommitIsOpen
  <2>2. CASE ~WriteCommitFailed
    <3>1. UNCHANGED failed
      BY <1>1, <2>2 DEF CommitMoves, Append, CommitBegin, CommitStep, MakeDir,
         WritePhase1Marker, WriteRaw, EnqueueJob, CreateTask, RewriteRoot, PublishReady,
         CommitFails, CommitFailedUnmarked
    <3> QED
      BY <3>1
  <2> QED
    BY <2>1, <2>2
<1>2. ASSUME NEW a \in Archives, EnsureReady(a) \/ EnsureUnverified(a) PROVE FALSE
  <2>1. phase2[a].pc = "ensure" /\ (UNCHANGED failed \/ failed' = [failed EXCEPT ![a] = "recovery"])
    BY <1>2 DEF EnsureReady, Reconcile, EnsureUnverified, Unverified
  <2>2. c # a
    BY <2>1 DEF Working
  <2> QED
    BY <1>0, <2>1, <2>2
<1>3. ASSUME NEW a \in Archives, WaitReconciles(a) \/ WaitUnverified(a) PROVE FALSE
  <2>1. PICK b \in 1 .. a - 1 : /\ phase1[b].status = "preparing"
                                /\ Reconcile(b) \/ Unverified(b)
    BY <1>3 DEF WaitReconciles, WaitUnverified
  <2>2. UNCHANGED failed \/ failed' = [failed EXCEPT ![b] = "recovery"]
    BY <2>1 DEF Reconcile, Unverified
  <2>3. c # b
    BY <1>0, <2>1
  <2> QED
    BY <1>0, <2>2, <2>3
<1>4. ASSUME NEW a \in Archives, WriteFailed(a) PROVE WriteFailed(c)
  <2>1. failed' = [failed EXCEPT ![a] = phase2[a].cause]
    BY <1>4 DEF WriteFailed
  <2>2. c = a
    BY <1>0, <2>1
  <2> QED
    BY <1>4, <2>2
<1>5. ASSUME NEW a \in Archives, Handles(a), ~EnsureReady(a), ~WaitReconciles(a), ~WriteFailed(a),
             ~EnsureUnverified(a), ~WaitUnverified(a)
      PROVE  FALSE
  <2>1. UNCHANGED failed
    <3>1. CASE Fetch(a) \/ HandlerFault(a)
      BY <1>5, <3>1 DEF Fetch, HandlerFault, EnsureLegacy, LockTimeout, SummaryEmpty, StepFails,
         ReportFails, HandlerRaises
    <3>2. CASE HandlerStep(a)
      BY <1>5, <3>2 DEF HandlerStep, MemoryStep, Begin, Prepare, PrepareRaises, Summary, Extract,
         Record, Gathered, MergeMeta, WriteDone, Report, Ack
    <3> QED
      BY <1>5, <3>1, <3>2 DEF Handles
  <2> QED
    BY <2>1
<1>6. CASE Crash \/ UNCHANGED vars
  <2>1. UNCHANGED failed
    BY <1>6 DEF Crash, vars
  <2> QED
    BY <2>1
<1>7. CommitMoves \/ (\E a \in Archives : Handles(a)) \/ Crash \/ UNCHANGED vars
  BY DEF Calm
<1> QED
  BY <1>1, <1>2, <1>3, <1>4, <1>5, <1>6, <1>7

(* A handler that holds steps goes on holding them, marks its archive, or   *)
(* ends with all of them on disk, unless that counts as interrupted.        *)
LEMMA HolderMoves ==
  ASSUME IInv, FirstPhase, SecondPhase, Calm, NEW c \in Archives, phase2[c].pc \in Holding
  PROVE  \/ WriteDone(c) \/ WriteFailed(c)
         \/ interrupted' \/ ~Unrecorded(c)
         \/ /\ phase2'[c].pc \in Holding
            /\ \A s \in MemorySteps : phase2[c].steps[s] \subseteq phase2'[c].steps[s]
<1>0. TypeOK /\ Tidy(c) /\ Recorded(c)
  BY DEF IInv, SecondPhase
<1>1. CASE phase2'[c] = phase2[c]
  BY <1>1
<1>2. CASE CommitMoves
  BY <1>1, <1>2, CommitLeaves
<1>3. ASSUME NEW a \in Archives, a # c, Handles(a) PROVE phase2'[c] = phase2[c]
  <2>1. Tidy(a) /\ Recorded(a)
    BY DEF SecondPhase
  <2>2. Evolves(a)
    BY <1>0, <1>3, <2>1, HandlerEvolves
  <2> QED
    BY <1>3, <2>2 DEF Evolves, Others
<1>4. CASE Handles(c)
  <2>1. CASE UNCHANGED phase2
    BY <1>1, <2>1
  <2>2. ~Fresh(c) /\ ~Prepare(c)
    BY DEF Fresh, Prepare, Holding, Early
  <2>3. CASE Moves(c)
    BY <2>3 DEF Moves, SameData
  <2>4. CASE Trims(c)
    BY <2>4 DEF Trims, SameData, Holding
  <2>5. CASE Drops(c)
    BY <2>5 DEF Drops
  <2>6. CASE \E s \in MemorySteps : Extract(c, s) \/ Record(c, s)
    <3>1. phase2'[c].pc = "run" /\ ~Prepare(c)
      BY <1>0, <2>2, <2>6, ExtractFields, RecordFields
    <3>2. Evolves(c)
      BY <1>0, <1>4, HandlerEvolves
    <3> QED
      BY <3>1, <3>2 DEF Evolves, Prepared, Holding
  <2> QED
    BY <1>0, <1>4, <2>1, <2>2, <2>3, <2>4, <2>5, <2>6, HandlerShape
<1>5. CASE Crash
  <2>1. interrupted' = \/ interrupted
                       \/ Unfinished
                       \/ \E a \in Archives : Unrecorded(a)
    BY <1>5 DEF Crash
  <2> QED
    BY <2>1
<1>6. CASE UNCHANGED vars
  BY <1>1, <1>6 DEF vars
<1>7. CommitMoves \/ (\E a \in Archives : Handles(a)) \/ Crash \/ UNCHANGED vars
  BY DEF Calm
<1> QED
  BY <1>1, <1>2, <1>3, <1>4, <1>5, <1>6, <1>7

(* What is on disk of a message is with its archive or a later one.         *)
LEMMA OnDiskStored ==
  ASSUME IInv, FirstPhase, SecondPhase, ~interrupted, NEW c \in Archives,
         NEW m \in Msgs \ Anchors, NEW s \in MemorySteps, m \in OnDisk(c, s),
         NEW b \in Archives, m \in raw[b]
  PROVE  \E d \in Archives : b <= d /\ m \in progress[d][s]
<1>1. phase2[c].absorbed \subseteq Archives
  BY DEF IInv, TypeOK, Phase2s
<1>2. PICK d \in Archives : m \in progress[d][s]
  BY <1>1 DEF OnDisk
<1>3. m \in RawUpTo(d)
  BY <1>2 DEF SecondPhase, Source
<1>4. PICK e \in 1 .. d : m \in raw[e]
  BY <1>3 DEF RawUpTo
<1>5. e \in Archives /\ e <= d
  BY BoundsAssumption DEF Archives
<1>6. e = b
  BY <1>4, <1>5 DEF FirstPhase, Homes, Home
<1> QED
  BY <1>2, <1>5, <1>6

(* Whatever the step, what went through a memory step stays stored, or a    *)
(* later archive is completed.                                              *)
LEMMA StoredStays ==
  ASSUME IInv, OrderInv, FirstPhase, SecondPhase, Calm, ~interrupted, ~interrupted',
         NEW m \in Msgs \ Anchors, NEW s \in MemorySteps, NEW b \in Archives, m \in raw[b],
         Passed(b) \/ Stored(m, s, b)
  PROVE  (Passed(b) \/ Stored(m, s, b))'
<1>1. \A d \in Archives : Kept(d)
  BY StepKeeps
<1>2. ProgressGrows
  BY SecondStep
<1>3. CASE Passed(b)
  BY <1>1, <1>3, PassedStays
<1>4. ASSUME NEW d \in Archives, b <= d, m \in progress'[d][s] PROVE Stored(m, s, b)'
  BY <1>4 DEF Stored
<1>5. ASSUME NEW d \in Archives, b <= d, m \in progress[d][s] PROVE Stored(m, s, b)'
  <2>1. m \in progress'[d][s]
    BY <1>2, <1>5 DEF ProgressGrows
  <2> QED
    BY <1>4, <1>5, <2>1
<1>6. ASSUME NEW c \in Archives, b <= c, Holds(c, m, s) PROVE Stored(m, s, b)'
  <2>1. /\ phase2[c].pc \in Holding /\ Pending(c) /\ m \in phase2[c].steps[s]
        /\ TypeOK /\ Tidy(c) /\ Recorded(c)
    BY <1>6 DEF Holds, IInv, SecondPhase
  <2>2. ASSUME m \in OnDisk(c, s) PROVE Stored(m, s, b)'
    BY <1>5, <2>2, OnDiskStored
  <2>3. CASE WriteDone(c)
    <3>1. phase2[c].pc = "done"
      BY <2>1, <2>3, WriteDoneFields
    <3>2. phase2[c].bad = FALSE /\ phase2[c].unsaved = {}
      BY <2>1, <3>1 DEF Tidy
    <3>3. phase2[c].steps[s] \subseteq OnDisk(c, s)
      BY <2>1, <3>1, <3>2 DEF Recorded, Prepared
    <3> QED
      BY <2>1, <2>2, <3>3
  <2>4. CASE WriteFailed(c)
    <3>1. progress'[c] = [t \in MemorySteps |-> progress[c][t] \cup phase2[c].steps[t]]
      BY <2>1, <2>4, WriteFailedFields
    <3>2. m \in progress'[c][s]
      BY <2>1, <3>1
    <3> QED
      BY <1>4, <1>6, <3>2
  <2>5. CASE ~Unrecorded(c)
    <3>1. phase2[c].steps[s] \subseteq OnDisk(c, s)
      BY <2>5 DEF Unrecorded, OnDisk
    <3> QED
      BY <2>1, <2>2, <3>1
  <2>6. ASSUME ~WriteDone(c), ~WriteFailed(c), phase2'[c].pc \in Holding,
               phase2[c].steps[s] \subseteq phase2'[c].steps[s]
        PROVE  Stored(m, s, b)'
    <3>1. ~IntentLost /\ OpenInv
      BY DEF FirstPhase, LossInterrupts, IntentLost, OrderInv
    <3>2. phase2[c].pc \in Working
      BY <2>1 DEF Holding, Working
    <3>3. phase1[c].status = "ready" /\ failed[c] = "none" /\ ~done[c].on
      BY <2>1, <3>1, <3>2 DEF OpenInv, ReadyFirst, Pending
    <3>4. failed'[c] = "none"
      BY <2>6, <3>1, <3>2, <3>3, FailsItself
    <3>5. phase1'[c].status # "none"
      <4>1. CommitMoves \/ (\E a \in Archives : Handles(a)) \/ Crash \/ UNCHANGED vars
        BY DEF Calm
      <4> QED
        BY <2>1, <3>3, <4>1, ExistsStays
    <3>6. ~done'[c].on
      BY <1>1, <2>6, <3>3 DEF Kept
    <3>7. Pending(c)'
      BY <3>4, <3>5, <3>6 DEF Pending, Exists
    <3>8. Holds(c, m, s)'
      BY <2>1, <2>6, <3>7 DEF Holds
    <3> QED
      BY <1>6, <3>8 DEF Stored
  <2> QED
    BY <2>1, <2>3, <2>4, <2>5, <2>6, HolderMoves
<1> QED
  BY <1>3, <1>5, <1>6 DEF Stored

(* No later archive is completed before one that is to be prepared, so what *)
(* it replays is where an earlier second phase has stored its steps.        *)
LEMMA PrepareResumes ==
  ASSUME OnceInv, ~interrupted, NEW a \in Archives, Prepare(a),
         NEW m \in Input(a) \ Anchors, NEW s \in MemorySteps, times[m][s] # 0
  PROVE  m \in KnownSteps(a)[s]
<1>0. IInv /\ OrderInv /\ FirstPhase /\ SecondPhase /\ Remembered /\ TypeOK
  BY DEF OnceInv, IInv
<1>1. ~IntentLost
  BY <1>0 DEF FirstPhase, LossInterrupts, IntentLost
<1>2. PICK b \in Replay(a) \cup {a} : m \in raw[b]
  BY DEF Input
<1>3. b \in Archives /\ b <= a
  BY BoundsAssumption DEF Replay, Archives
<1>4. m \in Msgs \ Anchors
  BY <1>0, <1>2, <1>3 DEF TypeOK
<1>5. phase2[a].pc = "wait" /\ PreviousEnded(a)
  BY DEF Prepare
<1>6. Pending(a)
  <2>1. phase1[a].status = "ready" /\ failed[a] = "none"
    BY <1>0, <1>1, <1>5 DEF OrderInv, OpenInv, ReadyFirst, Working, Active
  <2> QED
    BY <1>0, <1>5, <2>1 DEF Pending, Exists, IInv, NotYetDone
<1>7. ~Passed(b)
  <2> SUFFICES ASSUME NEW x \in Archives, b <= x, Completed(x) PROVE FALSE
    BY DEF Passed
  <2>1. done[x].on
    BY DEF Completed
  <2>2. x <= a
    BY <1>0, <1>1, <1>5, <2>1, NoneOvertakes
  <2>3. x # a
    BY <1>6, <2>1 DEF Pending
  <2>4. b # a
    BY <2>2, <2>3, <1>3 DEF Archives
  <2>5. Failed(b) /\ ~Covered(b)
    BY <1>2, <2>4 DEF Replay
  <2>6. b # x
    BY <2>5 DEF Completed, Failed
  <2>7. b \in 1 .. x - 1
    BY <1>3, <2>6 DEF Archives
  <2>8. b \in done[x].absorbed
    BY <1>0, <1>1, <1>2, <2>1, <2>5, <2>7 DEF SecondPhase, Coverage, Rolled
  <2> QED
    BY <2>5, <2>8 DEF Covered, Covers
<1>8. PICK c \in Archives : b <= c /\ (m \in progress[c][s] \/ Holds(c, m, s))
  BY <1>0, <1>2, <1>3, <1>4, <1>7 DEF Remembered, Stored
<1>9. PreviousEnded(c) /\ job[c] # "none"
  <2>1. HasSteps(c)
    BY <1>8 DEF HasSteps, Holds
  <2> QED
    BY <1>0, <2>1 DEF SecondPhase, Started
<1>10. c <= a
  <2>1. CASE a < c
    <3>1. a \in 1 .. c - 1
      BY <2>1 DEF Archives
    <3> QED
      BY <1>6, <1>9, <3>1 DEF PreviousEnded
  <2> QED
    BY <2>1 DEF Archives
<1>11. c \in Replay(a) \cup {a} /\ ~Holds(c, m, s)
  <2>1. CASE c = a
    BY <1>5, <2>1 DEF Holds, Holding
  <2>2. CASE c # a
    <3>1. c \in 1 .. a - 1
      BY <1>10, <2>2 DEF Archives
    <3>2. ~Pending(c)
      BY <1>5, <3>1 DEF PreviousEnded
    <3>3. Exists(c)
      BY <1>0, <1>9 DEF IInv, Absent, Untouched
    <3>4. ~Completed(c)
      BY <1>7, <1>8 DEF Passed
    <3>5. Failed(c)
      BY <3>2, <3>3, <3>4 DEF Pending, Completed, Failed
    <3>6. ~Covered(c)
      <4> SUFFICES ASSUME NEW x \in Archives, Covers(x, c) PROVE FALSE
        BY DEF Covered
      <4>1. done[x].from \in Nat
        BY <1>0 DEF TypeOK, Dones
      <4>2. Completed(x) /\ c <= x
        BY <4>1 DEF Covers, Archives
      <4>3. b <= x
        BY <1>3, <1>8, <4>2 DEF Archives
      <4> QED
        BY <1>7, <4>2, <4>3 DEF Passed
    <3> QED
      BY <3>1, <3>2, <3>5, <3>6 DEF Replay, Holds
  <2> QED
    BY <2>1, <2>2
<1>12. m \in progress[c][s]
  BY <1>8, <1>11
<1> QED
  BY <1>11, <1>12 DEF KnownSteps

(* One second phase runs at a time.                                         *)
LEMMA RunsAlone ==
  ASSUME IInv, OrderInv, ~IntentLost, NEW a \in Archives, NEW c \in Archives,
         phase2[a].pc = "run", phase2[c].pc = "run"
  PROVE  a = c
<1>1. ASSUME NEW x \in Archives, NEW y \in Archives, phase2[x].pc = "run", phase2[y].pc = "run",
             x < y
      PROVE  FALSE
  <2>1. PreviousEnded(y)
    BY <1>1 DEF OrderInv, EarlierEnded, Past, Prepared
  <2>2. x \in 1 .. y - 1
    BY <1>1 DEF Archives
  <2>3. phase1[x].status = "ready" /\ failed[x] = "none"
    BY <1>1 DEF OrderInv, OpenInv, ReadyFirst, Working, Active
  <2>4. Pending(x)
    BY <1>1, <2>3 DEF Pending, Exists, IInv, NotYetDone
  <2> QED
    BY <2>1, <2>2, <2>4 DEF PreviousEnded
<1> QED
  BY <1>1 DEF Archives

(* What a memory step counts.                                               *)
LEMMA ExtractCounts ==
  ASSUME TypeOK, NEW a \in Archives, NEW s \in MemorySteps, Extract(a, s),
         NEW m \in Msgs, NEW t \in MemorySteps
  PROVE  \/ times'[m][t] = times[m][t]
         \/ /\ t = s /\ m \in phase2[a].input \ phase2[a].steps[s]
            /\ times'[m][t] = times[m][t] + 1
<1>1. times'[m] = [times[m] EXCEPT ![s] =
                     IF m \in phase2[a].input \ phase2[a].steps[s] THEN @ + 1 ELSE @]
  BY DEF Extract
<1>2. times[m] \in [MemorySteps -> Nat]
  BY DEF TypeOK
<1>3. CASE m \in phase2[a].input \ phase2[a].steps[s]
  BY <1>1, <1>2, <1>3
<1>4. CASE m \notin phase2[a].input \ phase2[a].steps[s]
  BY <1>1, <1>2, <1>4
<1> QED
  BY <1>3, <1>4

(* Every step keeps what the invariant says of the first phase.             *)
LEMMA FirstStep ==
  ASSUME IInv, FirstPhase, SecondPhase, Calm
  PROVE  FirstPhase' /\ Anchors \subseteq Anchors' /\ (interrupted => interrupted')
<1>1. CASE CommitMoves
  BY <1>1, FirstCommit, CommitLeaves
<1>2. ASSUME NEW a \in Archives, Handles(a)
      PROVE  FirstPhase' /\ Anchors \subseteq Anchors' /\ (interrupted => interrupted')
  <2>1. TypeOK
    BY DEF IInv
  <2> QED
    BY <1>2, <2>1, FirstHandler, HandlerLeaves
<1>3. CASE Crash
  <2>1. interrupted' = \/ interrupted
                       \/ Unfinished
                       \/ \E a \in Archives : Unrecorded(a)
    BY <1>3 DEF Crash
  <2>2. interrupted => interrupted'
    BY <2>1
  <2> QED
    BY <1>3, <2>2, FirstCrash
<1>4. CASE UNCHANGED vars
  <2>1. UNCHANGED interrupted
    BY <1>4 DEF vars
  <2> QED
    BY <1>4, <2>1, FirstCrash
<1>5. CommitMoves \/ (\E a \in Archives : Handles(a)) \/ Crash \/ UNCHANGED vars
  BY DEF Calm
<1> QED
  BY <1>1, <1>2, <1>3, <1>4, <1>5

(* What went through a memory step is archived.                             *)
LEMMA TimesHomeStep ==
  ASSUME OnceInv, Calm
  PROVE  TimesHome'
<1> SUFFICES ASSUME NEW m \in Msgs, NEW s \in MemorySteps, times'[m][s] # 0
             PROVE  \E b \in Archives : m \in raw'[b]
  BY DEF TimesHome
<1>0. IInv /\ SecondPhase /\ TimesHome /\ TypeOK
  BY DEF OnceInv, IInv
<1>1. \A b \in Archives : raw[b] \subseteq raw'[b]
  BY <1>0, StepKeeps, RawGrows
<1> SUFFICES \E b \in Archives : m \in raw[b]
  BY <1>1
<1>2. CASE times'[m][s] = times[m][s]
  BY <1>0, <1>2 DEF TimesHome
<1>3. CASE times'[m][s] # times[m][s]
  <2>1. PICK a \in Archives, t \in MemorySteps : Extract(a, t)
    BY <1>3, TimesStay
  <2>2. m \in phase2[a].input
    BY <1>0, <1>3, <2>1, ExtractCounts
  <2>3. m \in RawUpTo(a)
    BY <1>0, <2>2 DEF SecondPhase, Source
  <2>4. PICK b \in 1 .. a : m \in raw[b]
    BY <2>3 DEF RawUpTo
  <2>5. b \in Archives
    BY BoundsAssumption DEF Archives
  <2> QED
    BY <2>4, <2>5
<1> QED
  BY <1>2, <1>3

(* A memory step goes over a message for the first time, and its handler    *)
(* holds it.                                                                *)
LEMMA ExtractRemembers ==
  ASSUME OnceInv, ~interrupted, NEW a \in Archives, NEW s \in MemorySteps, Extract(a, s),
         NEW m \in Msgs \ Anchors, m \in phase2[a].input \ phase2[a].steps[s]
  PROVE  /\ times[m][s] = 0
         /\ \A b \in Archives : m \in raw[b] => Stored(m, s, b)'
<1>0. IInv /\ OrderInv /\ FirstPhase /\ SecondPhase /\ TypeOK /\ Resumes(a) /\ Tidy(a)
  BY DEF OnceInv, IInv, SecondPhase
<1>1. /\ phase2[a].pc = "run" /\ phase2'[a].pc = "run"
      /\ phase2'[a].steps = [phase2[a].steps EXCEPT ![s] = @ \cup phase2[a].input]
  BY <1>0, ExtractFields
<1>2. times[m][s] = 0
  BY <1>0, <1>1 DEF Resumes
<1>3. ASSUME NEW b \in Archives, m \in raw[b] PROVE Stored(m, s, b)'
  <2>1. m \in RawUpTo(a)
    BY <1>0 DEF SecondPhase, Source
  <2>2. PICK e \in 1 .. a : m \in raw[e]
    BY <2>1 DEF RawUpTo
  <2>3. e \in Archives /\ e <= a
    BY BoundsAssumption DEF Archives
  <2>4. b <= a
    BY <1>0, <1>3, <2>2, <2>3 DEF FirstPhase, Homes, Home
  <2>5. ~IntentLost
    BY <1>0 DEF FirstPhase, LossInterrupts, IntentLost
  <2>6. phase1[a].status = "ready" /\ failed[a] = "none"
    BY <1>0, <1>1, <2>5 DEF OrderInv, OpenInv, ReadyFirst, Working, Active
  <2>7. Pending(a)
    BY <1>0, <1>1, <2>6 DEF Pending, Exists, IInv, NotYetDone
  <2>8. Pending(a)'
    <3>1. UNCHANGED <<phase1, done, failed>>
      BY DEF Extract
    <3> QED
      BY <2>7, <3>1 DEF Pending, Exists
  <2>9. m \in phase2'[a].steps[s]
    <3>1. phase2[a].steps \in Steps
      BY <1>0 DEF TypeOK, Phase2s
    <3> QED
      BY <1>1, <3>1 DEF Steps
  <2>10. Holds(a, m, s)'
    BY <1>1, <2>8, <2>9 DEF Holds, Holding
  <2> QED
    BY <2>4, <2>10 DEF Stored
<1> QED
  BY <1>2, <1>3

LEMMA RememberedStep ==
  ASSUME OnceInv, Calm
  PROVE  Remembered'
<1>0. IInv /\ OrderInv /\ FirstPhase /\ SecondPhase /\ TypeOK /\ TimesHome /\ Remembered
  BY DEF OnceInv, IInv
<1>1. FirstPhase' /\ Anchors \subseteq Anchors' /\ (interrupted => interrupted')
  BY <1>0, FirstStep
<1>2. \A b \in Archives : raw[b] \subseteq raw'[b]
  BY <1>0, StepKeeps, RawGrows
<1> SUFFICES ASSUME ~interrupted', NEW m \in Msgs \ Anchors', NEW s \in MemorySteps
             PROVE  /\ times'[m][s] <= 1
                    /\ times'[m][s] # 0 => \A b \in Archives : m \in raw'[b] =>
                         Passed(b)' \/ Stored(m, s, b)'
  BY DEF Remembered
<1>3. ~interrupted /\ m \in Msgs \ Anchors
  BY <1>1
<1>4. CASE times'[m][s] = times[m][s]
  <2>1. times[m][s] <= 1
    BY <1>0, <1>3 DEF Remembered
  <2>2. ASSUME times[m][s] # 0, NEW b \in Archives, m \in raw'[b]
        PROVE  Passed(b)' \/ Stored(m, s, b)'
    <3>1. PICK e \in Archives : m \in raw[e]
      BY <1>0, <2>2 DEF TimesHome
    <3>2. e = b
      BY <1>1, <1>2, <2>2, <3>1 DEF FirstPhase, Homes, Home
    <3>3. Passed(b) \/ Stored(m, s, b)
      BY <1>0, <1>3, <2>2, <3>1, <3>2 DEF Remembered
    <3> QED
      BY <1>0, <1>3, <3>1, <3>2, <3>3, StoredStays
  <2> QED
    BY <1>4, <2>1, <2>2
<1>5. CASE times'[m][s] # times[m][s]
  <2>1. PICK a \in Archives, t \in MemorySteps : Extract(a, t)
    BY <1>5, TimesStay
  <2>2. t = s /\ m \in phase2[a].input \ phase2[a].steps[s] /\ times'[m][s] = times[m][s] + 1
    BY <1>0, <1>5, <2>1, ExtractCounts
  <2>3. times[m][s] = 0 /\ \A b \in Archives : m \in raw[b] => Stored(m, s, b)'
    BY <1>3, <2>1, <2>2, ExtractRemembers
  <2>4. UNCHANGED raw
    BY <2>1 DEF Extract
  <2> QED
    BY <2>2, <2>3, <2>4
<1> QED
  BY <1>4, <1>5

(* A second phase that runs was just prepared, or ran already.              *)
LEMMA RunStays ==
  ASSUME IInv, FirstPhase, SecondPhase, Calm, NEW c \in Archives, phase2'[c].pc = "run",
         ~Prepare(c)
  PROVE  /\ phase2[c].pc = "run" /\ phase2'[c].input = phase2[c].input
         /\ \A s \in MemorySteps : phase2[c].steps[s] \subseteq phase2'[c].steps[s]
<1>0. TypeOK /\ Tidy(c) /\ Recorded(c)
  BY DEF IInv, SecondPhase
<1>1. CASE phase2'[c] = phase2[c]
  BY <1>1
<1>2. CASE CommitMoves
  BY <1>1, <1>2, CommitLeaves
<1>3. ASSUME NEW a \in Archives, a # c, Handles(a) PROVE phase2'[c] = phase2[c]
  <2>1. Tidy(a) /\ Recorded(a)
    BY DEF SecondPhase
  <2>2. Evolves(a)
    BY <1>0, <1>3, <2>1, HandlerEvolves
  <2> QED
    BY <1>3, <2>2 DEF Evolves, Others
<1>4. CASE Handles(c)
  <2>1. Evolves(c)
    BY <1>0, <1>4, HandlerEvolves
  <2>2. CASE UNCHANGED phase2
    BY <1>1, <2>2
  <2>3. ~Fresh(c) /\ ~Moves(c) /\ ~Drops(c) /\ ~WriteDone(c) /\ ~WriteFailed(c)
    <3>1. ~Fresh(c) /\ ~Moves(c)
      BY DEF Fresh, Moves, Prepared
    <3>2. ~Drops(c)
      BY NoPhase2Fields DEF Drops
    <3>3. ~WriteDone(c) /\ ~WriteFailed(c)
      BY <1>0, WriteDoneFields, WriteFailedFields
    <3> QED
      BY <3>1, <3>2, <3>3
  <2>4. CASE Trims(c) \/ \E s \in MemorySteps : Extract(c, s) \/ Record(c, s)
    <3>1. phase2[c].pc = "run"
      BY <1>0, <2>4, ExtractFields, RecordFields DEF Trims
    <3> QED
      BY <2>1, <3>1 DEF Evolves, Prepared
  <2> QED
    BY <1>0, <1>4, <2>2, <2>3, <2>4, HandlerShape
<1>5. CASE Crash
  BY <1>5, NoPhase2Fields DEF Crash
<1>6. CASE UNCHANGED vars
  BY <1>1, <1>6 DEF vars
<1>7. CommitMoves \/ (\E a \in Archives : Handles(a)) \/ Crash \/ UNCHANGED vars
  BY DEF Calm
<1> QED
  BY <1>1, <1>2, <1>3, <1>4, <1>5, <1>6, <1>7

LEMMA ResumesStep ==
  ASSUME OnceInv, Calm, NEW c \in Archives
  PROVE  Resumes(c)'
<1>0. IInv /\ OrderInv /\ FirstPhase /\ SecondPhase /\ TypeOK /\ Resumes(c) /\ Tidy(c)
  BY DEF OnceInv, IInv, SecondPhase
<1>1. Anchors \subseteq Anchors' /\ (interrupted => interrupted')
  BY <1>0, FirstStep
<1> SUFFICES ASSUME ~interrupted', phase2'[c].pc = "run", NEW m \in phase2'[c].input \ Anchors',
                    NEW s \in MemorySteps, times'[m][s] # 0
             PROVE  m \in phase2'[c].steps[s]
  BY DEF Resumes
<1>2. ~interrupted /\ m \in phase2'[c].input \ Anchors
  BY <1>1
<1>3. CASE Prepare(c)
  <2>1. phase2'[c].input = Input(c) /\ phase2'[c].steps = KnownSteps(c) /\ UNCHANGED times
    BY <1>0, <1>3, PrepareFields DEF Quiet
  <2> QED
    BY <1>2, <1>3, <2>1, PrepareResumes
<1>4. CASE ~Prepare(c)
  <2>1. /\ phase2[c].pc = "run" /\ phase2'[c].input = phase2[c].input
        /\ phase2[c].steps[s] \subseteq phase2'[c].steps[s]
    BY <1>0, <1>4, RunStays
  <2>2. CASE times'[m][s] = times[m][s]
    BY <1>0, <1>2, <2>1, <2>2 DEF Resumes
  <2>3. CASE times'[m][s] # times[m][s]
    <3>1. PICK a \in Archives, t \in MemorySteps : Extract(a, t)
      BY <2>3, TimesStay
    <3>2. m \in Msgs
      BY <1>0, <1>2, <2>1 DEF TypeOK, Phase2s
    <3>3. t = s /\ m \in phase2[a].input
      BY <1>0, <2>3, <3>1, <3>2, ExtractCounts
    <3>4. ~IntentLost /\ Tidy(a)
      BY <1>0, <1>2 DEF FirstPhase, LossInterrupts, IntentLost, SecondPhase
    <3>5. /\ phase2[a].pc = "run"
          /\ phase2'[a].steps = [phase2[a].steps EXCEPT ![s] = @ \cup phase2[a].input]
      BY <1>0, <3>1, <3>3, <3>4, ExtractFields
    <3>6. a = c
      BY <1>0, <2>1, <3>4, <3>5, RunsAlone
    <3>7. phase2[a].steps \in Steps
      BY <1>0 DEF TypeOK, Phase2s
    <3> QED
      BY <3>3, <3>5, <3>6, <3>7 DEF Steps
  <2> QED
    BY <2>2, <2>3
<1> QED
  BY <1>3, <1>4

(* Every step preserves the invariant, unless the code is misled or forgets. *)
LEMMA OnceStep == OnceInv /\ [Next]_vars /\ ~Misled' /\ ~interrupted' => OnceInv'
<1> SUFFICES ASSUME OnceInv, [Next]_vars, ~Misled', ~interrupted' PROVE OnceInv'
  OBVIOUS
<1>5. Calm
  BY CalmCases
<1>0. IInv /\ OrderInv /\ FirstPhase /\ SecondPhase
  BY DEF OnceInv
<1>1. IInv' /\ OrderInv'
  BY <1>0, InvariantStep, OrderStep
<1>2. FirstPhase' /\ SecondPhase'
  BY <1>0, <1>5, FirstStep, SecondStep
<1>3. TimesHome' /\ Remembered'
  BY <1>5, TimesHomeStep, RememberedStep
<1>4. \A a \in Archives : Resumes(a)'
  BY <1>5, ResumesStep
<1> QED
  BY <1>1, <1>2, <1>3, <1>4 DEF OnceInv

(* It holds at the start.                                                   *)
LEMMA OnceInit == Init => OnceInv
<1> SUFFICES ASSUME Init PROVE OnceInv
  OBVIOUS
<1>1. /\ sent = 0 /\ live = {} /\ commit.pc = "idle" /\ faults = {}
      /\ \A a \in Archives : /\ raw[a] = {} /\ phase1[a].status = "none" /\ phase1[a].out = {}
                            /\ ~done[a].on
                            /\ phase2[a] = NoPhase2 /\ progress[a] = NoSteps
      /\ \A m \in Msgs, s \in MemorySteps : times[m][s] = 0
  BY DEF Init, NoCommit, NoIntent, NotDone
<1>2. \A s \in MemorySteps : NoSteps[s] = {}
  BY DEF NoSteps
<1>3. IInv
  BY InitInvariant
<1>4. OrderInv
  BY OrderInit
<1>5. FirstPhase
  BY <1>1 DEF FirstPhase, LossInterrupts, IntentLost, CommitIntent, NoIntents, Sent, Homes
<1>6. SecondPhase
  <2>1. ASSUME NEW a \in Archives PROVE Source(a) /\ Tidy(a) /\ Started(a) /\ Recorded(a)
    BY <1>1, <1>2, NoPhase2Fields DEF Source, Tidy, Started, HasSteps, Recorded, Prepared
  <2>2. ASSUME NEW a \in Archives PROVE Coverage(a)
    BY <1>1, NoPhase2Fields DEF Coverage, Prepared
  <2> QED
    BY <2>1, <2>2 DEF SecondPhase
<1>7. TimesHome /\ Remembered
  BY <1>1 DEF TimesHome, Remembered
<1>8. \A a \in Archives : Resumes(a)
  BY <1>1, NoPhase2Fields DEF Resumes
<1> QED
  BY <1>3, <1>4, <1>5, <1>6, <1>7, <1>8 DEF OnceInv

(* A memory step goes over a message once, over failed siblings, replayed   *)
(* archives, empty summaries, redelivered messages and restarts:            *)
(* _run_recorded_memory_step records its progress before the siblings are   *)
(* waited for, and _prepare_phase2_archive_messages merges what the         *)
(* replayed archives have recorded.  It takes a first phase that ended      *)
(* before it rewrote the root, an intent that could not be read, a step     *)
(* that could not be recorded, recorded progress that _read_archive_meta or *)
(* _merge_archive_meta lost, or a wrong listing or scan of the archives, to *)
(* do it twice; the anchor of a partly archived turn is in several          *)
(* archives.  For any number of messages, archives, memory steps, handlers, *)
(* faults and crashes.                                                      *)
THEOREM MemoryStepsOnce == Spec => []ExtractedOnce
<1>1. interrupted \/ Misled \/ OnceInv => ExtractedOnce
  BY DEF OnceInv, Remembered, ExtractedOnce
<1>2. Spec => [](interrupted \/ Misled \/ OnceInv)
  BY OnceInit, OnceStep, MisledStays, InterruptedStays, PTL DEF Spec
<1> QED
  BY <1>1, <1>2, PTL
=============================================================================
