------------------------ MODULE SessionCommitProofs ------------------------
(* Proofs about SessionCommit, for any number of messages, archives, memory *)
(* steps, concurrent handlers, faults and crashes.                          *)
EXTENDS SessionCommit, TLAPS, WellFoundedInduction

(* Abbreviations of the specification that every proof may expand.          *)
USE DEF disk, tracker, history, bounds, LockFree, Step, Goto, Mark, StepsOf, MessagesOf,
        StartOn
-----------------------------------------------------------------------------
(* The inductive invariant behind NothingLost.                              *)

(* A message is in the root or in an archive.                               *)
Located == \A m \in 1 .. sent : m \in live \/ \E a \in Archives : m \in raw[a]

(* An archive without a directory has no message in the queue, nobody works *)
(* on it, and nothing of it is on disk.                                     *)
Untouched(a) == raw[a] = {} /\ ~done[a].on /\ job[a] = "none" /\ phase2[a].pc = "off"
Absent == \A a \in Archives : ~Exists(a) => Untouched(a)

(* Until the raw archive of a commit is written, it is the last archive.    *)
CommitIsLast ==
  commit.pc \in {"marker", "raw"} => \A a \in Archives : a >= commit.arch => Untouched(a)

(* What a commit removes from the root is in its raw archive.               *)
CommitIsDurable ==
  /\ commit.pc # "idle" => commit.arch \in Archives
  /\ commit.pc \in {"raw", "enqueue", "task", "root", "ready"} => Exists(commit.arch)
  /\ commit.pc \in {"enqueue", "task", "root"} => raw[commit.arch] = commit.out
  /\ commit.pc \in {"marker", "raw", "enqueue", "task", "root"} =>
       live \subseteq commit.out \cup commit.keep

(* A second phase that still has .done to write is the first to write it.   *)
NotYetDone ==
  \A a \in Archives :
    phase2[a].pc \in {"ensure", "wait", "run", "meta", "done"} => ~done[a].on

(* It works on everything archived so far that no overview stands for.      *)
InputCovers ==
  \A a \in Archives : phase2[a].pc \in {"run", "meta", "done"} =>
    \A b \in 1 .. a : raw[b] \subseteq phase2[a].input \cup Digested

DoneCovers ==
  \A a \in Archives : done[a].on =>
    \A b \in 1 .. a : raw[b] \subseteq done[a].input \cup Digested

IInv ==
  TypeOK /\ Located /\ Absent /\ CommitIsLast /\ CommitIsDurable /\ NotYetDone
  /\ InputCovers /\ DoneCovers
-----------------------------------------------------------------------------
(* Types.                                                                   *)

(* The least of some archives is one of them.                               *)
LEMMA LeastIsIn ==
  ASSUME NEW S \in SUBSET Nat, S # {}
  PROVE  Least(S) \in S
<1> DEFINE Less == {ss \in Nat \X Nat : ss[1] < ss[2]}
<1>1. IsWellFoundedOn(Less, Nat)
  <2>1. OpToRel(<, Nat) = Less
    BY Zenon DEF OpToRel
  <2> QED
    BY <2>1, NatLessThanWellFounded
<1> HIDE DEF Less
<1>2. PICK x \in S : \A y \in S : ~(<<y, x>> \in Less)
  BY <1>1, WFMin
<1>3. ASSUME NEW y \in S PROVE x <= y
  <2>1. x \in Nat /\ y \in Nat
    OBVIOUS
  <2>2. ~(y < x)
    <3>1. y < x => <<y, x>> \in Less
      BY <2>1 DEF Less
    <3> QED
      BY <3>1, <1>2
  <2> QED
    BY <2>1, <2>2
<1> QED
  BY <1>3 DEF Least

(* The handler that is not there has the type of one.                       *)
LEMMA NoPhase2Type == NoPhase2 \in Phase2s
  BY DEF NoPhase2, Phase2s, Phase2PCs, NoSteps, Steps, Causes

(* Moving the handler of an archive on keeps its type.                      *)
LEMMA GotoType ==
  ASSUME NEW f \in [Archives -> Phase2s], NEW a \in Archives, NEW x \in Phase2PCs
  PROVE  /\ [f EXCEPT ![a].pc = x] \in [Archives -> Phase2s]
         /\ \A c \in Causes : [f EXCEPT ![a].pc = x, ![a].cause = c] \in [Archives -> Phase2s]
<1>1. [f[a] EXCEPT !.pc = x] \in Phase2s
  BY DEF Phase2s
<1>2. ASSUME NEW r \in Phase2s, NEW c \in Causes PROVE [r EXCEPT !.cause = c] \in Phase2s
  BY DEF Phase2s
<1>3. ASSUME NEW c \in Causes
      PROVE  [f EXCEPT ![a].pc = x, ![a].cause = c] \in [Archives -> Phase2s]
  <2>1. [f EXCEPT ![a].pc = x, ![a].cause = c] =
          [f EXCEPT ![a] = [[f[a] EXCEPT !.pc = x] EXCEPT !.cause = c]]
    OBVIOUS
  <2> QED
    BY <1>1, <1>2, <2>1
<1> QED
  BY <1>1, <1>3

(* The types hold at the start.                                            *)
LEMMA InitType == Init => TypeOK
<1> SUFFICES ASSUME Init PROVE TypeOK
  OBVIOUS
<1>1. /\ phase1 \in [Archives -> Intents] /\ done \in [Archives -> Dones]
      /\ commit \in Commits
  BY DEF Init, Intents, NoIntent, Dones, NotDone, Commits, NoCommit, CommitPCs
<1>2. phase2 \in [Archives -> Phase2s]
  BY NoPhase2Type DEF Init
<1>3. progress \in [Archives -> Steps] /\ times \in [Msgs -> [MemorySteps -> Nat]]
  BY DEF Init, Steps, NoSteps
<1>4. /\ sent \in 0 .. MaxMsgs /\ live \subseteq Msgs /\ crashes \in Nat
      /\ failed \in [Archives -> Causes \cup {"none"}]
      /\ raw \in [Archives -> SUBSET Msgs]
      /\ job \in [Archives -> {"none", "queued", "running", "stuck", "acked"}]
      /\ task \in [Archives -> Statuses] /\ cached \in [Archives -> Statuses]
      /\ faults \subseteq FaultKinds
  <2>0. sent = 0 /\ crashes = 0
    BY Zenon DEF Init
  <2>1. sent \in 0 .. MaxMsgs /\ crashes \in Nat
    BY <2>0, BoundsAssumption
  <2>2. "none" \in Statuses
    BY DEF Statuses
  <2> QED
    BY <2>1, <2>2, Zenon DEF Init
<1>5. overview \in [Archives -> BOOLEAN] /\ interrupted \in BOOLEAN
  BY Zenon DEF Init
<1> QED
  BY <1>1, <1>2, <1>3, <1>4, <1>5, Zenon DEF TypeOK

(* The tracker keeps its types.                                             *)
LEMMA TrackerType ==
  ASSUME TypeOK, NEW a \in Archives, NEW s \in Statuses,
         Create(a) \/ Advance(a, s) \/ AdvanceFails(a, s) \/ UNCHANGED tracker
  PROVE  task' \in [Archives -> Statuses] /\ cached' \in [Archives -> Statuses]
  BY DEF TypeOK, Create, Advance, AdvanceFails, Known, Statuses

(* Working on an archive keeps the type of its handler.                     *)
LEMMA FieldTypes ==
  ASSUME NEW f \in [Archives -> Phase2s], NEW a \in Archives
  PROVE  /\ \A x : [f EXCEPT ![a].todo = @ \ {x}] \in [Archives -> Phase2s]
         /\ \A x : [f EXCEPT ![a].unsaved = @ \ {x}] \in [Archives -> Phase2s]
         /\ \A x : [f EXCEPT ![a].todo = @ \ {x}, ![a].unsaved = @ \ {x}, ![a].bad = TRUE]
                     \in [Archives -> Phase2s]
<1> USE DEF Phase2s
<1>1. ASSUME NEW x PROVE [f EXCEPT ![a].todo = @ \ {x}] \in [Archives -> Phase2s]
  <2>1. [f[a] EXCEPT !.todo = @ \ {x}] \in Phase2s
    OBVIOUS
  <2> QED
    BY <2>1
<1>2. ASSUME NEW x PROVE [f EXCEPT ![a].unsaved = @ \ {x}] \in [Archives -> Phase2s]
  <2>1. [f[a] EXCEPT !.unsaved = @ \ {x}] \in Phase2s
    OBVIOUS
  <2> QED
    BY <2>1
<1>3. ASSUME NEW x
      PROVE  [f EXCEPT ![a].todo = @ \ {x}, ![a].unsaved = @ \ {x}, ![a].bad = TRUE]
               \in [Archives -> Phase2s]
  <2>1. [f[a] EXCEPT !.todo = @ \ {x}, !.unsaved = @ \ {x}, !.bad = TRUE] \in Phase2s
    <3>1. ASSUME NEW r \in Phase2s PROVE [r EXCEPT !.todo = @ \ {x}] \in Phase2s
      OBVIOUS
    <3>2. ASSUME NEW r \in Phase2s PROVE [r EXCEPT !.unsaved = @ \ {x}] \in Phase2s
      OBVIOUS
    <3>3. ASSUME NEW r \in Phase2s PROVE [r EXCEPT !.bad = TRUE] \in Phase2s
      OBVIOUS
    <3>4. f[a] \in Phase2s
      OBVIOUS
    <3> DEFINE r1 == [f[a] EXCEPT !.todo = @ \ {x}]
    <3> DEFINE r2 == [r1 EXCEPT !.unsaved = @ \ {x}]
    <3>5. [r2 EXCEPT !.bad = TRUE] \in Phase2s
      <4> HIDE DEF Phase2s
      <4> QED
        BY <3>1, <3>2, <3>3, <3>4, Zenon
    <3> QED
      BY <3>5
  <2> DEFINE g == [f EXCEPT ![a].todo = @ \ {x}, ![a].unsaved = @ \ {x}, ![a].bad = TRUE]
  <2>2. ASSUME NEW b \in Archives PROVE g[b] \in Phase2s
    BY <2>1
  <2>3. DOMAIN g = Archives
    OBVIOUS
  <2> QED
    BY <2>2, <2>3
<1> QED
  BY <1>1, <1>2, <1>3

(* Reconciling a first phase keeps the types of its markers.                *)
LEMMA ReconcileType ==
  ASSUME TypeOK, NEW b \in Archives, Reconcile(b)
  PROVE  phase1' \in [Archives -> Intents] /\ failed' \in [Archives -> Causes \cup {"none"}]
<1>1. "recovery" \in Causes \cup {"none"}
  BY DEF Causes
<1>2. [phase1[b] EXCEPT !.status = "ready"] \in Intents
  BY DEF TypeOK, Intents
<1>t. phase1 \in [Archives -> Intents] /\ failed \in [Archives -> Causes \cup {"none"}]
  BY DEF TypeOK
<1>3. CASE Applied(b)
  <2>1. phase1' = [phase1 EXCEPT ![b].status = "ready"] /\ failed' = failed
    BY <1>3, Zenon DEF Reconcile
  <2> QED
    BY <1>2, <1>t, <2>1
<1>4. CASE ~Applied(b)
  <2>1. failed' = [failed EXCEPT ![b] = "recovery"] /\ phase1' = phase1
    BY <1>4, Zenon DEF Reconcile
  <2> QED
    BY <1>1, <1>t, <2>1
<1> QED
  BY <1>3, <1>4

(* So does going on with an archive that is ready.                          *)
LEMMA GoOnType ==
  ASSUME TypeOK, NEW a \in Archives, GoOn(a)
  PROVE  phase2' \in [Archives -> Phase2s]
<1>1. "mark" \in Phase2PCs /\ "wait" \in Phase2PCs /\ "archive_read" \in Causes
  BY DEF Phase2PCs, Causes
<1>2. CASE Mark(a, "archive_read")
  BY <1>1, <1>2, GotoType DEF TypeOK
<1>3. CASE Goto(a, "wait")
  BY <1>1, <1>3, GotoType DEF TypeOK
<1> QED
  BY <1>2, <1>3, Zenon DEF GoOn

(* Preparing the input of the second phase keeps the type of the handler.   *)
LEMMA StartType ==
  ASSUME TypeOK, NEW a \in Archives, NEW input \in SUBSET Msgs,
         NEW absorbed \in SUBSET Archives, NEW known \in Steps,
         StartOn(a, input, absorbed, known)
  PROVE  phase2' \in [Archives -> Phase2s]
<1> DEFINE from == Least(absorbed \cup {a})
           todo == {"summary"} \cup {s \in MemorySteps : ~(input \subseteq known[s])}
<1>2. from \in Nat
  <2>1. absorbed \cup {a} \in SUBSET Nat
    BY DEF Archives
  <2> QED
    BY <2>1, LeastIsIn
<1>5. todo \in SUBSET (MemorySteps \cup {"summary"})
  OBVIOUS
<1>6. phase2' = [phase2 EXCEPT ![a] =
        [@ EXCEPT !.pc = "run", !.input = input, !.from = from, !.absorbed = absorbed,
                  !.steps = known, !.todo = todo]]
  OBVIOUS
<1> HIDE DEF from, todo
<1>7. phase2[a] \in Phase2s
  BY DEF TypeOK
<1>8. [phase2[a] EXCEPT !.pc = "run", !.input = input, !.from = from,
                        !.absorbed = absorbed, !.steps = known, !.todo = todo]
        \in Phase2s
  BY <1>2, <1>5, <1>7 DEF Phase2s, Phase2PCs
<1> QED
  BY <1>6, <1>8 DEF TypeOK

(* What the archives hold has its type.                                     *)
LEMMA HoldingsType ==
  ASSUME TypeOK, NEW S \in SUBSET Archives
  PROVE  MessagesOf(S) \in SUBSET Msgs /\ StepsOf(S) \in Steps
<1>1. MessagesOf(S) \in SUBSET Msgs
  BY DEF TypeOK
<1>2. StepsOf(S) \in Steps
  BY DEF TypeOK, Steps
<1> QED
  BY <1>1, <1>2

LEMMA ReplayType ==
  ASSUME NEW a \in Archives
  PROVE  Replay(a) \in SUBSET Archives /\ Replay(a) \cup {a} \in SUBSET Archives
  BY BoundsAssumption DEF Replay, Archives

(* So does an extraction step.                                              *)
LEMMA ExtractType ==
  ASSUME TypeOK, NEW a \in Archives, NEW s \in MemorySteps, Extract(a, s)
  PROVE  phase2' \in [Archives -> Phase2s]
<1> DEFINE p == phase2[a]
           steps == [p.steps EXCEPT ![s] = @ \cup p.input]
           q == [p EXCEPT !.todo = @ \ {s}, !.unsaved = @ \cup {s}, !.steps = steps]
<1>1. p \in Phase2s
  BY DEF TypeOK
<1>2. steps \in Steps
  BY <1>1 DEF Phase2s, Steps
<1>3. q \in Phase2s
  <2> HIDE DEF steps, p
  <2> QED
    BY <1>1, <1>2 DEF Phase2s
<1>4. phase2' = [phase2 EXCEPT ![a] = q]
  BY DEF Extract
<1> HIDE DEF q
<1> QED
  BY <1>3, <1>4 DEF TypeOK

(* Every step preserves the types.                                          *)
LEMMA TypeStep == TypeOK /\ [Next]_vars => TypeOK'
<1> SUFFICES ASSUME TypeOK, [Next]_vars PROVE TypeOK'
  OBVIOUS
<1> USE DEF TypeOK
<1>1. CASE Append
  BY <1>1, BoundsAssumption DEF Append, Msgs
<1>2. ASSUME NEW n \in Archives, CommitBegin(n) PROVE TypeOK'
  <2>1. commit' \in Commits
    BY <1>2 DEF CommitBegin, Splits, Commits, CommitPCs, Archives
  <2> QED
    BY <1>2, <2>1, Zenon DEF CommitBegin
<1>3. CASE WritePhase1Marker
  BY <1>3 DEF WritePhase1Marker, Commits, CommitPCs, Intents
<1>4. CASE WriteRaw
  BY <1>4 DEF WriteRaw, Commits, CommitPCs
<1>5. CASE EnqueueJob
  BY <1>5 DEF EnqueueJob, Commits, CommitPCs
<1>6. CASE CreateTask
  BY <1>6 DEF CreateTask, Create, Known, Statuses, Commits, CommitPCs
<1>7. CASE RewriteRoot
  BY <1>7 DEF RewriteRoot, Commits, CommitPCs
<1>8. CASE PublishReady
  <2>1. phase1' \in [Archives -> Intents]
    <3>1. ASSUME NEW i \in Intents PROVE [i EXCEPT !.status = "ready"] \in Intents
      BY DEF Intents
    <3> QED
      BY <1>8, <3>1 DEF PublishReady
  <2>2. commit' \in Commits
    BY <1>8 DEF PublishReady, NoCommit, Commits, CommitPCs
  <2> QED
    BY <1>8, <2>1, <2>2, Zenon DEF PublishReady
<1>9. CASE CommitFails
  BY <1>9 DEF CommitFails, Fault, Commits, CommitPCs
<1>10. CASE WriteCommitFailed
  BY <1>10 DEF WriteCommitFailed, NoCommit, Commits, CommitPCs, Causes
<1>11. CASE CommitFailedUnmarked
  BY <1>11 DEF CommitFailedUnmarked, NoCommit, Commits, CommitPCs, Fault
<1>12. ASSUME NEW a \in Archives, Fetch(a) PROVE TypeOK'
  <2>1. [NoPhase2 EXCEPT !.pc = "begin"] \in Phase2s
    BY NoPhase2Type DEF Phase2s, Phase2PCs
  <2>2. phase2' \in [Archives -> Phase2s]
    <3> DEFINE q == [NoPhase2 EXCEPT !.pc = "begin"]
    <3>1. phase2' = [phase2 EXCEPT ![a] = q]
      BY <1>12 DEF Fetch
    <3> HIDE DEF q
    <3> QED
      BY <2>1, <3>1 DEF q
  <2>3. job' \in [Archives -> {"none", "queued", "running", "stuck", "acked"}]
    BY <1>12 DEF Fetch
  <2>4. UNCHANGED <<sent, live, disk, tracker, commit, history, bounds>>
    BY <1>12 DEF Fetch
  <2> QED
    BY <2>2, <2>3, <2>4
<1>13. ASSUME NEW a \in Archives, Begin(a) PROVE TypeOK'
  <2>1. phase2' \in [Archives -> Phase2s]
    <3> DEFINE x == IF done[a].on THEN IF Known(a) = "completed" THEN "ack" ELSE "known"
                    ELSE IF failed[a] # "none" THEN "giveup" ELSE "ensure"
    <3>1. x \in Phase2PCs
      BY DEF Phase2PCs
    <3>2. phase2' = [phase2 EXCEPT ![a].pc = x]
      BY <1>13 DEF Begin
    <3> HIDE DEF x
    <3> QED
      BY <3>1, <3>2, GotoType
  <2>2. task' \in [Archives -> Statuses] /\ cached' \in [Archives -> Statuses]
    BY <1>13, TrackerType DEF Begin
  <2> QED
    BY <1>13, <2>1, <2>2 DEF Begin
<1>14. ASSUME NEW a \in Archives, EnsureReady(a) PROVE TypeOK'
  <2>1. /\ phase1' \in [Archives -> Intents] /\ failed' \in [Archives -> Causes \cup {"none"}]
        /\ phase2' \in [Archives -> Phase2s]
    <3>1. CASE GoOn(a) /\ UNCHANGED <<phase1, failed>>
      BY <3>1, GoOnType
    <3>2. "giveup" \in Phase2PCs
      BY DEF Phase2PCs
    <3>3. CASE Goto(a, "giveup") /\ UNCHANGED <<phase1, failed>>
      BY <3>2, <3>3, GotoType
    <3>4. CASE Reconcile(a) /\ GoOn(a)
      BY <3>4, ReconcileType, GoOnType
    <3>5. CASE Reconcile(a) /\ Goto(a, "giveup")
      BY <3>2, <3>5, ReconcileType, GotoType
    <3> QED
      BY <1>14, <3>1, <3>3, <3>4, <3>5, Zenon DEF EnsureReady
  <2> QED
    BY <1>14, <2>1, Zenon DEF EnsureReady
<1>15. ASSUME NEW a \in Archives, EnsureLegacy(a) PROVE TypeOK'
  <2>1. phase2' \in [Archives -> Phase2s]
    BY <1>15, GoOnType DEF EnsureLegacy
  <2>2. faults' \subseteq FaultKinds
    BY <1>15 DEF EnsureLegacy, Fault
  <2> QED
    BY <1>15, <2>1, <2>2, Zenon DEF EnsureLegacy
<1>16. ASSUME NEW a \in Archives, WaitReconciles(a) PROVE TypeOK'
  <2>1. PICK b \in 1 .. a - 1 : Reconcile(b)
    BY <1>16 DEF WaitReconciles
  <2>2. b \in Archives
    BY BoundsAssumption DEF Archives
  <2>3. phase1' \in [Archives -> Intents] /\ failed' \in [Archives -> Causes \cup {"none"}]
    BY <2>1, <2>2, ReconcileType
  <2> QED
    BY <1>16, <2>3, Zenon DEF WaitReconciles
<1>17. ASSUME NEW a \in Archives, LockTimeout(a) PROVE TypeOK'
  BY <1>17, GotoType DEF LockTimeout, Fault, Phase2PCs, Causes
<1>18. ASSUME NEW a \in Archives, Prepare(a) PROVE TypeOK'
  <2>1. phase2' \in [Archives -> Phase2s]
    <3>1. Input(a) \in SUBSET Msgs /\ KnownSteps(a) \in Steps
      BY ReplayType, HoldingsType DEF Input, KnownSteps
    <3>2. StartOn(a, Input(a), Replay(a), KnownSteps(a))
      BY <1>18 DEF Prepare
    <3> HIDE DEF StartOn
    <3> QED
      BY <3>1, <3>2, ReplayType, StartType
  <2>2. task' \in [Archives -> Statuses] /\ cached' \in [Archives -> Statuses]
    BY <1>18, TrackerType DEF Prepare, Statuses
  <2> QED
    BY <1>18, <2>1, <2>2, Zenon DEF Prepare
<1>19. ASSUME NEW a \in Archives, PrepareRaises(a) PROVE TypeOK'
  BY <1>19, GotoType DEF PrepareRaises, Phase2PCs, Causes
<1>20. ASSUME NEW a \in Archives, Summary(a) PROVE TypeOK'
  <2>1. phase2' \in [Archives -> Phase2s]
    BY <1>20, FieldTypes DEF Summary
  <2>2. overview' \in [Archives -> BOOLEAN]
    BY <1>20 DEF Summary
  <2> QED
    BY <1>20, <2>1, <2>2, Zenon DEF Summary
<1>21. ASSUME NEW a \in Archives, SummaryEmpty(a) PROVE TypeOK'
  <2>1. phase2' \in [Archives -> Phase2s]
    BY <1>21, FieldTypes DEF SummaryEmpty
  <2>2. faults' \subseteq FaultKinds
    BY <1>21 DEF SummaryEmpty, Fault
  <2> QED
    BY <1>21, <2>1, <2>2, Zenon DEF SummaryEmpty
<1>22. ASSUME NEW a \in Archives, NEW s \in MemorySteps, Extract(a, s) PROVE TypeOK'
  <2>1. phase2' \in [Archives -> Phase2s]
    BY <1>22, ExtractType
  <2>2. times' \in [Msgs -> [MemorySteps -> Nat]]
    <3>1. ASSUME NEW t \in [MemorySteps -> Nat], NEW P
          PROVE  [t EXCEPT ![s] = IF P THEN @ + 1 ELSE @] \in [MemorySteps -> Nat]
      OBVIOUS
    <3>2. ASSUME NEW m \in Msgs PROVE times[m] \in [MemorySteps -> Nat]
      OBVIOUS
    <3> QED
      BY <1>22, <3>1, <3>2, Zenon DEF Extract
  <2> QED
    BY <1>22, <2>1, <2>2, Zenon DEF Extract
<1>23. ASSUME NEW a \in Archives, NEW s \in MemorySteps, Record(a, s) PROVE TypeOK'
  <2>1. phase2' \in [Archives -> Phase2s]
    BY <1>23, FieldTypes DEF Record
  <2>2. progress' \in [Archives -> Steps]
    <3>1. phase2[a].steps \in Steps
      BY DEF Phase2s
    <3> QED
      BY <1>23, <3>1 DEF Record
  <2> QED
    BY <1>23, <2>1, <2>2, Zenon DEF Record
<1>24. ASSUME NEW a \in Archives, NEW s \in MemorySteps \cup {"summary"}, StepFails(a, s)
       PROVE  TypeOK'
  <2>1. phase2' \in [Archives -> Phase2s]
    BY <1>24, FieldTypes DEF StepFails
  <2>2. faults' \subseteq FaultKinds
    BY <1>24 DEF StepFails, Fault
  <2> QED
    BY <1>24, <2>1, <2>2, Zenon DEF StepFails
<1>25. ASSUME NEW a \in Archives, Gathered(a) PROVE TypeOK'
  <2>1. phase2' \in [Archives -> Phase2s]
    <3>1. "mark" \in Phase2PCs /\ "meta" \in Phase2PCs /\ "extraction" \in Causes
      BY DEF Phase2PCs, Causes
    <3>2. CASE Mark(a, "extraction")
      BY <3>1, <3>2, GotoType
    <3>3. CASE Goto(a, "meta")
      BY <3>1, <3>3, GotoType
    <3> QED
      BY <1>25, <3>2, <3>3, Zenon DEF Gathered
  <2> QED
    BY <1>25, <2>1, Zenon DEF Gathered
<1>26. ASSUME NEW a \in Archives, MergeMeta(a) PROVE TypeOK'
  BY <1>26, GotoType DEF MergeMeta, Phase2PCs
<1>27. ASSUME NEW a \in Archives, WriteDone(a) PROVE TypeOK'
  <2>1. phase2' \in [Archives -> Phase2s]
    BY <1>27, GotoType DEF WriteDone, Phase2PCs
  <2> DEFINE d == [on |-> TRUE, from |-> phase2[a].from, absorbed |-> phase2[a].absorbed,
                   input |-> phase2[a].input]
  <2>2. d \in Dones
    BY DEF Phase2s, Dones
  <2>3. done' = [done EXCEPT ![a] = d]
    BY <1>27 DEF WriteDone
  <2> HIDE DEF d
  <2>4. done' \in [Archives -> Dones]
    BY <2>2, <2>3
  <2> QED
    BY <1>27, <2>1, <2>4 DEF WriteDone
<1>28. ASSUME NEW a \in Archives, WriteFailed(a) PROVE TypeOK'
  <2>1. phase2' \in [Archives -> Phase2s]
    BY <1>28, GotoType DEF WriteFailed, Phase2PCs
  <2>2. failed' \in [Archives -> Causes \cup {"none"}]
    BY <1>28 DEF WriteFailed, Phase2s
  <2>3. progress' \in [Archives -> Steps]
    <3>1. [s \in MemorySteps |-> progress[a][s] \cup phase2[a].steps[s]] \in Steps
      BY DEF Phase2s, Steps
    <3> QED
      BY <1>28, <3>1 DEF WriteFailed
  <2> QED
    BY <1>28, <2>1, <2>2, <2>3, Zenon DEF WriteFailed
<1>29. ASSUME NEW a \in Archives, Report(a) PROVE TypeOK'
  BY <1>29, GotoType, TrackerType DEF Report, Phase2PCs, Statuses, Terminal
<1>30. ASSUME NEW a \in Archives, ReportFails(a) PROVE TypeOK'
  <2>1. phase2' \in [Archives -> Phase2s]
    <3>1. "mark" \in Phase2PCs /\ "extraction" \in Causes
      BY DEF Phase2PCs, Causes
    <3>2. CASE Mark(a, "extraction")
      BY <3>1, <3>2, GotoType
    <3>3. CASE phase2' = [phase2 EXCEPT ![a] = NoPhase2]
      BY <3>3, NoPhase2Type
    <3> QED
      BY <1>30, <3>2, <3>3, Zenon DEF ReportFails
  <2>2. /\ job' \in [Archives -> {"none", "queued", "running", "stuck", "acked"}]
        /\ faults' \subseteq FaultKinds
    BY <1>30 DEF ReportFails, Fault
  <2>3. task' \in [Archives -> Statuses] /\ cached' \in [Archives -> Statuses]
    BY <1>30, TrackerType DEF ReportFails, Statuses, Terminal
  <2> QED
    BY <1>30, <2>1, <2>2, <2>3, Zenon DEF ReportFails
<1>31. ASSUME NEW a \in Archives, Ack(a) PROVE TypeOK'
  BY <1>31, NoPhase2Type DEF Ack
<1>32. ASSUME NEW a \in Archives, HandlerRaises(a) PROVE TypeOK'
  BY <1>32, NoPhase2Type DEF HandlerRaises, Fault
<1>33. CASE Crash
  BY <1>33, NoPhase2Type DEF Crash, NoCommit, Commits, CommitPCs, Statuses
<1>34. CASE UNCHANGED vars
  BY <1>34 DEF vars
<1>35. CASE MakeDir
  BY <1>35 DEF MakeDir, BareDir, Intents
<1>36. ASSUME NEW n \in Archives, CommitBeginUnlisted(n) PROVE TypeOK'
  <2>1. commit' \in Commits
    BY <1>36 DEF CommitBeginUnlisted, Splits, Commits, CommitPCs, Archives
  <2>2. /\ job' \in [Archives -> {"none", "queued", "running", "stuck", "acked"}]
        /\ task' \in [Archives -> Statuses] /\ cached' \in [Archives -> Statuses]
        /\ faults' \subseteq FaultKinds
    BY <1>36 DEF CommitBeginUnlisted, Statuses, Fault
  <2> QED
    BY <1>36, <2>1, <2>2, Zenon DEF CommitBeginUnlisted
<1>b. BareDir \in Intents /\ NoSteps \in Steps
  BY DEF BareDir, Intents, NoSteps, Steps
<1>37. CASE PlanForgets
  <2>1. phase1' \in [Archives -> Intents] /\ progress' \in [Archives -> Steps]
    BY <1>37, <1>b DEF PlanForgets
  <2>2. faults' \subseteq FaultKinds
    BY <1>37 DEF PlanForgets, Fault
  <2> QED
    BY <1>37, <2>1, <2>2, Zenon DEF PlanForgets
<1>38. ASSUME NEW a \in Archives, EnsureUnverified(a) PROVE TypeOK'
  <2>1. phase2' \in [Archives -> Phase2s]
    BY <1>38, GotoType DEF EnsureUnverified, Phase2PCs
  <2>2. /\ phase1' = phase1 /\ faults' \subseteq FaultKinds
        /\ failed' \in [Archives -> Causes \cup {"none"}]
    BY <1>38 DEF EnsureUnverified, Unverified, Fault, Causes
  <2> QED
    BY <1>38, <2>1, <2>2, Zenon DEF EnsureUnverified
<1>39. ASSUME NEW a \in Archives, WaitUnverified(a) PROVE TypeOK'
  <2>1. /\ phase1' = phase1 /\ faults' \subseteq FaultKinds
        /\ failed' \in [Archives -> Causes \cup {"none"}]
    BY <1>39 DEF WaitUnverified, Unverified, Fault, Causes
  <2> QED
    BY <1>39, <2>1, Zenon DEF WaitUnverified
<1>40. ASSUME NEW a \in Archives, PrepareForgets(a) PROVE TypeOK'
  <2>1. phase2' \in [Archives -> Phase2s]
    <3>1. PICK S \in SUBSET (Replay(a) \cup {a}) :
            StartOn(a, Input(a), Replay(a), StepsOf(S))
      BY <1>40 DEF PrepareForgets
    <3>2. Input(a) \in SUBSET Msgs /\ StepsOf(S) \in Steps
      <4>1. S \in SUBSET Archives
        BY ReplayType
      <4> QED
        BY <4>1, ReplayType, HoldingsType DEF Input
    <3> HIDE DEF StartOn, StepsOf
    <3> QED
      BY <3>1, <3>2, ReplayType, StartType
  <2>2. /\ task' \in [Archives -> Statuses] /\ cached' \in [Archives -> Statuses]
        /\ faults' \subseteq FaultKinds
    BY <1>40, TrackerType DEF PrepareForgets, Statuses, Fault
  <2> QED
    BY <1>40, <2>1, <2>2, Zenon DEF PrepareForgets
<1>41. ASSUME NEW a \in Archives, PrepareMisled(a) PROVE TypeOK'
  <2>1. phase2' \in [Archives -> Phase2s]
    <3>1. PICK S \in SUBSET {b \in 1 .. a - 1 : Exists(b) /\ ~Pending(b) /\ raw[b] # {}} :
            StartOn(a, MessagesOf(S \cup {a}), S, StepsOf(S \cup {a}))
      BY <1>41 DEF PrepareMisled
    <3>2. S \in SUBSET Archives /\ S \cup {a} \in SUBSET Archives
      BY BoundsAssumption DEF Archives
    <3>3. MessagesOf(S \cup {a}) \in SUBSET Msgs /\ StepsOf(S \cup {a}) \in Steps
      BY <3>2, HoldingsType
    <3> HIDE DEF StartOn, StepsOf, MessagesOf
    <3> QED
      BY <3>1, <3>2, <3>3, StartType
  <2>2. /\ task' \in [Archives -> Statuses] /\ cached' \in [Archives -> Statuses]
        /\ faults' \subseteq FaultKinds
    BY <1>41, TrackerType DEF PrepareMisled, Statuses, Fault
  <2> QED
    BY <1>41, <2>1, <2>2, Zenon DEF PrepareMisled
<1>42. ASSUME NEW a \in Archives, SummaryForgets(a) PROVE TypeOK'
  <2>1. phase2' \in [Archives -> Phase2s]
    BY <1>42, FieldTypes DEF SummaryForgets
  <2>2. /\ overview' \in [Archives -> BOOLEAN]
        /\ phase1' \in [Archives -> Intents] /\ progress' \in [Archives -> Steps]
    BY <1>42, <1>b DEF SummaryForgets
  <2>3. faults' \subseteq FaultKinds
    BY <1>42 DEF SummaryForgets, Fault
  <2> QED
    BY <1>42, <2>1, <2>2, <2>3, Zenon DEF SummaryForgets
<1>43. ASSUME NEW a \in Archives, NEW s \in MemorySteps, RecordForgets(a, s) PROVE TypeOK'
  <2>1. phase2' \in [Archives -> Phase2s]
    BY <1>43, FieldTypes DEF RecordForgets
  <2>2. phase1' \in [Archives -> Intents] /\ progress' \in [Archives -> Steps]
    <3>1. phase2[a].steps \in Steps
      BY DEF Phase2s
    <3> QED
      BY <1>43, <1>b, <3>1 DEF RecordForgets
  <2>3. faults' \subseteq FaultKinds
    BY <1>43 DEF RecordForgets, Fault
  <2> QED
    BY <1>43, <2>1, <2>2, <2>3, Zenon DEF RecordForgets
<1> QED
  BY <1>1, <1>2, <1>3, <1>4, <1>5, <1>6, <1>7, <1>8, <1>9, <1>10, <1>11, <1>12, <1>13,
     <1>14, <1>15, <1>16, <1>17, <1>18, <1>19, <1>20, <1>21, <1>22, <1>23, <1>24, <1>25,
     <1>26, <1>27, <1>28, <1>29, <1>30, <1>31, <1>32, <1>33, <1>34, <1>35, <1>36, <1>37,
     <1>38, <1>39, <1>40, <1>41, <1>42, <1>43
     DEF Next, CommitStep, HandlerStep, MemoryStep, HandlerFault, Swallowed, Forgets

(* Type correctness.                                                        *)
THEOREM TypeCorrect == Spec => []TypeOK
  BY InitType, TypeStep, PTL DEF Spec
-----------------------------------------------------------------------------
(* What goes into a completed archive stays there.                          *)
LEMMA DigestedGrows ==
  ASSUME \A b \in Archives : done[b].on => done'[b] = done[b],
         \A b \in Archives : overview[b] => overview'[b]
  PROVE  Digested \subseteq Digested'
<1> SUFFICES ASSUME NEW m \in Digested PROVE m \in Digested'
  OBVIOUS
<1>1. PICK b \in Archives : done[b].on /\ overview[b] /\ m \in done[b].input
  BY DEF Digested, Completed
<1> QED
  BY <1>1 DEF Digested, Completed

(* A completed archive, and one that is covered, is part of a digest.       *)
LEMMA EndedIsDigested ==
  ASSUME DoneCovers, TypeOK, NEW b \in Archives, Completed(b) \/ Covered(b)
  PROVE  raw[b] \subseteq Digested
<1>1. PICK c \in Archives : Completed(c) /\ b <= c
  BY DEF Covered, Covers, Archives, TypeOK, Dones
<1>2. b \in 1 .. c /\ done[c].on
  BY <1>1 DEF Archives, Completed
<1>3. raw[b] \subseteq done[c].input \cup Digested
  BY <1>2 DEF DoneCovers
<1>4. done[c].input \subseteq Digested
  BY <1>1 DEF Digested
<1> QED
  BY <1>3, <1>4

(* What the invariant says of the handlers is kept by a step that neither   *)
(* archives a message nor ends a second phase, as long as every handler     *)
(* that is past its preparation works on the input it had before.           *)
Active == {"ensure", "wait", "run", "meta", "done"}
Prepared == {"run", "meta", "done"}

LEMMA HandlersKept ==
  ASSUME IInv, raw' = raw, done' = done,
         \A b \in Archives : overview[b] => overview'[b],
         \A b \in Archives : phase2'[b].pc \in Active => ~done[b].on,
         \A b \in Archives : phase2'[b].pc \in Prepared =>
           phase2[b].pc \in Prepared /\ phase2'[b].input = phase2[b].input
  PROVE  NotYetDone' /\ InputCovers' /\ DoneCovers'
<1>1. Digested \subseteq Digested'
  BY DigestedGrows
<1>2. NotYetDone'
  BY DEF NotYetDone, Active
<1>3. InputCovers'
  BY <1>1 DEF IInv, InputCovers, Prepared
<1>4. DoneCovers'
  BY <1>1 DEF IInv, DoneCovers
<1> QED
  BY <1>2, <1>3, <1>4

(* Handlers nobody moves.                                                   *)
LEMMA HandlersStay ==
  ASSUME IInv, UNCHANGED <<raw, done, overview, phase2>>
  PROVE  NotYetDone' /\ InputCovers' /\ DoneCovers'
  BY HandlersKept DEF IInv, NotYetDone, Active, Prepared

(* A step of a handler, or of the worker, that leaves messages, commits and *)
(* what has been done alone.                                                *)
LEMMA HandlerMove ==
  ASSUME IInv, UNCHANGED <<sent, live, raw, done, commit>>,
         \A b \in Archives : overview[b] => overview'[b],
         \A b \in Archives : Exists(b) => Exists(b)',
         \A b \in Archives : Untouched(b) => Untouched(b)',
         \A b \in Archives : phase2'[b].pc \in Active => ~done[b].on,
         \A b \in Archives : phase2'[b].pc \in Prepared =>
           phase2[b].pc \in Prepared /\ phase2'[b].input = phase2[b].input
  PROVE  /\ Located' /\ Absent' /\ CommitIsLast' /\ CommitIsDurable' /\ NotYetDone'
         /\ InputCovers' /\ DoneCovers'
<1>1. NotYetDone' /\ InputCovers' /\ DoneCovers'
  BY HandlersKept
<1>2. Located'
  BY DEF IInv, Located
<1>3. Absent'
  BY DEF IInv, Absent
<1>4. CommitIsLast'
  BY DEF IInv, CommitIsLast
<1>5. CommitIsDurable'
  BY DEF IInv, CommitIsDurable
<1> QED
  BY <1>1, <1>2, <1>3, <1>4, <1>5

(* The invariant in the initial states.                                     *)
LEMMA InitInvariant == Init => IInv
<1> SUFFICES ASSUME Init PROVE IInv
  OBVIOUS
<1>1. TypeOK
  BY InitType
<1>2. /\ sent = 0 /\ commit.pc = "idle"
      /\ \A a \in Archives : raw[a] = {} /\ ~done[a].on /\ job[a] = "none"
                            /\ phase2[a].pc = "off"
  BY DEF Init, NoCommit, NotDone, NoPhase2
<1>3. Located
  BY <1>2 DEF Located
<1>4. Absent /\ CommitIsLast /\ CommitIsDurable
  BY <1>2 DEF Absent, Untouched, CommitIsLast, CommitIsDurable
<1>5. NotYetDone /\ InputCovers /\ DoneCovers
  BY <1>2 DEF NotYetDone, InputCovers, DoneCovers
<1> QED
  BY <1>1, <1>3, <1>4, <1>5 DEF IInv

(* The invariant loses no message.                                          *)
LEMMA InvariantLosesNothing == IInv => NothingLost
<1> SUFFICES ASSUME IInv, NEW m \in 1 .. sent PROVE m \in Context \cup Digested
  BY DEF NothingLost, RawRecoverable
<1>1. CASE m \in live
  BY <1>1 DEF Context
<1>2. ASSUME NEW a \in Archives, m \in raw[a] PROVE m \in Context \cup Digested
  <2>1. CASE Completed(a) \/ Covered(a)
    BY <1>2, <2>1, EndedIsDigested DEF IInv
  <2>2. CASE ~Completed(a) /\ ~Covered(a)
    BY <1>2, <2>2 DEF Context
  <2> QED
    BY <2>1, <2>2
<1> QED
  BY <1>1, <1>2 DEF IInv, Located
-----------------------------------------------------------------------------
(* The parts of the invariant other than the types.                         *)
Core ==
  /\ Located /\ Absent /\ CommitIsLast /\ CommitIsDurable /\ NotYetDone
  /\ InputCovers /\ DoneCovers

(* Appending, and the steps of a commit, preserve it.                       *)
LEMMA CommitCore ==
  ASSUME IInv,
         \/ Append \/ (\E n \in Archives : CommitBegin(n)) \/ CommitStep
         \/ CommitFails \/ CommitFailedUnmarked \/ PlanForgets
  PROVE  Core'
<1> USE DEF Core
<1>1. CASE Append
  <2>1. NotYetDone' /\ InputCovers' /\ DoneCovers'
    BY <1>1, HandlersStay DEF Append
  <2>2. Located'
    BY <1>1 DEF Append, IInv, Located, TypeOK
  <2>3. Absent' /\ CommitIsLast' /\ CommitIsDurable'
    BY <1>1 DEF Append, IInv, Absent, CommitIsLast, CommitIsDurable, Untouched, Exists
  <2> QED
    BY <2>1, <2>2, <2>3
<1>2. ASSUME NEW n \in Archives, CommitBegin(n) PROVE Core'
  <2>1. NotYetDone' /\ InputCovers' /\ DoneCovers'
    BY <1>2, HandlersStay DEF CommitBegin
  <2>2. Located' /\ Absent'
    BY <1>2 DEF CommitBegin, IInv, Located, Absent, Untouched, Exists
  <2>3. commit'.pc = "marker" /\ commit'.arch = n
    BY <1>2 DEF CommitBegin
  <2>4. live' \subseteq commit'.out \cup commit'.keep
    BY <1>2 DEF CommitBegin, Splits
  <2>5. CommitIsLast'
    <3>1. ASSUME NEW a \in Archives, a >= n PROVE Untouched(a)
      <4>1. ~(a < n)
        BY <3>1 DEF Archives
      <4>2. ~Exists(a)
        BY <1>2, <4>1 DEF CommitBegin, NextIndex
      <4> QED
        BY <4>2 DEF IInv, Absent
    <3>2. ASSUME NEW a \in Archives PROVE Untouched(a)' <=> Untouched(a)
      BY <1>2 DEF CommitBegin, Untouched
    <3> QED
      BY <2>3, <3>1, <3>2 DEF CommitIsLast
  <2>6. CommitIsDurable'
    BY <2>3, <2>4 DEF CommitIsDurable
  <2> QED
    BY <2>1, <2>2, <2>5, <2>6
<1>3. CASE WritePhase1Marker
  <2>1. NotYetDone' /\ InputCovers' /\ DoneCovers'
    BY <1>3, HandlersStay DEF WritePhase1Marker
  <2>2. Located'
    BY <1>3 DEF WritePhase1Marker, IInv, Located
  <2>3. commit.arch \in Archives /\ Exists(commit.arch)'
    BY <1>3 DEF WritePhase1Marker, IInv, CommitIsDurable, TypeOK, Exists
  <2>4. ASSUME NEW a \in Archives PROVE Exists(a) => Exists(a)'
    BY <1>3, <2>3 DEF WritePhase1Marker, IInv, TypeOK, Exists
  <2>5. ASSUME NEW a \in Archives PROVE Untouched(a)' <=> Untouched(a)
    BY <1>3 DEF WritePhase1Marker, Untouched
  <2>6. Absent'
    BY <2>4, <2>5 DEF IInv, Absent
  <2>7. commit' = [commit EXCEPT !.pc = "raw"] /\ commit \in Commits
    BY <1>3 DEF WritePhase1Marker, IInv, TypeOK
  <2>8. commit'.arch = commit.arch /\ commit'.pc = "raw" /\ commit'.out = commit.out
        /\ commit'.keep = commit.keep
    BY <2>7 DEF Commits
  <2>9. CommitIsLast'
    BY <1>3, <2>5, <2>8 DEF WritePhase1Marker, IInv, CommitIsLast
  <2>10. CommitIsDurable'
    BY <1>3, <2>3, <2>8 DEF WritePhase1Marker, IInv, CommitIsDurable
  <2> QED
    BY <2>1, <2>2, <2>6, <2>9, <2>10
<1>4. CASE WriteRaw
  <2>1. /\ commit.arch \in Archives /\ Exists(commit.arch)
        /\ \A a \in Archives : a >= commit.arch => Untouched(a)
    BY <1>4 DEF WriteRaw, IInv, CommitIsDurable, CommitIsLast
  <2>2. raw[commit.arch] = {}
    BY <2>1 DEF Untouched, Archives
  <2>3. raw' = [raw EXCEPT ![commit.arch] = commit.out] /\ raw \in [Archives -> SUBSET Msgs]
    BY <1>4 DEF WriteRaw, IInv, TypeOK
  <2>4. /\ commit'.arch = commit.arch /\ commit'.pc = "enqueue" /\ commit'.out = commit.out
        /\ commit'.keep = commit.keep
    BY <1>4 DEF WriteRaw, IInv, TypeOK, Commits
  <2>5. Located'
    BY <1>4, <2>1, <2>2, <2>3 DEF WriteRaw, IInv, Located
  <2>6. ASSUME NEW a \in Archives PROVE Exists(a)' <=> Exists(a)
    BY <1>4 DEF WriteRaw, Exists
  <2>7. ASSUME NEW a \in Archives, a # commit.arch PROVE Untouched(a)' <=> Untouched(a)
    BY <1>4, <2>3, <2>7 DEF WriteRaw, Untouched
  <2>8. Absent'
    BY <2>1, <2>6, <2>7 DEF IInv, Absent
  <2>9. CommitIsLast' /\ CommitIsDurable'
    BY <1>4, <2>1, <2>3, <2>4, <2>6 DEF WriteRaw, IInv, CommitIsLast, CommitIsDurable
  <2>10. Digested' = Digested
    BY <1>4 DEF WriteRaw, Digested, Completed
  <2>11. ASSUME NEW a \in Archives, ~Untouched(a), NEW b \in 1 .. a
         PROVE  raw'[b] = raw[b]
    <3>1. ~(a >= commit.arch)
      BY <2>1, <2>11
    <3>2. b \in Archives /\ b # commit.arch
      BY <2>1, <3>1, BoundsAssumption DEF Archives
    <3> QED
      BY <2>3, <3>2
  <2>12. NotYetDone'
    BY <1>4 DEF WriteRaw, IInv, NotYetDone
  <2>13. InputCovers'
    BY <1>4, <2>10, <2>11 DEF WriteRaw, IInv, InputCovers, Untouched
  <2>14. DoneCovers'
    BY <1>4, <2>10, <2>11 DEF WriteRaw, IInv, DoneCovers, Untouched
  <2> QED
    BY <2>5, <2>8, <2>9, <2>12, <2>13, <2>14
<1>5. CASE EnqueueJob
  <2>1. NotYetDone' /\ InputCovers' /\ DoneCovers'
    BY <1>5, HandlersStay DEF EnqueueJob
  <2>2. Located'
    BY <1>5 DEF EnqueueJob, IInv, Located
  <2>3. /\ commit'.arch = commit.arch /\ commit'.pc = "task" /\ commit'.out = commit.out
        /\ commit'.keep = commit.keep
    BY <1>5 DEF EnqueueJob, IInv, TypeOK, Commits
  <2>4. commit.arch \in Archives /\ Exists(commit.arch)
    BY <1>5 DEF EnqueueJob, IInv, CommitIsDurable
  <2>5. ASSUME NEW a \in Archives PROVE Exists(a)' <=> Exists(a)
    BY <1>5 DEF EnqueueJob, Exists
  <2>6. ASSUME NEW a \in Archives, a # commit.arch PROVE Untouched(a)' <=> Untouched(a)
    BY <1>5, <2>6 DEF EnqueueJob, Untouched, IInv, TypeOK
  <2>7. Absent'
    BY <2>4, <2>5, <2>6 DEF IInv, Absent
  <2>8. CommitIsLast' /\ CommitIsDurable'
    BY <1>5, <2>3, <2>4, <2>5 DEF EnqueueJob, IInv, CommitIsLast, CommitIsDurable
  <2> QED
    BY <2>1, <2>2, <2>7, <2>8
<1>6. CASE CreateTask
  <2>1. NotYetDone' /\ InputCovers' /\ DoneCovers'
    BY <1>6, HandlersStay DEF CreateTask
  <2>2. Located' /\ Absent'
    BY <1>6 DEF CreateTask, IInv, Located, Absent, Untouched, Exists
  <2>3. /\ commit'.arch = commit.arch /\ commit'.pc = "root" /\ commit'.out = commit.out
        /\ commit'.keep = commit.keep
    BY <1>6 DEF CreateTask, IInv, TypeOK, Commits
  <2>4. CommitIsLast' /\ CommitIsDurable'
    BY <1>6, <2>3 DEF CreateTask, IInv, CommitIsLast, CommitIsDurable, Exists
  <2> QED
    BY <2>1, <2>2, <2>4
<1>7. CASE RewriteRoot
  <2>1. NotYetDone' /\ InputCovers' /\ DoneCovers'
    BY <1>7, HandlersStay DEF RewriteRoot
  <2>2. Absent'
    BY <1>7 DEF RewriteRoot, IInv, Absent, Untouched, Exists
  <2>3. commit'.arch = commit.arch /\ commit'.pc = "ready"
    BY <1>7 DEF RewriteRoot, IInv, TypeOK, Commits
  <2>4. /\ commit.arch \in Archives /\ raw[commit.arch] = commit.out
        /\ live \subseteq commit.out \cup commit.keep
    BY <1>7 DEF RewriteRoot, IInv, CommitIsDurable
  <2>5. Located'
    BY <1>7, <2>4 DEF RewriteRoot, IInv, Located
  <2>6. CommitIsLast' /\ CommitIsDurable'
    BY <1>7, <2>3 DEF RewriteRoot, IInv, CommitIsLast, CommitIsDurable, Exists
  <2> QED
    BY <2>1, <2>2, <2>5, <2>6
<1>8. CASE PublishReady \/ WriteCommitFailed \/ CommitFailedUnmarked
  <2>1. NotYetDone' /\ InputCovers' /\ DoneCovers'
    BY <1>8, HandlersStay DEF PublishReady, WriteCommitFailed, CommitFailedUnmarked
  <2>2. Located'
    BY <1>8 DEF PublishReady, WriteCommitFailed, CommitFailedUnmarked, IInv, Located
  <2>3. ASSUME NEW a \in Archives PROVE Exists(a) => Exists(a)'
    BY <1>8 DEF PublishReady, WriteCommitFailed, CommitFailedUnmarked, IInv, TypeOK, Intents,
                Exists
  <2>4. ASSUME NEW a \in Archives PROVE Untouched(a)' <=> Untouched(a)
    BY <1>8 DEF PublishReady, WriteCommitFailed, CommitFailedUnmarked, Untouched
  <2>5. Absent'
    BY <2>3, <2>4 DEF IInv, Absent
  <2>6. commit'.pc = "idle"
    BY <1>8 DEF PublishReady, WriteCommitFailed, CommitFailedUnmarked, NoCommit
  <2>7. CommitIsLast' /\ CommitIsDurable'
    BY <2>6 DEF CommitIsLast, CommitIsDurable
  <2> QED
    BY <2>1, <2>2, <2>5, <2>7
<1>9. CASE CommitFails
  <2>1. NotYetDone' /\ InputCovers' /\ DoneCovers'
    BY <1>9, HandlersStay DEF CommitFails
  <2>2. Located' /\ Absent'
    BY <1>9 DEF CommitFails, IInv, Located, Absent, Untouched, Exists
  <2>3. commit'.arch = commit.arch /\ commit'.pc = "fail"
    BY <1>9 DEF CommitFails, IInv, TypeOK, Commits
  <2>4. CommitIsLast' /\ CommitIsDurable'
    BY <1>9, <2>3 DEF CommitFails, IInv, CommitIsLast, CommitIsDurable
  <2> QED
    BY <2>1, <2>2, <2>4
<1>10. CASE MakeDir \/ PlanForgets
  <2>1. NotYetDone' /\ InputCovers' /\ DoneCovers'
    BY <1>10, HandlersStay DEF MakeDir, PlanForgets
  <2>2. UNCHANGED <<sent, live, raw, failed, done, job, commit, phase2>>
    BY <1>10 DEF MakeDir, PlanForgets
  <2>3. ASSUME NEW a \in Archives
        PROVE  (Exists(a) => Exists(a)') /\ (Untouched(a)' <=> Untouched(a))
    BY <1>10, <2>2 DEF MakeDir, PlanForgets, BareDir, IInv, TypeOK, Exists, Untouched
  <2>4. Located' /\ Absent'
    BY <2>2, <2>3 DEF IInv, Located, Absent
  <2>5. CommitIsLast' /\ CommitIsDurable'
    BY <2>2, <2>3 DEF IInv, CommitIsLast, CommitIsDurable
  <2> QED
    BY <2>1, <2>4, <2>5
<1> QED
  BY <1>1, <1>2, <1>3, <1>4, <1>5, <1>6, <1>7, <1>8, <1>9, <1>10 DEF CommitStep

(* A handler that moves on from where it has one keeps the invariant, when  *)
(* it is not preparing its input or writing .done.                          *)
LEMMA GotoCore ==
  ASSUME IInv, NEW a \in Archives, UNCHANGED <<sent, live, raw, done, commit, overview>>,
         ~Untouched(a),
         \A b \in Archives : Exists(b) => Exists(b)',
         \A b \in Archives \ {a} : phase2'[b] = phase2[b] /\ job'[b] = job[b],
         phase2'[a].pc \in Active => ~done[a].on,
         phase2'[a].pc \in Prepared =>
           phase2[a].pc \in Prepared /\ phase2'[a].input = phase2[a].input
  PROVE  Core'
<1>1. ASSUME NEW b \in Archives PROVE Untouched(b) => Untouched(b)'
  BY DEF Untouched
<1>2. ASSUME NEW b \in Archives PROVE phase2'[b].pc \in Active => ~done[b].on
  BY DEF IInv, NotYetDone, Active
<1>3. ASSUME NEW b \in Archives, phase2'[b].pc \in Prepared
      PROVE  phase2[b].pc \in Prepared /\ phase2'[b].input = phase2[b].input
  BY <1>3
<1> QED
  BY <1>1, <1>2, <1>3, HandlerMove DEF Core

(* The parts of a handler that an update of the program counter leaves.     *)
LEMMA GotoFields ==
  ASSUME TypeOK, NEW a \in Archives, NEW x, Goto(a, x)
  PROVE  /\ phase2'[a].pc = x /\ phase2'[a].input = phase2[a].input
         /\ \A b \in Archives \ {a} : phase2'[b] = phase2[b]
  BY DEF TypeOK, Phase2s

(* The same when an error is about to be marked.                            *)
LEMMA MarkFields ==
  ASSUME TypeOK, NEW a \in Archives, NEW c, Mark(a, c)
  PROVE  phase2'[a].pc = "mark" /\ \A b \in Archives \ {a} : phase2'[b] = phase2[b]
  BY DEF TypeOK, Phase2s

(* The handler lets go of its message.                                      *)
LEMMA DroppedCore ==
  ASSUME IInv, NEW a \in Archives, ~Untouched(a), UNCHANGED <<sent, live, disk, commit>>,
         phase2' = [phase2 EXCEPT ![a] = NoPhase2],
         NEW x, job' = [job EXCEPT ![a] = x]
  PROVE  Core'
<1>1. TypeOK
  BY DEF IInv
<1>2. phase2'[a].pc = "off" /\ \A b \in Archives \ {a} : phase2'[b] = phase2[b]
  BY <1>1 DEF TypeOK, NoPhase2
<1>3. \A b \in Archives \ {a} : job'[b] = job[b]
  BY <1>1 DEF TypeOK
<1> QED
  BY <1>2, <1>3, GotoCore DEF Exists, Active, Prepared

(* Going on with an archive that is ready.                                  *)
LEMMA GoOnFields ==
  ASSUME TypeOK, NEW a \in Archives, GoOn(a)
  PROVE  /\ phase2'[a].pc \in {"mark", "wait"}
         /\ \A b \in Archives \ {a} : phase2'[b] = phase2[b]
<1>1. CASE Mark(a, "archive_read")
  BY <1>1, MarkFields
<1>2. CASE Goto(a, "wait")
  BY <1>2, GotoFields
<1> QED
  BY <1>1, <1>2, Zenon DEF GoOn

(* Reconciling a first phase removes no directory.                          *)
LEMMA ReconcileExists ==
  ASSUME TypeOK, NEW b \in Archives, Reconcile(b), NEW a \in Archives, Exists(a)
  PROVE  Exists(a)'
  BY DEF TypeOK, Reconcile, Exists, Intents

(* The steps of the worker and of a handler before its preparation.         *)
LEMMA EarlyCore ==
  ASSUME IInv, NEW a \in Archives,
         \/ Fetch(a) \/ Begin(a) \/ EnsureReady(a) \/ EnsureLegacy(a)
         \/ EnsureUnverified(a) \/ WaitUnverified(a)
         \/ WaitReconciles(a) \/ LockTimeout(a) \/ PrepareRaises(a)
  PROVE  Core'
<1> USE DEF Active, Prepared
<1>0. TypeOK
  BY DEF IInv
<1>1. CASE Fetch(a)
  <2>1. phase2'[a].pc = "begin" /\ \A b \in Archives \ {a} : phase2'[b] = phase2[b]
    BY <1>0, <1>1 DEF Fetch, TypeOK, NoPhase2
  <2>2. \A b \in Archives \ {a} : job'[b] = job[b]
    BY <1>0, <1>1 DEF Fetch, TypeOK
  <2>3. ~Untouched(a)
    BY <1>1 DEF Fetch, Untouched
  <2> QED
    BY <1>1, <2>1, <2>2, <2>3, GotoCore DEF Fetch, Exists
<1>2. CASE Begin(a)
  <2> DEFINE x == IF done[a].on THEN IF Known(a) = "completed" THEN "ack" ELSE "known"
                  ELSE IF failed[a] # "none" THEN "giveup" ELSE "ensure"
  <2>1. Goto(a, x)
    BY <1>2, Zenon DEF Begin
  <2>2. ~Untouched(a)
    BY <1>2 DEF Begin, Untouched
  <2>3. phase2'[a].pc = x /\ \A b \in Archives \ {a} : phase2'[b] = phase2[b]
    <3> HIDE DEF x
    <3> QED
      BY <1>0, <2>1, GotoFields
  <2> QED
    BY <1>2, <2>2, <2>3, GotoCore DEF Begin, Exists
<1>3. CASE EnsureReady(a)
  <2>1. phase2[a].pc = "ensure" /\ ~Untouched(a) /\ ~done[a].on
    BY <1>3 DEF EnsureReady, Untouched, IInv, NotYetDone
  <2>2. /\ phase2'[a].pc \in {"mark", "wait", "giveup"}
        /\ \A b \in Archives \ {a} : phase2'[b] = phase2[b]
    <3>1. CASE GoOn(a)
      BY <1>0, <3>1, GoOnFields
    <3>2. CASE Goto(a, "giveup")
      BY <1>0, <3>2, GotoFields
    <3> QED
      BY <1>3, <3>1, <3>2, Zenon DEF EnsureReady
  <2>4. ASSUME NEW b \in Archives, Exists(b) PROVE Exists(b)'
    <3>1. CASE Reconcile(a)
      BY <1>0, <2>4, <3>1, ReconcileExists
    <3>2. CASE UNCHANGED <<phase1, failed>>
      BY <2>4, <3>2 DEF Exists
    <3> QED
      BY <1>3, <3>1, <3>2 DEF EnsureReady
  <2> QED
    BY <1>3, <2>1, <2>2, <2>4, GotoCore DEF EnsureReady
<1>4. CASE EnsureLegacy(a)
  <2>1. phase2[a].pc = "ensure" /\ ~Untouched(a) /\ ~done[a].on
    BY <1>4 DEF EnsureLegacy, Untouched, IInv, NotYetDone
  <2>2. /\ phase2'[a].pc \in {"mark", "wait"}
        /\ \A b \in Archives \ {a} : phase2'[b] = phase2[b]
    BY <1>0, <1>4, GoOnFields DEF EnsureLegacy
  <2> QED
    BY <1>4, <2>1, <2>2, GotoCore DEF EnsureLegacy, Exists
<1>5. CASE WaitReconciles(a)
  <2>1. PICK b \in 1 .. a - 1 : Reconcile(b)
    BY <1>5 DEF WaitReconciles
  <2>2. b \in Archives
    BY BoundsAssumption DEF Archives
  <2>3. \A c \in Archives : Exists(c) => Exists(c)'
    BY <1>0, <2>1, <2>2, ReconcileExists
  <2>4. phase2[a].pc = "wait" /\ ~Untouched(a) /\ ~done[a].on
    BY <1>5 DEF WaitReconciles, Untouched, IInv, NotYetDone
  <2> QED
    BY <1>5, <2>3, <2>4, GotoCore DEF WaitReconciles
<1>6. CASE LockTimeout(a)
  <2>1. /\ phase2'[a].pc = "mark"
        /\ \A b \in Archives \ {a} : phase2'[b] = phase2[b]
    BY <1>0, <1>6, MarkFields DEF LockTimeout
  <2>2. ~Untouched(a)
    BY <1>6 DEF LockTimeout, Untouched
  <2> QED
    BY <1>6, <2>1, <2>2, GotoCore DEF LockTimeout, Exists
<1>7. CASE PrepareRaises(a)
  <2>1. /\ phase2'[a].pc = "mark"
        /\ \A b \in Archives \ {a} : phase2'[b] = phase2[b]
    BY <1>0, <1>7, MarkFields DEF PrepareRaises
  <2>2. ~Untouched(a)
    BY <1>7 DEF PrepareRaises, Untouched
  <2> QED
    BY <1>7, <2>1, <2>2, GotoCore DEF PrepareRaises, Exists
<1>8. CASE EnsureUnverified(a)
  <2>1. phase2[a].pc = "ensure" /\ ~Untouched(a)
    BY <1>8 DEF EnsureUnverified, Untouched
  <2>2. phase2'[a].pc = "giveup" /\ \A b \in Archives \ {a} : phase2'[b] = phase2[b]
    BY <1>0, <1>8, GotoFields DEF EnsureUnverified
  <2>3. ASSUME NEW b \in Archives, Exists(b) PROVE Exists(b)'
    BY <1>0, <1>8, <2>3 DEF EnsureUnverified, Unverified, Exists, TypeOK
  <2> QED
    BY <1>8, <2>1, <2>2, <2>3, GotoCore DEF EnsureUnverified
<1>9. CASE WaitUnverified(a)
  <2>1. phase2[a].pc = "wait" /\ ~Untouched(a) /\ ~done[a].on
    BY <1>9 DEF WaitUnverified, Untouched, IInv, NotYetDone
  <2>2. ASSUME NEW b \in Archives, Exists(b) PROVE Exists(b)'
    BY <1>0, <1>9, <2>2 DEF WaitUnverified, Unverified, Exists, TypeOK
  <2> QED
    BY <1>9, <2>1, <2>2, GotoCore DEF WaitUnverified
<1> QED
  BY <1>1, <1>2, <1>3, <1>4, <1>5, <1>6, <1>7, <1>8, <1>9

(* Preparing, whatever is known of the steps that are through.              *)
Prepares(a) == Prepare(a) \/ PrepareForgets(a)

LEMMA PreparesFields ==
  ASSUME TypeOK, NEW a \in Archives, Prepares(a)
  PROVE  /\ phase2[a].pc = "wait" /\ PreviousEnded(a)
         /\ UNCHANGED <<sent, live, disk, job, commit>>
         /\ phase2'[a].pc = "run" /\ phase2'[a].input = Input(a)
         /\ \A b \in Archives \ {a} : phase2'[b] = phase2[b]
         /\ faults \subseteq faults'
<1>1. CASE Prepare(a)
  <2>1. /\ phase2'[a].pc = "run" /\ phase2'[a].input = Input(a)
        /\ \A b \in Archives \ {a} : phase2'[b] = phase2[b]
    BY <1>1 DEF Prepare, TypeOK, Phase2s
  <2> QED
    BY <1>1, <2>1 DEF Prepare
<1>2. CASE PrepareForgets(a)
  <2>1. /\ phase2'[a].pc = "run" /\ phase2'[a].input = Input(a)
        /\ \A b \in Archives \ {a} : phase2'[b] = phase2[b]
    BY <1>2 DEF PrepareForgets, TypeOK, Phase2s
  <2> QED
    BY <1>2, <2>1 DEF PrepareForgets, Fault
<1> QED
  BY <1>1, <1>2 DEF Prepares

(* What came before is over, and is in the input or digested.               *)
LEMMA PrepareCore ==
  ASSUME IInv, NEW a \in Archives, Prepares(a)
  PROVE  Core'
<1>0. TypeOK
  BY DEF IInv
<1>1. phase2[a].pc = "wait" /\ ~Untouched(a) /\ ~done[a].on
  BY <1>0, PreparesFields DEF Untouched, IInv, NotYetDone
<1>2. /\ phase2'[a].pc = "run" /\ phase2'[a].input = Input(a)
      /\ \A b \in Archives \ {a} : phase2'[b] = phase2[b]
  BY <1>0, PreparesFields
<1>3. UNCHANGED <<sent, live, disk, job, commit>> /\ PreviousEnded(a)
  BY <1>0, PreparesFields
<1>4. Digested' = Digested
  BY <1>3 DEF Digested, Completed
<1>5. ASSUME NEW b \in 1 .. a PROVE raw[b] \subseteq Input(a) \cup Digested
  <2>1. b \in Archives
    BY BoundsAssumption DEF Archives
  <2>2. CASE b \in Replay(a) \cup {a}
    BY <2>2 DEF Input
  <2>3. CASE b # a /\ ~Exists(b)
    BY <2>1, <2>3 DEF IInv, Absent, Untouched
  <2>4. CASE b # a /\ Exists(b) /\ b \notin Replay(a)
    <3>1. b \in 1 .. a - 1
      BY <2>4 DEF Archives
    <3>2. Completed(b) \/ Failed(b)
      BY <1>3, <2>4, <3>1 DEF PreviousEnded, Pending, Completed, Failed
    <3>3. Completed(b) \/ Covered(b)
      BY <2>4, <3>1, <3>2 DEF Replay
    <3> QED
      BY <1>0, <2>1, <3>3, EndedIsDigested DEF IInv
  <2> QED
    BY <2>2, <2>3, <2>4
<1>6. NotYetDone'
  BY <1>1, <1>2, <1>3 DEF IInv, NotYetDone
<1>7. InputCovers'
  BY <1>2, <1>3, <1>4, <1>5 DEF IInv, InputCovers
<1>8. DoneCovers'
  BY <1>3, <1>4 DEF IInv, DoneCovers
<1>9. ASSUME NEW b \in Archives PROVE (Exists(b)' <=> Exists(b)) /\ (Untouched(b) => Untouched(b)')
  BY <1>1, <1>2, <1>3 DEF Exists, Untouched
<1>10. Located' /\ Absent'
  BY <1>3, <1>9 DEF IInv, Located, Absent
<1>11. CommitIsLast' /\ CommitIsDurable'
  BY <1>3, <1>9 DEF IInv, CommitIsLast, CommitIsDurable
<1> QED
  BY <1>6, <1>7, <1>8, <1>10, <1>11 DEF Core

(* The steps of the second phase at work; none moves the program counter.   *)
LEMMA WorkStays ==
  ASSUME TypeOK, NEW a \in Archives,
         \/ Summary(a) \/ SummaryEmpty(a) \/ SummaryForgets(a)
         \/ (\E s \in MemorySteps : Extract(a, s) \/ Record(a, s) \/ RecordForgets(a, s))
         \/ (\E s \in MemorySteps \cup {"summary"} : StepFails(a, s)),
         NEW b \in Archives
  PROVE  phase2'[b].pc = phase2[b].pc /\ phase2'[b].input = phase2[b].input
<1>1. CASE Summary(a)
  BY <1>1 DEF Summary, TypeOK, Phase2s
<1>2. CASE SummaryEmpty(a)
  BY <1>2 DEF SummaryEmpty, TypeOK, Phase2s
<1>3. ASSUME NEW s \in MemorySteps, Extract(a, s)
      PROVE  phase2'[b].pc = phase2[b].pc /\ phase2'[b].input = phase2[b].input
  <2>1. CASE b = a
    <3> DEFINE p == phase2[a]
               steps == [p.steps EXCEPT ![s] = @ \cup p.input]
               q == [p EXCEPT !.todo = @ \ {s}, !.unsaved = @ \cup {s}, !.steps = steps]
    <3>1. phase2'[a] = q
      <4>1. phase2' = [phase2 EXCEPT ![a] = q]
        BY <1>3 DEF Extract
      <4> HIDE DEF q
      <4> QED
        BY <4>1 DEF TypeOK
    <3>2. q.pc = phase2[a].pc /\ q.input = phase2[a].input
      <4> HIDE DEF steps
      <4> QED
        BY DEF TypeOK, Phase2s
    <3> QED
      BY <2>1, <3>1, <3>2, Zenon
  <2>2. CASE b # a
    BY <1>3, <2>2 DEF Extract, TypeOK
  <2> QED
    BY <2>1, <2>2
<1>4. ASSUME NEW s \in MemorySteps, Record(a, s)
      PROVE  phase2'[b].pc = phase2[b].pc /\ phase2'[b].input = phase2[b].input
  BY <1>4 DEF Record, TypeOK, Phase2s
<1>5. ASSUME NEW s \in MemorySteps \cup {"summary"}, StepFails(a, s)
      PROVE  phase2'[b].pc = phase2[b].pc /\ phase2'[b].input = phase2[b].input
  <2>1. CASE b = a
    <3> DEFINE q == [phase2[a] EXCEPT !.todo = @ \ {s}, !.unsaved = @ \ {s}, !.bad = TRUE]
    <3>1. phase2'[a] = q
      <4>1. phase2' = [phase2 EXCEPT ![a] = q]
        BY <1>5 DEF StepFails
      <4>2. phase2 \in [Archives -> Phase2s]
        BY DEF TypeOK
      <4> HIDE DEF q
      <4> QED
        BY <4>1, <4>2
    <3>2. q.pc = phase2[a].pc /\ q.input = phase2[a].input
      BY DEF TypeOK, Phase2s
    <3> QED
      BY <2>1, <3>1, <3>2, Zenon
  <2>2. CASE b # a
    <3>1. phase2'[b] = phase2[b]
      <4> DEFINE q == [phase2[a] EXCEPT !.todo = @ \ {s}, !.unsaved = @ \ {s}, !.bad = TRUE]
      <4>1. phase2' = [phase2 EXCEPT ![a] = q]
        BY <1>5 DEF StepFails
      <4>2. phase2 \in [Archives -> Phase2s]
        BY DEF TypeOK
      <4> HIDE DEF q
      <4> QED
        BY <2>2, <4>1, <4>2
    <3> QED
      BY <3>1
  <2> QED
    BY <2>1, <2>2
<1>6. CASE SummaryForgets(a)
  BY <1>6 DEF SummaryForgets, TypeOK, Phase2s
<1>7. ASSUME NEW s \in MemorySteps, RecordForgets(a, s)
      PROVE  phase2'[b].pc = phase2[b].pc /\ phase2'[b].input = phase2[b].input
  BY <1>7 DEF RecordForgets, TypeOK, Phase2s
<1> QED
  BY <1>1, <1>2, <1>3, <1>4, <1>5, <1>6, <1>7

(* They keep the invariant.                                                 *)
LEMMA WorkCore ==
  ASSUME IInv, NEW a \in Archives,
         \/ Summary(a) \/ SummaryEmpty(a) \/ SummaryForgets(a)
         \/ \E s \in MemorySteps : Extract(a, s) \/ Record(a, s) \/ RecordForgets(a, s)
         \/ \E s \in MemorySteps \cup {"summary"} : StepFails(a, s)
  PROVE  Core'
<1>0. TypeOK
  BY DEF IInv
<1>1. ASSUME NEW b \in Archives
      PROVE  phase2'[b].pc = phase2[b].pc /\ phase2'[b].input = phase2[b].input
  BY <1>0, WorkStays
<1>2. UNCHANGED <<sent, live, raw, failed, done, job, commit>>
  BY DEF Summary, SummaryEmpty, SummaryForgets, Extract, Record, RecordForgets, StepFails
<1>3. ASSUME NEW b \in Archives, overview[b] PROVE overview'[b]
  BY <1>0, <1>3 DEF TypeOK, Summary, SummaryEmpty, SummaryForgets, Extract, Record,
                    RecordForgets, StepFails
<1>4. ASSUME NEW b \in Archives PROVE (Exists(b) => Exists(b)') /\ (Untouched(b)' <=> Untouched(b))
  <2>1. phase1'[b] = phase1[b] \/ phase1'[b] = BareDir
    <3>1. CASE phase1' = [phase1 EXCEPT ![a] = BareDir]
      BY <1>0, <3>1 DEF TypeOK
    <3>2. phase1' = phase1 \/ phase1' = [phase1 EXCEPT ![a] = BareDir]
      BY DEF Summary, SummaryEmpty, SummaryForgets, Extract, Record, RecordForgets, StepFails
    <3> QED
      BY <3>1, <3>2
  <2> QED
    BY <1>1, <1>2, <2>1 DEF Exists, Untouched, BareDir
<1>5. ASSUME NEW b \in Archives PROVE phase2'[b].pc \in Active => ~done[b].on
  BY <1>1 DEF IInv, NotYetDone, Active
<1> QED
  BY <1>1, <1>2, <1>3, <1>4, <1>5, HandlerMove DEF Core

(* Writing .done: the input becomes part of the digest, or the archive      *)
(* counts as failed, and either way covers all that came before.            *)
LEMMA WriteDoneCore ==
  ASSUME IInv, NEW a \in Archives, WriteDone(a)
  PROVE  Core'
<1>0. TypeOK
  BY DEF IInv
<1>1. phase2[a].pc = "done" /\ ~Untouched(a) /\ ~done[a].on
  BY DEF WriteDone, Untouched, IInv, NotYetDone
<1>2. /\ phase2'[a].pc = "complete"
      /\ \A b \in Archives \ {a} : phase2'[b] = phase2[b]
  BY <1>0, GotoFields DEF WriteDone
<1>3. UNCHANGED <<sent, live, phase1, raw, failed, overview, job, commit>>
  BY DEF WriteDone
<1>4. /\ done'[a].input = phase2[a].input
      /\ \A b \in Archives \ {a} : done'[b] = done[b]
  BY <1>0 DEF WriteDone, TypeOK
<1>5. Digested \subseteq Digested'
  BY <1>1, <1>3, <1>4, DigestedGrows
<1>6. NotYetDone'
  BY <1>2, <1>4 DEF IInv, NotYetDone
<1>7. InputCovers'
  BY <1>2, <1>3, <1>5 DEF IInv, InputCovers
<1>8. DoneCovers'
  <2>1. ASSUME NEW b \in 1 .. a PROVE raw[b] \subseteq phase2[a].input \cup Digested
    BY <1>1 DEF IInv, InputCovers
  <2> QED
    BY <1>3, <1>4, <1>5, <2>1 DEF IInv, DoneCovers
<1>9. ASSUME NEW b \in Archives PROVE (Exists(b)' <=> Exists(b)) /\ (Untouched(b) => Untouched(b)')
  BY <1>1, <1>2, <1>3, <1>4 DEF Exists, Untouched
<1>10. Located' /\ Absent'
  BY <1>3, <1>9 DEF IInv, Located, Absent
<1>11. CommitIsLast' /\ CommitIsDurable'
  BY <1>3, <1>9 DEF IInv, CommitIsLast, CommitIsDurable
<1> QED
  BY <1>6, <1>7, <1>8, <1>10, <1>11 DEF Core

(* The other steps of a handler after its preparation.                      *)
LEMMA LateCore ==
  ASSUME IInv, NEW a \in Archives,
         \/ Gathered(a) \/ MergeMeta(a) \/ WriteFailed(a) \/ Report(a) \/ ReportFails(a)
         \/ Ack(a) \/ HandlerRaises(a)
  PROVE  Core'
<1> USE DEF Active, Prepared
<1>0. TypeOK
  BY DEF IInv
<1>1. CASE Gathered(a)
  <2>1. phase2[a].pc = "run" /\ ~Untouched(a) /\ ~done[a].on
    BY <1>1 DEF Gathered, Untouched, IInv, NotYetDone
  <2>2. CASE Mark(a, "extraction")
    BY <1>0, <1>1, <2>1, <2>2, MarkFields, GotoCore DEF Gathered, Exists
  <2>3. CASE Goto(a, "meta")
    BY <1>0, <1>1, <2>1, <2>3, GotoFields, GotoCore DEF Gathered, Exists
  <2> QED
    BY <1>1, <2>2, <2>3, Zenon DEF Gathered
<1>2. CASE MergeMeta(a)
  <2>1. phase2[a].pc = "meta" /\ ~Untouched(a) /\ ~done[a].on
    BY <1>2 DEF MergeMeta, Untouched, IInv, NotYetDone
  <2>2. Goto(a, "done")
    BY <1>2 DEF MergeMeta
  <2> QED
    BY <1>0, <1>2, <2>1, <2>2, GotoFields, GotoCore DEF MergeMeta, Exists
<1>3. CASE WriteFailed(a)
  <2>1. ~Untouched(a) /\ Goto(a, "giveup")
    BY <1>3 DEF WriteFailed, Untouched
  <2>2. ASSUME NEW b \in Archives, Exists(b) PROVE Exists(b)'
    BY <1>0, <1>3, <2>2 DEF WriteFailed, TypeOK, Phase2s, Causes, Exists
  <2> QED
    BY <1>0, <1>3, <2>1, <2>2, GotoFields, GotoCore DEF WriteFailed
<1>4. CASE Report(a)
  <2>1. ~Untouched(a) /\ Goto(a, "ack")
    BY <1>4 DEF Report, Untouched
  <2> QED
    BY <1>0, <1>4, <2>1, GotoFields, GotoCore DEF Report, Exists
<1>5. CASE ReportFails(a)
  <2>1. ~Untouched(a) /\ UNCHANGED <<sent, live, disk, commit>>
    BY <1>5 DEF ReportFails, Untouched
  <2>2. CASE Mark(a, "extraction") /\ UNCHANGED job
    BY <1>0, <2>1, <2>2, MarkFields, GotoCore DEF Exists
  <2>3. CASE /\ phase2' = [phase2 EXCEPT ![a] = NoPhase2]
             /\ job' = [job EXCEPT ![a] = "stuck"]
    BY <1>0, <2>1, <2>3, DroppedCore
  <2> QED
    BY <1>5, <2>2, <2>3, Zenon DEF ReportFails
<1>6. CASE Ack(a)
  BY <1>6, DroppedCore DEF Ack, Untouched
<1>7. CASE HandlerRaises(a)
  BY <1>7, DroppedCore DEF HandlerRaises, Untouched
<1> QED
  BY <1>1, <1>2, <1>3, <1>4, <1>5, <1>6, <1>7

(* A crash drops the commit and every handler.                              *)
LEMMA CrashCore ==
  ASSUME IInv, Crash
  PROVE  Core'
<1>0. TypeOK
  BY DEF IInv
<1>1. /\ UNCHANGED <<sent, live, disk>> /\ commit' = NoCommit
      /\ \A b \in Archives : phase2'[b] = NoPhase2
      /\ \A b \in Archives : job[b] = "none" => job'[b] = "none"
  BY DEF Crash
<1>2. NotYetDone' /\ InputCovers' /\ DoneCovers'
  BY <1>1, HandlersKept DEF NoPhase2, Active, Prepared
<1>3. Located'
  BY <1>1 DEF IInv, Located
<1>4. ASSUME NEW b \in Archives PROVE (Exists(b)' <=> Exists(b)) /\ (Untouched(b) => Untouched(b)')
  BY <1>1 DEF Exists, Untouched, NoPhase2
<1>5. Absent'
  BY <1>4 DEF IInv, Absent
<1>6. CommitIsLast' /\ CommitIsDurable'
  BY <1>1 DEF CommitIsLast, CommitIsDurable, NoCommit
<1> QED
  BY <1>2, <1>3, <1>5, <1>6 DEF Core

(* Faults stay.                                                             *)
LEMMA FaultsGrow == [Next]_vars => faults \subseteq faults'
<1> SUFFICES ASSUME [Next]_vars PROVE faults \subseteq faults'
  OBVIOUS
<1> USE DEF Fault
<1>1. CASE \/ Append \/ (\E n \in Archives : CommitBegin(n)) \/ CommitStep
           \/ CommitFails \/ CommitFailedUnmarked \/ Crash \/ UNCHANGED vars
  BY <1>1 DEF Append, CommitBegin, CommitStep, MakeDir, WritePhase1Marker, WriteRaw, EnqueueJob,
              CreateTask, RewriteRoot, PublishReady, WriteCommitFailed, CommitFails,
              CommitFailedUnmarked, Crash, vars
<1>2. ASSUME NEW a \in Archives, Fetch(a) \/ HandlerStep(a) PROVE faults' = faults
  BY <1>2 DEF Fetch, HandlerStep, Begin, EnsureReady, WaitReconciles, Prepare, PrepareRaises,
              Summary, MemoryStep, Extract, Record, Gathered, MergeMeta, WriteDone, WriteFailed,
              Report, Ack
<1>3. ASSUME NEW a \in Archives, HandlerFault(a) PROVE faults \subseteq faults'
  BY <1>3 DEF HandlerFault, EnsureLegacy, EnsureUnverified, WaitUnverified, Unverified,
              LockTimeout, SummaryEmpty, StepFails, ReportFails, HandlerRaises
<1>4. CASE Swallowed
  BY <1>4 DEF Swallowed, CommitBeginUnlisted, PlanForgets, Forgets, PrepareForgets,
              SummaryForgets, RecordForgets, PrepareMisled
<1> QED
  BY <1>1, <1>2, <1>3, <1>4 DEF Next

(* The two errors that mislead the code show.                               *)
LEMMA MisleadingShows ==
  ASSUME NEW a \in Archives, CommitBeginUnlisted(a) \/ PrepareMisled(a)
  PROVE  Misled'
  BY DEF CommitBeginUnlisted, PrepareMisled, Fault, Misled

LEMMA MisledStays == Misled /\ [Next]_vars => Misled'
  BY FaultsGrow DEF Misled

(* Every step preserves the invariant, unless the code is misled.           *)
LEMMA InvariantStep == IInv /\ [Next]_vars /\ ~Misled' => IInv'
<1> SUFFICES ASSUME IInv, [Next]_vars, ~Misled' PROVE IInv'
  OBVIOUS
<1>1. TypeOK'
  BY TypeStep DEF IInv
<1>2. Core'
  <2>1. CASE \/ Append \/ (\E n \in Archives : CommitBegin(n)) \/ CommitStep
             \/ CommitFails \/ CommitFailedUnmarked
    BY <2>1, CommitCore
  <2>2. ASSUME NEW a \in Archives, Fetch(a) \/ HandlerStep(a) \/ HandlerFault(a)
        PROVE  Core'
    BY <2>2, EarlyCore, PrepareCore, WorkCore, WriteDoneCore, LateCore
       DEF HandlerStep, HandlerFault, MemoryStep, Prepares
  <2>3. CASE Crash
    BY <2>3, CrashCore
  <2>5. CASE Swallowed
    BY <2>5, MisleadingShows, CommitCore, PrepareCore, WorkCore
       DEF Swallowed, Forgets, Prepares
  <2>4. CASE UNCHANGED vars
    <3>1. NotYetDone' /\ InputCovers' /\ DoneCovers'
      BY <2>4, HandlersStay DEF vars
    <3>2. Located' /\ Absent' /\ CommitIsLast' /\ CommitIsDurable'
      BY <2>4 DEF vars, IInv, Located, Absent, CommitIsLast, CommitIsDurable, Untouched, Exists
    <3> QED
      BY <3>1, <3>2 DEF Core
  <2> QED
    BY <2>1, <2>2, <2>3, <2>4, <2>5 DEF Next
<1> QED
  BY <1>1, <1>2 DEF IInv, Core
-----------------------------------------------------------------------------
(* No message is ever lost, whatever crashes and fails between the writes   *)
(* of commit_async and of resume_queued_commit, for any number of messages, *)
(* archives, handlers, faults and crashes, as long as no listing or scan of *)
(* the archives fails unnoticed (_list_archive_refs).                       *)
THEOREM NoMessageLost == Spec => []NothingLost
<1>1. Misled \/ IInv => NothingLost
  BY InvariantLosesNothing DEF NothingLost
<1>2. Spec => [](Misled \/ IInv)
  BY InitInvariant, InvariantStep, MisledStays, PTL DEF Spec
<1> QED
  BY <1>1, <1>2, PTL
-----------------------------------------------------------------------------
(* The inductive invariant behind AckedIsSettled, archive by archive.       *)
Ended(a) == done[a].on \/ failed[a] # "none"
Told(a) == task[a] \in Terminal \/ "task" \in faults

(* The cache says what the store says, or what the store refused to take.   *)
TrackerAgrees(a) ==
  \/ cached[a] = "none" \/ cached[a] = task[a]
  \/ cached[a] \in Terminal /\ "task" \in faults

(* A task is completed after its archive.                                   *)
TaskFollows(a) == task[a] = "completed" \/ cached[a] = "completed" => done[a].on

(* A handler that has begun has its task; it reports what has happened, and *)
(* acks what it has reported.                                               *)
ReportsTruth(a) ==
  /\ phase2[a].pc \notin {"off", "begin"} => cached[a] # "none"
  /\ phase2[a].pc \in {"complete", "known"} => done[a].on
  /\ phase2[a].pc = "giveup" => Ended(a)
  /\ phase2[a].pc = "ack" \/ job[a] = "acked" => Ended(a) /\ Told(a)

Settles(a) == TrackerAgrees(a) /\ TaskFollows(a) /\ ReportsTruth(a)
SettleInv == TypeOK /\ \A a \in Archives : Settles(a)

(* A step that leaves the task of an archive alone, and takes its handler   *)
(* nowhere near its report.                                                 *)
LEMMA SettlesQuietly ==
  ASSUME NEW a \in Archives, Settles(a), faults \subseteq faults',
         cached'[a] = cached[a], task'[a] = task[a],
         job'[a] = "acked" => job[a] = "acked",
         Ended(a) => Ended(a)', done[a].on => done'[a].on,
         \/ phase2'[a].pc \in {phase2[a].pc, "off", "begin"}
         \/ /\ phase2[a].pc \notin {"off", "begin"}
            /\ phase2'[a].pc \in {"ensure", "wait", "run", "meta", "done", "mark"}
  PROVE  Settles(a)'
<1>1. TrackerAgrees(a)' /\ TaskFollows(a)'
  BY DEF Settles, TrackerAgrees, TaskFollows
<1>2. ReportsTruth(a)'
  BY DEF Settles, ReportsTruth, Told
<1> QED
  BY <1>1, <1>2 DEF Settles

(* Creating a task, or finding it.                                          *)
LEMMA SettlesCreated ==
  ASSUME TypeOK, NEW a \in Archives, Settles(a), Create(a), UNCHANGED <<done, faults>>
  PROVE  /\ TrackerAgrees(a)' /\ TaskFollows(a)' /\ cached'[a] # "none"
         /\ Told(a) => Told(a)'
         /\ Known(a) \in Terminal => Told(a)'
         /\ \A b \in Archives \ {a} : cached'[b] = cached[b] /\ task'[b] = task[b]
  BY DEF TypeOK, Settles, Create, Known, TrackerAgrees, TaskFollows, Told, Terminal, Statuses

(* Moving a task on, where a completed one has its archive done.            *)
LEMMA SettlesAdvanced ==
  ASSUME TypeOK, NEW a \in Archives, Settles(a), NEW status \in {"running"} \cup Terminal,
         Advance(a, status), done' = done, faults \subseteq faults',
         status = "completed" => done[a].on, cached[a] # "none"
  PROVE  /\ TrackerAgrees(a)' /\ TaskFollows(a)' /\ cached'[a] # "none"
         /\ status \in Terminal => Told(a)'
         /\ Told(a) => Told(a)'
         /\ \A b \in Archives \ {a} : cached'[b] = cached[b] /\ task'[b] = task[b]
  BY DEF TypeOK, Settles, Advance, Known, TrackerAgrees, TaskFollows, Told, Terminal, Statuses

(* The commits preserve it.                                                 *)
LEMMA SettleCommit ==
  ASSUME SettleInv,
         \/ Append \/ (\E n \in Archives : CommitBegin(n) \/ CommitBeginUnlisted(n))
         \/ CommitStep \/ PlanForgets \/ CommitFails \/ CommitFailedUnmarked,
         NEW b \in Archives
  PROVE  Settles(b)'
<1>0. TypeOK /\ Settles(b)
  BY DEF SettleInv
<1>1. CASE CreateTask
  <2>1. UNCHANGED <<disk, job, phase2, faults>> /\ Create(commit.arch)
    BY <1>1 DEF CreateTask
  <2>2. CASE commit.arch = b
    <3>1. TrackerAgrees(b)' /\ TaskFollows(b)' /\ cached'[b] # "none" /\ (Told(b) => Told(b)')
      BY <1>0, <2>1, <2>2, SettlesCreated
    <3>2. ReportsTruth(b)'
      BY <1>0, <2>1, <3>1 DEF Settles, ReportsTruth, Ended
    <3> QED
      BY <3>1, <3>2 DEF Settles
  <2>3. CASE commit.arch # b
    <3>1. cached'[b] = cached[b] /\ task'[b] = task[b]
      BY <1>0, <2>1, <2>3 DEF Create, TypeOK
    <3> QED
      BY <1>0, <2>1, <3>1, SettlesQuietly DEF Ended
  <2> QED
    BY <2>2, <2>3
<1>2. CASE \/ Append \/ (\E n \in Archives : CommitBegin(n)) \/ MakeDir \/ WritePhase1Marker
           \/ WriteRaw \/ PlanForgets \/ RewriteRoot \/ PublishReady \/ CommitFails
           \/ CommitFailedUnmarked
  <2>1. UNCHANGED <<failed, done, job, tracker, phase2>> /\ faults \subseteq faults'
    BY <1>2 DEF Append, CommitBegin, MakeDir, WritePhase1Marker, WriteRaw, PlanForgets,
                RewriteRoot, PublishReady, CommitFails, CommitFailedUnmarked, Fault
  <2> QED
    BY <1>0, <2>1, SettlesQuietly DEF Ended
<1>3. CASE EnqueueJob
  <2>1. UNCHANGED <<failed, done, tracker, phase2, faults>>
    BY <1>3 DEF EnqueueJob
  <2>2. job'[b] = "acked" => job[b] = "acked"
    BY <1>0, <1>3 DEF EnqueueJob, TypeOK
  <2> QED
    BY <1>0, <2>1, <2>2, SettlesQuietly DEF Ended
<1>4. CASE WriteCommitFailed
  <2>1. UNCHANGED <<done, job, tracker, phase2, faults>>
    BY <1>4 DEF WriteCommitFailed
  <2>2. Ended(b) => Ended(b)'
    BY <1>0, <1>4 DEF WriteCommitFailed, TypeOK, Ended
  <2> QED
    BY <1>0, <2>1, <2>2, SettlesQuietly
<1>5. ASSUME NEW n \in Archives, CommitBeginUnlisted(n) PROVE Settles(b)'
  <2>1. UNCHANGED <<disk, phase2>> /\ faults \subseteq faults' /\ phase2[n].pc = "off"
    BY <1>5 DEF CommitBeginUnlisted, Fault
  <2>2. CASE b = n
    <3>1. job'[b] = "none" /\ task'[b] = "none" /\ cached'[b] = "none"
      BY <1>0, <1>5, <2>2 DEF CommitBeginUnlisted, TypeOK
    <3> QED
      BY <2>1, <2>2, <3>1 DEF Settles, TrackerAgrees, TaskFollows, ReportsTruth
  <2>3. CASE b # n
    <3>1. job'[b] = job[b] /\ task'[b] = task[b] /\ cached'[b] = cached[b]
      BY <1>0, <1>5, <2>3 DEF CommitBeginUnlisted, TypeOK
    <3> QED
      BY <1>0, <2>1, <3>1, SettlesQuietly DEF Ended
  <2> QED
    BY <2>2, <2>3
<1> QED
  BY <1>1, <1>2, <1>3, <1>4, <1>5 DEF CommitStep

(* Reconciling a first phase ends an archive, or leaves it as it was.       *)
LEMMA ReconcileEnds ==
  ASSUME TypeOK, NEW c \in Archives, Reconcile(c) \/ Unverified(c), done' = done
  PROVE  /\ \A b \in Archives : Ended(b) => Ended(b)'
         /\ Unverified(c) \/ ~Applied(c) => Ended(c)'
  BY DEF TypeOK, Reconcile, Unverified, Ended

(* So do the steps of a handler that are no report.                         *)
LEMMA SettleWork ==
  ASSUME SettleInv, NEW a \in Archives, NEW b \in Archives,
         \/ Fetch(a) \/ EnsureLegacy(a) \/ WaitReconciles(a) \/ WaitUnverified(a)
         \/ LockTimeout(a) \/ PrepareRaises(a)
         \/ Summary(a) \/ SummaryEmpty(a) \/ SummaryForgets(a)
         \/ (\E s \in MemorySteps : Extract(a, s) \/ Record(a, s) \/ RecordForgets(a, s))
         \/ (\E s \in MemorySteps \cup {"summary"} : StepFails(a, s))
         \/ Gathered(a) \/ MergeMeta(a) \/ HandlerRaises(a)
  PROVE  Settles(b)'
<1>0. TypeOK /\ Settles(b)
  BY DEF SettleInv
<1>1. UNCHANGED <<done, tracker>> /\ faults \subseteq faults'
  BY DEF Fetch, EnsureLegacy, WaitReconciles, WaitUnverified, Unverified, LockTimeout,
         PrepareRaises, Summary, SummaryEmpty, SummaryForgets, Extract, Record, RecordForgets,
         StepFails, Gathered, MergeMeta, HandlerRaises, Fault
<1>2. Ended(b) => Ended(b)'
  <2>1. CASE WaitReconciles(a) \/ WaitUnverified(a)
    <3>1. PICK c \in 1 .. a - 1 : Reconcile(c) \/ Unverified(c)
      BY <2>1 DEF WaitReconciles, WaitUnverified
    <3>2. c \in Archives
      BY BoundsAssumption DEF Archives
    <3> QED
      BY <1>0, <1>1, <3>1, <3>2, ReconcileEnds
  <2>2. CASE ~WaitReconciles(a) /\ ~WaitUnverified(a)
    <3>1. failed' = failed
      BY <2>2 DEF Fetch, EnsureLegacy, LockTimeout, PrepareRaises, Summary, SummaryEmpty,
                  SummaryForgets, Extract, Record, RecordForgets, StepFails, Gathered,
                  MergeMeta, HandlerRaises
    <3> QED
      BY <1>1, <3>1 DEF Ended
  <2> QED
    BY <2>1, <2>2
<1>3. job'[b] = "acked" => job[b] = "acked"
  BY <1>0 DEF Fetch, EnsureLegacy, WaitReconciles, WaitUnverified, LockTimeout, PrepareRaises,
              Summary, SummaryEmpty, SummaryForgets, Extract, Record, RecordForgets, StepFails,
              Gathered, MergeMeta, HandlerRaises, TypeOK
<1>4. \/ phase2'[b].pc \in {phase2[b].pc, "off", "begin"}
      \/ /\ phase2[b].pc \notin {"off", "begin"}
         /\ phase2'[b].pc \in {"ensure", "wait", "run", "meta", "done", "mark"}
  <2>1. CASE Fetch(a)
    BY <1>0, <2>1 DEF Fetch, TypeOK, NoPhase2
  <2>2. CASE EnsureLegacy(a)
    BY <1>0, <2>2, GoOnFields DEF EnsureLegacy
  <2>3. CASE WaitReconciles(a) \/ WaitUnverified(a)
    BY <2>3 DEF WaitReconciles, WaitUnverified
  <2>4. CASE LockTimeout(a)
    BY <1>0, <2>4, MarkFields DEF LockTimeout
  <2>5. CASE PrepareRaises(a)
    BY <1>0, <2>5, MarkFields DEF PrepareRaises
  <2>6. CASE \/ Summary(a) \/ SummaryEmpty(a) \/ SummaryForgets(a)
             \/ (\E s \in MemorySteps : Extract(a, s) \/ Record(a, s) \/ RecordForgets(a, s))
             \/ (\E s \in MemorySteps \cup {"summary"} : StepFails(a, s))
    BY <1>0, <2>6, WorkStays
  <2>7. CASE Gathered(a)
    <3>1. phase2[a].pc = "run"
      BY <2>7 DEF Gathered
    <3>2. CASE Mark(a, "extraction")
      BY <1>0, <3>1, <3>2, MarkFields
    <3>3. CASE Goto(a, "meta")
      BY <1>0, <3>1, <3>3, GotoFields
    <3> QED
      BY <2>7, <3>2, <3>3, Zenon DEF Gathered
  <2>8. CASE MergeMeta(a)
    BY <1>0, <2>8, GotoFields DEF MergeMeta
  <2>9. CASE HandlerRaises(a)
    BY <1>0, <2>9 DEF HandlerRaises, TypeOK, NoPhase2
  <2> QED
    BY <2>1, <2>2, <2>3, <2>4, <2>5, <2>6, <2>7, <2>8, <2>9
<1> QED
  BY <1>0, <1>1, <1>2, <1>3, <1>4, SettlesQuietly

(* So do the steps that change a task or end an archive.                    *)
LEMMA SettleReport ==
  ASSUME SettleInv, NEW a \in Archives, NEW b \in Archives,
         \/ Begin(a) \/ EnsureReady(a) \/ EnsureUnverified(a) \/ Prepares(a) \/ PrepareMisled(a)
         \/ WriteDone(a) \/ WriteFailed(a) \/ Report(a) \/ ReportFails(a) \/ Ack(a)
  PROVE  Settles(b)'
<1>0. TypeOK /\ Settles(a) /\ Settles(b)
  BY DEF SettleInv
<1>1. CASE Begin(a)
  <2> DEFINE x == IF done[a].on THEN IF Known(a) = "completed" THEN "ack" ELSE "known"
                  ELSE IF failed[a] # "none" THEN "giveup" ELSE "ensure"
  <2>1. UNCHANGED <<disk, job, faults>> /\ Create(a) /\ Goto(a, x)
    BY <1>1, Zenon DEF Begin
  <2>2. phase2'[a].pc = x /\ \A c \in Archives \ {a} : phase2'[c] = phase2[c]
    <3> HIDE DEF x
    <3> QED
      BY <1>0, <2>1, GotoFields
  <2>3. /\ TrackerAgrees(a)' /\ TaskFollows(a)' /\ cached'[a] # "none"
        /\ Told(a) => Told(a)'
        /\ Known(a) \in Terminal => Told(a)'
        /\ \A c \in Archives \ {a} : cached'[c] = cached[c] /\ task'[c] = task[c]
    BY <1>0, <2>1, SettlesCreated
  <2>4. ReportsTruth(a)'
    BY <1>0, <2>1, <2>2, <2>3 DEF Settles, ReportsTruth, Ended, Terminal
  <2>5. CASE b # a
    BY <1>0, <2>1, <2>2, <2>3, <2>5, SettlesQuietly DEF Ended
  <2> QED
    BY <2>3, <2>4, <2>5 DEF Settles
<1>2. CASE EnsureReady(a) \/ EnsureUnverified(a)
  <2>1. UNCHANGED <<done, job, tracker>> /\ faults \subseteq faults' /\ phase2[a].pc = "ensure"
    BY <1>2 DEF EnsureReady, EnsureUnverified, Unverified, Fault
  <2>2. \A c \in Archives : Ended(c) => Ended(c)'
    <3>1. CASE Reconcile(a) \/ Unverified(a)
      BY <1>0, <2>1, <3>1, ReconcileEnds
    <3>2. CASE failed' = failed
      BY <2>1, <3>2 DEF Ended
    <3> QED
      BY <1>2, <3>1, <3>2 DEF EnsureReady, EnsureUnverified
  <2>3. CASE GoOn(a)
    BY <1>0, <2>1, <2>2, <2>3, GoOnFields, SettlesQuietly
  <2>4. CASE Goto(a, "giveup") /\ Ended(a)'
    <3>1. phase2'[a].pc = "giveup" /\ \A c \in Archives \ {a} : phase2'[c] = phase2[c]
      BY <1>0, <2>4, GotoFields
    <3>2. CASE b = a
      BY <1>0, <2>1, <2>2, <2>4, <3>1, <3>2
         DEF Settles, TrackerAgrees, TaskFollows, ReportsTruth, Told
    <3>3. CASE b # a
      BY <1>0, <2>1, <2>2, <3>1, <3>3, SettlesQuietly
    <3> QED
      BY <3>2, <3>3
  <2>5. GoOn(a) \/ (Goto(a, "giveup") /\ Ended(a)')
    <3>1. CASE failed[a] # "none" /\ Goto(a, "giveup")
      BY <2>2, <3>1 DEF Ended
    <3>2. CASE Reconcile(a) /\ ~Applied(a) /\ Goto(a, "giveup")
      BY <1>0, <2>1, <3>2, ReconcileEnds
    <3>3. CASE EnsureUnverified(a)
      BY <1>0, <2>1, <3>3, ReconcileEnds DEF EnsureUnverified
    <3> QED
      BY <1>2, <3>1, <3>2, <3>3, Zenon DEF EnsureReady
  <2> QED
    BY <2>3, <2>4, <2>5
<1>3. CASE Prepares(a) \/ PrepareMisled(a)
  <2>1. /\ UNCHANGED <<disk, job>> /\ faults \subseteq faults' /\ Advance(a, "running")
        /\ phase2[a].pc = "wait" /\ cached[a] # "none"
    BY <1>0, <1>3 DEF Prepares, Prepare, PrepareForgets, PrepareMisled, Fault, Settles,
                      ReportsTruth
  <2>2. phase2'[a].pc = "run" /\ \A c \in Archives \ {a} : phase2'[c] = phase2[c]
    <3> HIDE DEF StartOn, StepsOf, MessagesOf
    <3>1. ASSUME NEW i, NEW S, NEW k, StartOn(a, i, S, k)
          PROVE  phase2'[a].pc = "run" /\ \A c \in Archives \ {a} : phase2'[c] = phase2[c]
      <4> DEFINE q == [phase2[a] EXCEPT !.pc = "run", !.input = i, !.from = Least(S \cup {a}),
                         !.absorbed = S, !.steps = k,
                         !.todo = {"summary"} \cup {s \in MemorySteps : ~(i \subseteq k[s])}]
      <4>1. phase2' = [phase2 EXCEPT ![a] = q]
        BY <3>1 DEF StartOn
      <4>2. q.pc = "run"
        BY <1>0 DEF TypeOK, Phase2s
      <4> HIDE DEF q
      <4> QED
        BY <1>0, <4>1, <4>2 DEF TypeOK
    <3> QED
      BY <1>3, <3>1, Zenon DEF Prepares, Prepare, PrepareForgets, PrepareMisled
  <2>3. /\ TrackerAgrees(a)' /\ TaskFollows(a)' /\ cached'[a] # "none"
        /\ Told(a) => Told(a)'
        /\ \A c \in Archives \ {a} : cached'[c] = cached[c] /\ task'[c] = task[c]
    BY <1>0, <2>1, SettlesAdvanced
  <2>4. ReportsTruth(a)'
    BY <1>0, <2>1, <2>2, <2>3 DEF Settles, ReportsTruth, Ended
  <2>5. CASE b # a
    BY <1>0, <2>1, <2>2, <2>3, <2>5, SettlesQuietly DEF Ended
  <2> QED
    BY <2>3, <2>4, <2>5 DEF Settles
<1>4. CASE WriteDone(a)
  <2>1. UNCHANGED <<failed, job, tracker, faults>> /\ phase2[a].pc = "done"
    BY <1>4 DEF WriteDone
  <2>2. phase2'[a].pc = "complete" /\ \A c \in Archives \ {a} : phase2'[c] = phase2[c]
    BY <1>0, <1>4, GotoFields DEF WriteDone
  <2>3. done'[a].on /\ \A c \in Archives \ {a} : done'[c] = done[c]
    BY <1>0, <1>4 DEF WriteDone, TypeOK
  <2>4. CASE b = a
    BY <1>0, <2>1, <2>2, <2>3, <2>4
       DEF Settles, TrackerAgrees, TaskFollows, ReportsTruth, Ended, Told
  <2>5. CASE b # a
    BY <1>0, <2>1, <2>2, <2>3, <2>5, SettlesQuietly DEF Ended
  <2> QED
    BY <2>4, <2>5
<1>5. CASE WriteFailed(a)
  <2>1. UNCHANGED <<done, job, tracker, faults>> /\ phase2[a].pc = "mark"
    BY <1>5 DEF WriteFailed
  <2>2. phase2'[a].pc = "giveup" /\ \A c \in Archives \ {a} : phase2'[c] = phase2[c]
    BY <1>0, <1>5, GotoFields DEF WriteFailed
  <2>3. failed'[a] # "none" /\ \A c \in Archives \ {a} : failed'[c] = failed[c]
    BY <1>0, <1>5 DEF WriteFailed, TypeOK, Phase2s, Causes
  <2>4. CASE b = a
    BY <1>0, <2>1, <2>2, <2>3, <2>4
       DEF Settles, TrackerAgrees, TaskFollows, ReportsTruth, Ended, Told
  <2>5. CASE b # a
    BY <1>0, <2>1, <2>2, <2>3, <2>5, SettlesQuietly DEF Ended
  <2> QED
    BY <2>4, <2>5
<1>6. CASE Report(a)
  <2> DEFINE status == IF phase2[a].pc = "giveup" THEN "failed" ELSE "completed"
  <2>1. /\ UNCHANGED <<disk, job, faults>> /\ Advance(a, status)
        /\ phase2[a].pc \in {"complete", "known", "giveup"}
    BY <1>6 DEF Report
  <2>2. phase2'[a].pc = "ack" /\ \A c \in Archives \ {a} : phase2'[c] = phase2[c]
    BY <1>0, <1>6, GotoFields DEF Report
  <2>3. /\ cached[a] # "none" /\ Ended(a)
        /\ status = "completed" => done[a].on
        /\ status \in Terminal
    BY <1>0, <2>1 DEF Settles, ReportsTruth, Ended, Terminal
  <2> HIDE DEF status
  <2>4. /\ TrackerAgrees(a)' /\ TaskFollows(a)' /\ cached'[a] # "none" /\ Told(a)'
        /\ \A c \in Archives \ {a} : cached'[c] = cached[c] /\ task'[c] = task[c]
    BY <1>0, <2>1, <2>3, SettlesAdvanced
  <2>5. ReportsTruth(a)'
    BY <2>1, <2>2, <2>3, <2>4 DEF ReportsTruth, Ended
  <2>6. CASE b # a
    BY <1>0, <2>1, <2>2, <2>4, <2>6, SettlesQuietly DEF Ended
  <2> QED
    BY <2>4, <2>5, <2>6 DEF Settles
<1>7. CASE ReportFails(a)
  <2> DEFINE status == IF phase2[a].pc = "giveup" THEN "failed" ELSE "completed"
  <2>1. /\ UNCHANGED <<disk, task>> /\ AdvanceFails(a, status)
        /\ phase2[a].pc \in {"complete", "known", "giveup"}
        /\ "task" \in faults' /\ faults \subseteq faults'
    BY <1>7 DEF ReportFails, AdvanceFails, Fault
  <2>2. /\ status = "completed" => done[a].on
        /\ status \in Terminal
    BY <1>0, <2>1 DEF Settles, ReportsTruth, Terminal
  <2> HIDE DEF status
  <2>3. cached'[a] = status /\ \A c \in Archives \ {a} : cached'[c] = cached[c]
    BY <1>0, <2>1 DEF AdvanceFails, TypeOK
  <2>4. /\ phase2'[a].pc \in {"mark", "off"}
        /\ \A c \in Archives \ {a} : phase2'[c] = phase2[c] /\ job'[c] = job[c]
        /\ job'[a] = "acked" => job[a] = "acked"
    <3>1. CASE Mark(a, "extraction") /\ UNCHANGED job
      BY <1>0, <3>1, MarkFields
    <3>2. CASE /\ phase2' = [phase2 EXCEPT ![a] = NoPhase2]
               /\ job' = [job EXCEPT ![a] = "stuck"]
      BY <1>0, <3>2 DEF TypeOK, NoPhase2
    <3> QED
      BY <1>7, <3>1, <3>2, Zenon DEF ReportFails
  <2>5. TrackerAgrees(a)' /\ TaskFollows(a)'
    BY <1>0, <2>1, <2>2, <2>3 DEF Settles, TrackerAgrees, TaskFollows
  <2>6. ReportsTruth(a)'
    BY <1>0, <2>1, <2>2, <2>3, <2>4 DEF Settles, ReportsTruth, Ended, Told, Terminal
  <2>7. CASE b # a
    BY <1>0, <2>1, <2>3, <2>4, <2>7, SettlesQuietly DEF Ended
  <2> QED
    BY <2>5, <2>6, <2>7 DEF Settles
<1>8. CASE Ack(a)
  <2>1. UNCHANGED <<disk, tracker, faults>> /\ phase2[a].pc = "ack"
    BY <1>8 DEF Ack
  <2>2. /\ phase2'[a].pc = "off"
        /\ \A c \in Archives \ {a} : phase2'[c] = phase2[c] /\ job'[c] = job[c]
    BY <1>0, <1>8 DEF Ack, TypeOK, NoPhase2
  <2>3. CASE b = a
    BY <1>0, <2>1, <2>2, <2>3
       DEF Settles, TrackerAgrees, TaskFollows, ReportsTruth, Ended, Told
  <2>4. CASE b # a
    BY <1>0, <2>1, <2>2, <2>4, SettlesQuietly DEF Ended
  <2> QED
    BY <2>3, <2>4
<1> QED
  BY <1>1, <1>2, <1>3, <1>4, <1>5, <1>6, <1>7, <1>8

(* And so does a crash.                                                     *)
LEMMA SettleCrash ==
  ASSUME SettleInv, Crash, NEW b \in Archives
  PROVE  Settles(b)'
<1>1. /\ UNCHANGED <<disk, task, faults>> /\ cached'[b] = "none"
      /\ phase2'[b].pc = "off" /\ (job'[b] = "acked" => job[b] = "acked")
  BY DEF Crash, NoPhase2
<1> QED
  BY <1>1 DEF SettleInv, Settles, TrackerAgrees, TaskFollows, ReportsTruth, Ended, Told

(* A commit message leaves the queue only when its archive has ended and    *)
(* its task says so (resume_queued_commit and the tracker's complete and    *)
(* fail), whatever was redelivered, raised or refused before.               *)
THEOREM AckedSettled == Spec => []AckedIsSettled
<1>1. Init => SettleInv
  <2> SUFFICES ASSUME Init PROVE SettleInv
    OBVIOUS
  <2>1. \A a \in Archives : /\ cached[a] = "none" /\ task[a] = "none" /\ job[a] = "none"
                             /\ phase2[a].pc = "off"
    BY DEF Init, NoPhase2
  <2>2. \A a \in Archives : Settles(a)
    BY <2>1 DEF Settles, TrackerAgrees, TaskFollows, ReportsTruth
  <2> QED
    BY <2>2, InitType DEF SettleInv
<1>2. SettleInv /\ [Next]_vars => SettleInv'
  <2> SUFFICES ASSUME SettleInv, [Next]_vars PROVE SettleInv'
    OBVIOUS
  <2>1. TypeOK'
    BY TypeStep DEF SettleInv
  <2>2. ASSUME NEW b \in Archives PROVE Settles(b)'
    <3>1. CASE \/ Append \/ (\E n \in Archives : CommitBegin(n)) \/ CommitStep
               \/ CommitFails \/ CommitFailedUnmarked
      BY <3>1, SettleCommit
    <3>2. ASSUME NEW a \in Archives, Fetch(a) \/ HandlerStep(a) \/ HandlerFault(a)
          PROVE  Settles(b)'
      BY <3>2, SettleWork, SettleReport DEF HandlerStep, HandlerFault, MemoryStep, Prepares
    <3>5. CASE Swallowed
      BY <3>5, SettleCommit, SettleWork, SettleReport DEF Swallowed, Forgets, Prepares
    <3>3. CASE Crash
      BY <3>3, SettleCrash
    <3>4. CASE UNCHANGED vars
      BY <3>4 DEF vars, SettleInv, Settles, TrackerAgrees, TaskFollows, ReportsTruth, Ended, Told
    <3> QED
      BY <3>1, <3>2, <3>3, <3>4, <3>5 DEF Next
  <2> QED
    BY <2>1, <2>2 DEF SettleInv
<1>3. SettleInv => AckedIsSettled
  BY DEF SettleInv, Settles, TaskFollows, ReportsTruth, Ended, Told, AckedIsSettled, Pending, Known
<1> QED
  BY <1>1, <1>2, <1>3, PTL DEF Spec
-----------------------------------------------------------------------------
(* The inductive invariant behind CompletedInOrder.                         *)
Working == {"wait", "run", "meta", "done", "mark", "complete"}

(* Where every intent could be read, a second phase that is past its check  *)
(* of the first has found it ready, and the archive has not failed as long  *)
(* as the handler is at work.                                               *)
ReadyFirst(a) ==
  /\ phase2[a].pc \in Working => phase1[a].status = "ready"
  /\ phase2[a].pc \in Active /\ phase1[a].status = "ready" => failed[a] = "none"

(* The archive of a running commit is neither ready nor failed.             *)
CommitIsOpen ==
  commit.pc # "idle" => phase1[commit.arch].status # "ready" /\ failed[commit.arch] = "none"

OpenInv == IntentLost \/ (CommitIsOpen /\ \A a \in Archives : ReadyFirst(a))

(* Then a directory without an intent was left by a first phase that never  *)
(* came to it, and is all there is of the archive.                          *)
CommitHasIntent ==
  commit.pc \in {"raw", "enqueue", "task", "root", "ready"} =>
    phase1[commit.arch].status # "bare"
BareIsAll(a) == phase1[a].status = "bare" => Untouched(a)
BareInv == IntentLost \/ (CommitHasIntent /\ \A a \in Archives : BareIsAll(a))

(* What came before a second phase that is prepared or done has ended.      *)
Past(a) == done[a].on \/ phase2[a].pc \in Prepared
EarlierEnded == \A c \in Archives : Past(c) => PreviousEnded(c)

(* Its input, and no later archive, has all that was archived before.       *)
InOrder(a) ==
  \A b \in 1 .. a :
    /\ phase2[a].pc \in Prepared => raw[b] \subseteq phase2[a].input \cup DigestedBy(a)
    /\ done[a].on => raw[b] \subseteq done[a].input \cup DigestedBy(a)

OrderInv ==
  OpenInv /\ BareInv /\ EarlierEnded /\ (IntentLost \/ \A a \in Archives : InOrder(a))

(* What one step may do to an archive: markers stay, only writing .done and *)
(* preparing make something of it, and a directory or a raw archive comes   *)
(* after all the others.                                                    *)
CommitMoves ==
  \/ Append \/ (\E n \in Archives : CommitBegin(n)) \/ CommitStep
  \/ CommitFails \/ CommitFailedUnmarked
Handles(a) == Fetch(a) \/ HandlerStep(a) \/ HandlerFault(a)
LastOne(b) == \A c \in Archives : c >= b => Untouched(c)
Kept(b) ==
  /\ overview[b] => overview'[b]
  /\ done[b].on => done'[b] = done[b]
  /\ done'[b].on => done[b].on \/ WriteDone(b)
  /\ phase2'[b].pc \in Prepared =>
       Prepares(b) \/ (phase2[b].pc \in Prepared /\ phase2'[b].input = phase2[b].input)
  /\ failed[b] # "none" => failed'[b] # "none"
  /\ phase1'[b].status # "none" => Exists(b) \/ LastOne(b)
  /\ raw'[b] = raw[b] \/ LastOne(b)

(* The steps of a commit.                                                   *)
LEMMA CommitKeeps ==
  ASSUME IInv, CommitMoves, NEW b \in Archives
  PROVE  Kept(b) /\ faults \subseteq faults'
<1>0. TypeOK
  BY DEF IInv
<1>1. UNCHANGED <<done, overview, phase2>> /\ faults \subseteq faults'
  BY DEF CommitMoves, Append, CommitBegin, CommitStep, MakeDir, WritePhase1Marker, WriteRaw,
     EnqueueJob, CreateTask, RewriteRoot, PublishReady, WriteCommitFailed, CommitFails,
     CommitFailedUnmarked, Fault
<1>2. failed[b] # "none" => failed'[b] # "none"
  <2>1. CASE WriteCommitFailed
    BY <1>0, <2>1 DEF WriteCommitFailed, TypeOK
  <2>2. CASE ~WriteCommitFailed
    BY <2>2 DEF CommitMoves, Append, CommitBegin, CommitStep, MakeDir, WritePhase1Marker, WriteRaw,
                EnqueueJob, CreateTask, RewriteRoot, PublishReady, CommitFails,
                CommitFailedUnmarked
  <2> QED
    BY <2>1, <2>2
<1>3. commit.pc \in {"marker", "raw"} => LastOne(commit.arch) /\ commit.arch \in Archives
  BY DEF IInv, CommitIsLast, CommitIsDurable, LastOne
<1>4. phase1'[b].status # "none" => Exists(b) \/ LastOne(b)
  <2>4. CASE MakeDir
    BY <1>0, <1>3, <2>4 DEF MakeDir, TypeOK, Exists
  <2>1. CASE WritePhase1Marker
    <3>1. phase1' = [phase1 EXCEPT ![commit.arch] =
                      [status |-> "preparing", out |-> commit.out, keep |-> commit.keep]]
      BY <2>1 DEF WritePhase1Marker
    <3> QED
      BY <1>0, <1>3, <2>1, <3>1 DEF WritePhase1Marker, TypeOK, Exists
  <2>2. CASE PublishReady
    <3>1. commit.arch \in Archives /\ Exists(commit.arch)
      BY <2>2 DEF PublishReady, IInv, CommitIsDurable
    <3>2. CASE b # commit.arch
      BY <1>0, <2>2, <3>2 DEF PublishReady, TypeOK, Exists
    <3> QED
      BY <3>1, <3>2
  <2>3. CASE ~MakeDir /\ ~WritePhase1Marker /\ ~PublishReady
    BY <2>3 DEF Exists, CommitMoves, Append, CommitBegin, CommitStep, WriteRaw, EnqueueJob,
       CreateTask, RewriteRoot, WriteCommitFailed, CommitFails, CommitFailedUnmarked
  <2> QED
    BY <2>1, <2>2, <2>3, <2>4
<1>5. raw'[b] = raw[b] \/ LastOne(b)
  <2>1. CASE WriteRaw
    BY <1>0, <1>3, <2>1 DEF WriteRaw, TypeOK
  <2>2. CASE ~WriteRaw
    BY <2>2 DEF CommitMoves, Append, CommitBegin, CommitStep, MakeDir, WritePhase1Marker,
       EnqueueJob, CreateTask, RewriteRoot, PublishReady, WriteCommitFailed, CommitFails,
       CommitFailedUnmarked
  <2> QED
    BY <2>1, <2>2
<1> QED
  BY <1>1, <1>2, <1>4, <1>5 DEF Kept

(* The steps of a handler.                                                  *)
LEMMA HandlerKeeps ==
  ASSUME IInv, NEW a \in Archives, Handles(a), NEW b \in Archives
  PROVE  Kept(b) /\ faults \subseteq faults'
<1> USE DEF Handles, HandlerStep, HandlerFault, MemoryStep
<1>0. TypeOK
  BY DEF IInv
<1>1. raw' = raw /\ faults \subseteq faults'
  BY DEF Fetch, Begin, EnsureReady, EnsureLegacy, EnsureUnverified, WaitUnverified,
     WaitReconciles, LockTimeout, Prepare, PrepareRaises, Summary, SummaryEmpty, Extract,
     Record, StepFails, Gathered, MergeMeta, WriteDone, WriteFailed, Report, ReportFails, Ack,
     HandlerRaises, Unverified, Fault
<1>2. overview[b] => overview'[b]
  <2>1. CASE Summary(a)
    BY <1>0, <2>1 DEF Summary, TypeOK
  <2>2. CASE ~Summary(a)
    BY <2>2 DEF Fetch, Begin, EnsureReady, EnsureLegacy, EnsureUnverified, WaitUnverified,
       WaitReconciles, LockTimeout, Prepare, PrepareRaises, SummaryEmpty, Extract, Record,
       StepFails, Gathered, MergeMeta, WriteDone, WriteFailed, Report, ReportFails, Ack,
       HandlerRaises
  <2> QED
    BY <2>1, <2>2
<1>3. (done[b].on => done'[b] = done[b]) /\ (done'[b].on => done[b].on \/ WriteDone(b))
  <2>1. CASE WriteDone(a)
    <3>1. ~done[a].on /\ \A c \in Archives \ {a} : done'[c] = done[c]
      BY <1>0, <2>1 DEF WriteDone, TypeOK, IInv, NotYetDone
    <3> QED
      BY <2>1, <3>1
  <2>2. CASE ~WriteDone(a)
    BY <2>2 DEF Fetch, Begin, EnsureReady, EnsureLegacy, EnsureUnverified, WaitUnverified,
       WaitReconciles, LockTimeout, Prepare, PrepareRaises, Summary, SummaryEmpty, Extract,
       Record, StepFails, Gathered, MergeMeta, WriteFailed, Report, ReportFails, Ack,
       HandlerRaises
  <2> QED
    BY <2>1, <2>2
<1>4. phase1'[b].status # "none" => Exists(b)
  <2>1. CASE EnsureReady(a)
    <3>1. phase2[a].pc = "ensure"
      BY <2>1 DEF EnsureReady
    <3>2. Exists(a)
      BY <3>1 DEF IInv, Absent, Untouched
    <3>3. b # a => phase1'[b] = phase1[b]
      BY <1>0, <2>1 DEF EnsureReady, Reconcile, TypeOK
    <3> QED
      BY <3>2, <3>3 DEF Exists
  <2>2. CASE WaitReconciles(a)
    <3>1. PICK c \in 1 .. a - 1 : Pending(c) /\ Reconcile(c)
      BY <2>2 DEF WaitReconciles
    <3>2. b # c => phase1'[b] = phase1[b]
      BY <1>0, <3>1 DEF Reconcile, TypeOK
    <3> QED
      BY <3>1, <3>2 DEF Pending, Exists
  <2>3. CASE ~EnsureReady(a) /\ ~WaitReconciles(a)
    <3>1. phase1' = phase1
      BY <2>3 DEF Fetch, Begin, EnsureLegacy, EnsureUnverified, WaitUnverified, Unverified,
         LockTimeout, Prepare, PrepareRaises, Summary,
         SummaryEmpty, Extract, Record, StepFails, Gathered, MergeMeta, WriteDone, WriteFailed,
         Report, ReportFails, Ack, HandlerRaises
    <3> QED
      BY <3>1 DEF Exists
  <2> QED
    BY <2>1, <2>2, <2>3
<1>5. failed[b] # "none" => failed'[b] # "none"
  <2>1. CASE EnsureReady(a)
    BY <1>0, <2>1 DEF EnsureReady, Reconcile, TypeOK
  <2>2. CASE WaitReconciles(a)
    BY <1>0, <2>2 DEF WaitReconciles, Reconcile, TypeOK
  <2>3. CASE WriteFailed(a)
    BY <1>0, <2>3 DEF WriteFailed, TypeOK, Phase2s, Causes
  <2>5. CASE EnsureUnverified(a) \/ WaitUnverified(a)
    BY <1>0, <2>5 DEF EnsureUnverified, WaitUnverified, Unverified, TypeOK
  <2>4. CASE /\ ~EnsureReady(a) /\ ~WaitReconciles(a) /\ ~WriteFailed(a)
             /\ ~EnsureUnverified(a) /\ ~WaitUnverified(a)
    BY <2>4 DEF Fetch, Begin, EnsureLegacy, LockTimeout, Prepare, PrepareRaises, Summary,
         SummaryEmpty, Extract, Record, StepFails, Gathered, MergeMeta, WriteDone,
         Report, ReportFails, Ack, HandlerRaises
  <2> QED
    BY <2>1, <2>2, <2>3, <2>4, <2>5
<1>6. ASSUME phase2'[b].pc \in Prepared
      PROVE  Prepares(b) \/ (phase2[b].pc \in Prepared /\ phase2'[b].input = phase2[b].input)
  <2> DEFINE Same == phase2[b].pc \in Prepared /\ phase2'[b].input = phase2[b].input
  <2> HIDE DEF Same
  <2>1. CASE phase2'[b] = phase2[b]
    BY <1>6, <2>1 DEF Same
  <2>2. CASE Fetch(a)
    <3>1. phase2'[a].pc = "begin" /\ \A c \in Archives \ {a} : phase2'[c] = phase2[c]
      BY <1>0, <2>2 DEF Fetch, TypeOK, NoPhase2
    <3> QED
      BY <1>6, <2>1, <3>1 DEF Prepared
  <2>3. CASE Begin(a)
    <3> DEFINE x == IF done[a].on THEN IF Known(a) = "completed" THEN "ack" ELSE "known"
                    ELSE IF failed[a] # "none" THEN "giveup" ELSE "ensure"
    <3>1. Goto(a, x) /\ x \notin Prepared
      <4>1. Goto(a, x)
        BY <2>3, Zenon DEF Begin
      <4>2. x \notin Prepared
        BY DEF Prepared
      <4> QED
        BY <4>1, <4>2
    <3> HIDE DEF x
    <3>2. phase2'[a].pc = x /\ \A c \in Archives \ {a} : phase2'[c] = phase2[c]
      BY <1>0, <3>1, GotoFields
    <3> QED
      BY <1>6, <2>1, <3>1, <3>2
  <2>4. CASE EnsureReady(a) \/ EnsureLegacy(a) \/ EnsureUnverified(a)
    <3>1. GoOn(a) \/ Goto(a, "giveup")
      BY <2>4, Zenon DEF EnsureReady, EnsureLegacy, EnsureUnverified
    <3>2. CASE GoOn(a)
      BY <1>0, <1>6, <2>1, <3>2, GoOnFields DEF Prepared
    <3>3. CASE Goto(a, "giveup")
      BY <1>0, <1>6, <2>1, <3>3, GotoFields DEF Prepared
    <3> QED
      BY <3>1, <3>2, <3>3
  <2>5. CASE WaitReconciles(a) \/ WaitUnverified(a)
    BY <2>1, <2>5 DEF WaitReconciles, WaitUnverified
  <2>6. CASE LockTimeout(a) \/ PrepareRaises(a)
    <3>1. \E c : Mark(a, c)
      BY <2>6, Zenon DEF LockTimeout, PrepareRaises
    <3> QED
      BY <1>0, <1>6, <2>1, <3>1, MarkFields DEF Prepared
  <2>7. CASE Prepare(a)
    <3>1. \A c \in Archives \ {a} : phase2'[c] = phase2[c]
      BY <1>0, <2>7, PreparesFields DEF Prepares
    <3> QED
      BY <2>1, <2>7, <3>1 DEF Prepares
  <2>8. CASE \/ Summary(a) \/ SummaryEmpty(a)
             \/ (\E s \in MemorySteps : Extract(a, s) \/ Record(a, s))
             \/ (\E s \in MemorySteps \cup {"summary"} : StepFails(a, s))
    BY <1>0, <1>6, <2>8, WorkStays DEF Same
  <2>9. CASE Gathered(a)
    <3>1. phase2[a].pc = "run"
      BY <2>9 DEF Gathered
    <3>2. CASE Mark(a, "extraction")
      BY <1>0, <1>6, <2>1, <3>2, MarkFields DEF Prepared
    <3>3. CASE Goto(a, "meta")
      BY <1>0, <2>1, <3>1, <3>3, GotoFields DEF Prepared, Same
    <3> QED
      BY <2>9, <3>2, <3>3, Zenon DEF Gathered
  <2>10. CASE MergeMeta(a)
    BY <1>0, <2>1, <2>10, GotoFields DEF MergeMeta, Prepared, Same
  <2>11. CASE WriteDone(a) \/ WriteFailed(a) \/ Report(a)
    <3>1. \E x \in {"complete", "giveup", "ack"} : Goto(a, x)
      BY <2>11 DEF WriteDone, WriteFailed, Report
    <3> QED
      BY <1>0, <1>6, <2>1, <3>1, GotoFields DEF Prepared
  <2>12. CASE ReportFails(a) \/ Ack(a) \/ HandlerRaises(a)
    <3>1. Mark(a, "extraction") \/ phase2' = [phase2 EXCEPT ![a] = NoPhase2]
      BY <2>12, Zenon DEF ReportFails, Ack, HandlerRaises
    <3>2. CASE Mark(a, "extraction")
      BY <1>0, <1>6, <2>1, <3>2, MarkFields DEF Prepared
    <3>3. CASE phase2' = [phase2 EXCEPT ![a] = NoPhase2]
      BY <1>0, <1>6, <2>1, <3>3 DEF TypeOK, NoPhase2, Prepared
    <3> QED
      BY <3>1, <3>2, <3>3
  <2> QED
    BY <2>2, <2>3, <2>4, <2>5, <2>6, <2>7, <2>8, <2>9, <2>10, <2>11, <2>12 DEF Same
<1> QED
  BY <1>1, <1>2, <1>3, <1>4, <1>5, <1>6 DEF Kept

(* The writes that forget what a .meta.json had.                            *)
LEMMA ForgetKeeps ==
  ASSUME IInv, PlanForgets \/ \E a \in Archives : Forgets(a), NEW b \in Archives
  PROVE  Kept(b)
<1>0. TypeOK
  BY DEF IInv
<1>1. CASE PlanForgets
  <2>1. Exists(commit.arch) /\ commit.arch \in Archives
    BY <1>1 DEF PlanForgets, IInv, CommitIsDurable
  <2>2. b # commit.arch => phase1'[b] = phase1[b]
    BY <1>0, <1>1 DEF PlanForgets, TypeOK
  <2>3. UNCHANGED <<overview, done, phase2, failed, raw>>
    BY <1>1 DEF PlanForgets
  <2> QED
    BY <2>1, <2>2, <2>3 DEF Kept, Exists
<1>2. ASSUME NEW a \in Archives, PrepareForgets(a) PROVE Kept(b)
  <2>1. Prepares(a)
    BY <1>2 DEF Prepares
  <2>2. UNCHANGED disk /\ \A c \in Archives \ {a} : phase2'[c] = phase2[c]
    BY <1>0, <2>1, PreparesFields
  <2> QED
    BY <2>1, <2>2 DEF Kept, Exists
<1>3. ASSUME NEW a \in Archives,
             SummaryForgets(a) \/ \E s \in MemorySteps : RecordForgets(a, s)
      PROVE  Kept(b)
  <2>1. phase2[a].pc = "run" /\ UNCHANGED <<done, failed, raw>>
    BY <1>3 DEF SummaryForgets, RecordForgets
  <2>2. Exists(a)
    BY <2>1 DEF IInv, Absent, Untouched
  <2>3. b # a => phase1'[b] = phase1[b]
    BY <1>0, <1>3 DEF SummaryForgets, RecordForgets, TypeOK
  <2>4. overview[b] => overview'[b]
    BY <1>0, <1>3 DEF SummaryForgets, RecordForgets, TypeOK
  <2>5. phase2'[b].pc = phase2[b].pc /\ phase2'[b].input = phase2[b].input
    BY <1>0, <1>3, WorkStays
  <2> QED
    BY <2>1, <2>2, <2>3, <2>4, <2>5 DEF Kept, Exists
<1> QED
  BY <1>1, <1>2, <1>3 DEF Forgets

(* A step that leaves the markers of the first phase alone.                 *)
LEMMA OpenMove ==
  ASSUME OpenInv, NEW a \in Archives, UNCHANGED <<phase1, failed, commit>>,
         faults \subseteq faults',
         \A b \in Archives \ {a} : phase2'[b].pc = phase2[b].pc,
         ~IntentLost' =>
           /\ phase2'[a].pc \in Working => phase1[a].status = "ready"
           /\ phase2'[a].pc \in Active /\ phase1[a].status = "ready" => failed[a] = "none"
  PROVE  OpenInv'
<1> SUFFICES ASSUME ~IntentLost' PROVE (CommitIsOpen /\ \A b \in Archives : ReadyFirst(b))'
  BY DEF OpenInv
<1>1. CommitIsOpen /\ \A b \in Archives : ReadyFirst(b)
  BY DEF OpenInv, IntentLost
<1>2. CommitIsOpen'
  BY <1>1 DEF CommitIsOpen
<1>3. ASSUME NEW b \in Archives PROVE ReadyFirst(b)'
  BY <1>1 DEF ReadyFirst
<1> QED
  BY <1>2, <1>3

(* The commits keep their archive open.                                     *)
LEMMA OpenCommit ==
  ASSUME IInv, OpenInv, CommitMoves
  PROVE  OpenInv'
<1>0. TypeOK /\ (commit.pc # "idle" => commit.arch \in Archives)
  BY DEF IInv, CommitIsDurable
<1>1. UNCHANGED phase2 /\ faults \subseteq faults'
  BY DEF CommitMoves, Append, CommitBegin, CommitStep, MakeDir, WritePhase1Marker, WriteRaw,
     EnqueueJob, CreateTask, RewriteRoot, PublishReady, WriteCommitFailed, CommitFails,
     CommitFailedUnmarked, Fault
<1> SUFFICES ASSUME ~IntentLost' PROVE (CommitIsOpen /\ \A b \in Archives : ReadyFirst(b))'
  BY DEF OpenInv
<1>2. CommitIsOpen /\ \A b \in Archives : ReadyFirst(b)
  BY <1>1 DEF OpenInv, IntentLost
<1>3. ASSUME NEW n \in Archives, CommitBegin(n)
      PROVE  (CommitIsOpen /\ \A b \in Archives : ReadyFirst(b))'
  <2>1. UNCHANGED <<phase1, failed>> /\ commit'.arch = n
    BY <1>3 DEF CommitBegin
  <2>2. ~Exists(n)
    BY <1>3 DEF CommitBegin, NextIndex, Archives
  <2>3. CommitIsOpen'
    BY <2>1, <2>2 DEF CommitIsOpen, Exists
  <2>4. ASSUME NEW b \in Archives PROVE ReadyFirst(b)'
    BY <1>1, <1>2, <2>1 DEF ReadyFirst
  <2> QED
    BY <2>3, <2>4
<1>8. CASE MakeDir
  <2>1. /\ commit.pc = "marker" /\ UNCHANGED <<failed, commit>>
        /\ phase1'[commit.arch].status = "bare"
        /\ \A b \in Archives \ {commit.arch} : phase1'[b] = phase1[b]
    BY <1>0, <1>8 DEF MakeDir, BareDir, TypeOK
  <2>2. Untouched(commit.arch)
    BY <1>0, <2>1 DEF IInv, CommitIsLast, Archives
  <2>3. CommitIsOpen'
    BY <1>2, <2>1 DEF CommitIsOpen
  <2>4. ASSUME NEW b \in Archives PROVE ReadyFirst(b)'
    BY <1>1, <1>2, <2>1, <2>2 DEF ReadyFirst, Untouched, Working, Active
  <2> QED
    BY <2>3, <2>4
<1>4. CASE WritePhase1Marker
  <2>1. /\ commit.pc = "marker" /\ UNCHANGED failed /\ commit'.arch = commit.arch
        /\ phase1'[commit.arch].status = "preparing"
        /\ \A b \in Archives \ {commit.arch} : phase1'[b] = phase1[b]
    BY <1>0, <1>4 DEF WritePhase1Marker, TypeOK, Commits
  <2>2. Untouched(commit.arch)
    BY <1>0, <2>1 DEF IInv, CommitIsLast, Archives
  <2>3. CommitIsOpen'
    BY <1>2, <2>1 DEF CommitIsOpen
  <2>4. ASSUME NEW b \in Archives PROVE ReadyFirst(b)'
    BY <1>1, <1>2, <2>1, <2>2 DEF ReadyFirst, Untouched, Working, Active
  <2> QED
    BY <2>3, <2>4
<1>5. CASE PublishReady
  <2>1. /\ commit.pc = "ready" /\ UNCHANGED failed /\ commit'.pc = "idle"
        /\ \A b \in Archives \ {commit.arch} : phase1'[b] = phase1[b]
    BY <1>0, <1>5 DEF PublishReady, TypeOK, NoCommit
  <2>2. phase1'[commit.arch].status = "ready" /\ failed[commit.arch] = "none"
    BY <1>0, <1>2, <1>5, <2>1 DEF PublishReady, TypeOK, Intents, CommitIsOpen
  <2>3. CommitIsOpen'
    BY <2>1 DEF CommitIsOpen
  <2>4. ASSUME NEW b \in Archives PROVE ReadyFirst(b)'
    BY <1>1, <1>2, <2>1, <2>2 DEF ReadyFirst
  <2> QED
    BY <2>3, <2>4
<1>6. CASE WriteCommitFailed
  <2>1. /\ commit.pc = "fail" /\ UNCHANGED phase1 /\ commit'.pc = "idle"
        /\ \A b \in Archives \ {commit.arch} : failed'[b] = failed[b]
    BY <1>0, <1>6 DEF WriteCommitFailed, TypeOK, NoCommit
  <2>2. phase1[commit.arch].status # "ready"
    BY <1>2, <2>1 DEF CommitIsOpen
  <2>3. CommitIsOpen'
    BY <2>1 DEF CommitIsOpen
  <2>4. ASSUME NEW b \in Archives PROVE ReadyFirst(b)'
    BY <1>1, <1>2, <2>1, <2>2 DEF ReadyFirst
  <2> QED
    BY <2>3, <2>4
<1>7. CASE \/ Append \/ WriteRaw \/ EnqueueJob \/ CreateTask \/ RewriteRoot \/ CommitFails
           \/ CommitFailedUnmarked
  <2>1. UNCHANGED <<phase1, failed>>
    BY <1>7 DEF Append, WriteRaw, EnqueueJob, CreateTask, RewriteRoot, CommitFails,
                CommitFailedUnmarked
  <2>2. commit'.pc # "idle" => commit.pc # "idle" /\ commit'.arch = commit.arch
    BY <1>0, <1>7 DEF Append, WriteRaw, EnqueueJob, CreateTask, RewriteRoot, CommitFails,
                CommitFailedUnmarked, NoCommit, TypeOK, Commits
  <2>3. CommitIsOpen'
    BY <1>2, <2>1, <2>2 DEF CommitIsOpen
  <2>4. ASSUME NEW b \in Archives PROVE ReadyFirst(b)'
    BY <1>1, <1>2, <2>1 DEF ReadyFirst
  <2> QED
    BY <2>3, <2>4
<1> QED
  BY <1>3, <1>4, <1>5, <1>6, <1>7, <1>8 DEF CommitMoves, CommitStep

(* Reconciling an interrupted first phase, which nobody is past: it is      *)
(* ready now, or it has failed and nobody will find it ready.               *)
LEMMA OpenReconcile ==
  ASSUME TypeOK, CommitIsOpen, \A b \in Archives : ReadyFirst(b), LockFree, commit' = commit,
         NEW c \in Archives, failed[c] = "none", phase1[c].status = "preparing", Reconcile(c)
  PROVE  /\ CommitIsOpen'
         /\ \A b \in Archives \ {c} : phase1'[b] = phase1[b] /\ failed'[b] = failed[b]
         /\ phase2[c].pc \notin Working
         /\ IF Applied(c) THEN phase1'[c].status = "ready" /\ failed'[c] = "none"
            ELSE phase1'[c].status = "preparing" /\ failed'[c] # "none"
<1>1. CommitIsOpen'
  BY DEF CommitIsOpen
<1>2. phase2[c].pc \notin Working
  BY DEF ReadyFirst
<1>3. CASE Applied(c)
  BY <1>1, <1>2, <1>3 DEF Reconcile, TypeOK, Intents
<1>4. CASE ~Applied(c)
  BY <1>1, <1>2, <1>4 DEF Reconcile, TypeOK, Intents
<1> QED
  BY <1>3, <1>4

(* A reconciled archive has an intent, as it had before.                    *)
LEMMA ReconcileKeepsIntents ==
  ASSUME TypeOK, NEW b \in Archives, NEW c \in Archives, Reconcile(c)
  PROVE  phase1'[b].status = "bare" => phase1[b].status = "bare"
<1>1. CASE Applied(c)
  <2>1. phase1' = [phase1 EXCEPT ![c].status = "ready"]
    BY <1>1 DEF Reconcile
  <2>2. CASE b = c
    BY <2>1, <2>2 DEF TypeOK, Intents
  <2>3. CASE b # c
    BY <2>1, <2>3 DEF TypeOK
  <2> QED
    BY <2>2, <2>3
<1>2. CASE ~Applied(c)
  BY <1>2 DEF Reconcile
<1> QED
  BY <1>1, <1>2

(* A handler leaves a commit and the archives nobody has touched alone.     *)
LEMMA HandlerOthers ==
  ASSUME TypeOK, NEW a \in Archives, Handles(a) \/ PrepareForgets(a), NEW b \in Archives
  PROVE  /\ commit' = commit
         /\ phase1'[b].status = "bare" => phase1[b].status = "bare"
         /\ Untouched(b) => Untouched(b)'
<1> USE DEF Handles, HandlerStep, HandlerFault, MemoryStep
<1>1. UNCHANGED <<commit, raw>>
  BY DEF Fetch, Begin, EnsureReady, EnsureLegacy, EnsureUnverified, WaitUnverified,
         WaitReconciles, LockTimeout, Prepare, PrepareForgets, PrepareRaises, Summary,
         SummaryEmpty, Extract, Record, StepFails, Gathered, MergeMeta, WriteDone, WriteFailed,
         Report, ReportFails, Ack, HandlerRaises
<1>2. phase1'[b].status = "bare" => phase1[b].status = "bare"
  <2>1. CASE \E c \in Archives : Reconcile(c)
    BY <2>1, ReconcileKeepsIntents
  <2>2. CASE phase1' = phase1
    BY <2>2
  <2>3. CASE WaitReconciles(a)
    BY <2>1, <2>3, BoundsAssumption DEF WaitReconciles, Archives
  <2>4. CASE EnsureReady(a)
    BY <2>1, <2>2, <2>4 DEF EnsureReady
  <2>5. CASE ~WaitReconciles(a) /\ ~EnsureReady(a)
    BY <2>2, <2>5 DEF Fetch, Begin, EnsureLegacy, EnsureUnverified, WaitUnverified, Unverified,
         LockTimeout, Prepare, PrepareForgets, PrepareRaises, Summary, SummaryEmpty, Extract,
         Record, StepFails, Gathered, MergeMeta, WriteDone, WriteFailed, Report, ReportFails,
         Ack, HandlerRaises
  <2> QED
    BY <2>3, <2>4, <2>5
<1>3. ASSUME Untouched(b) PROVE Untouched(b)'
  <2>1. CASE \/ Summary(a) \/ SummaryEmpty(a)
             \/ (\E s \in MemorySteps : Extract(a, s) \/ Record(a, s))
             \/ (\E s \in MemorySteps \cup {"summary"} : StepFails(a, s))
    <3>1. UNCHANGED <<raw, done, job>>
      BY <2>1 DEF Summary, SummaryEmpty, Extract, Record, StepFails
    <3>2. phase2'[b].pc = phase2[b].pc
      BY <2>1, WorkStays
    <3> QED
      BY <1>3, <3>1, <3>2 DEF Untouched
  <2> DEFINE Same == phase2'[b].pc = phase2[b].pc /\ job'[b] = job[b] /\ done'[b].on = done[b].on
  <2>2. Same => Untouched(b)'
    BY <1>1, <1>3 DEF Untouched
  <2>3. job[b] = "none" /\ phase2[b].pc = "off"
    BY <1>3 DEF Untouched
  <2>4. CASE Fetch(a)
    <3>1. b # a
      BY <2>3, <2>4 DEF Fetch
    <3> QED
      BY <2>2, <2>4, <3>1 DEF Fetch, TypeOK
  <2>5. CASE Begin(a)
    <3> DEFINE x == IF done[a].on THEN IF Known(a) = "completed" THEN "ack" ELSE "known"
                    ELSE IF failed[a] # "none" THEN "giveup" ELSE "ensure"
    <3>1. Goto(a, x)
      BY <2>5, Zenon DEF Begin
    <3>2. UNCHANGED <<job, done>> /\ phase2[a].pc = "begin"
      BY <2>5 DEF Begin
    <3> HIDE DEF x
    <3> QED
      BY <2>2, <2>3, <3>1, <3>2, GotoFields
  <2>6. CASE EnsureReady(a) \/ EnsureLegacy(a) \/ EnsureUnverified(a)
    <3>1. GoOn(a) \/ Goto(a, "giveup")
      BY <2>6, Zenon DEF EnsureReady, EnsureLegacy, EnsureUnverified
    <3>2. UNCHANGED <<job, done>> /\ phase2[a].pc = "ensure"
      BY <2>6 DEF EnsureReady, EnsureLegacy, EnsureUnverified
    <3> QED
      BY <2>2, <2>3, <3>1, <3>2, GotoFields, GoOnFields
  <2>7. CASE WaitReconciles(a) \/ WaitUnverified(a)
    BY <2>2, <2>7 DEF WaitReconciles, WaitUnverified
  <2>8. CASE LockTimeout(a) \/ PrepareRaises(a)
    <3>1. \E c : Mark(a, c)
      BY <2>8, Zenon DEF LockTimeout, PrepareRaises
    <3>2. UNCHANGED <<job, done>> /\ phase2[a].pc \in {"meta", "wait"}
      BY <2>8 DEF LockTimeout, PrepareRaises
    <3> QED
      BY <2>2, <2>3, <3>1, <3>2, MarkFields
  <2>9. CASE Prepares(a)
    BY <2>2, <2>3, <2>9, PreparesFields
  <2>10. CASE Gathered(a)
    <3>1. UNCHANGED <<job, done>> /\ phase2[a].pc = "run"
      BY <2>10 DEF Gathered
    <3>2. Mark(a, "extraction") \/ Goto(a, "meta")
      BY <2>10, Zenon DEF Gathered
    <3> QED
      BY <2>2, <2>3, <3>1, <3>2, MarkFields, GotoFields
  <2>11. CASE MergeMeta(a) \/ WriteDone(a) \/ WriteFailed(a) \/ Report(a)
    <3>1. /\ job' = job /\ phase2[a].pc \notin {"off", "begin"}
          /\ \E x \in {"done", "complete", "giveup", "ack"} : Goto(a, x)
      BY <2>11 DEF MergeMeta, WriteDone, WriteFailed, Report
    <3>2. b # a => done'[b] = done[b]
      BY <2>11 DEF MergeMeta, WriteDone, WriteFailed, Report, TypeOK
    <3> QED
      BY <2>2, <2>3, <3>1, <3>2, GotoFields
  <2>12. CASE ReportFails(a) \/ Ack(a) \/ HandlerRaises(a)
    <3>1. Mark(a, "extraction") \/ phase2' = [phase2 EXCEPT ![a] = NoPhase2]
      BY <2>12, Zenon DEF ReportFails, Ack, HandlerRaises
    <3>2. b # a => phase2'[b] = phase2[b]
      <4>1. CASE Mark(a, "extraction")
        BY <4>1, MarkFields
      <4>2. CASE phase2' = [phase2 EXCEPT ![a] = NoPhase2]
        BY <4>2 DEF TypeOK
      <4> QED
        BY <3>1, <4>1, <4>2
    <3>3. b # a /\ done' = done
      BY <2>3, <2>12 DEF ReportFails, Ack, HandlerRaises
    <3>4. job'[b] = job[b]
      BY <2>12, <3>3 DEF ReportFails, Ack, HandlerRaises, TypeOK
    <3> QED
      BY <2>2, <3>2, <3>3, <3>4
  <2> HIDE DEF Same
  <2> QED
    BY <2>1, <2>4, <2>5, <2>6, <2>7, <2>8, <2>9, <2>10, <2>11, <2>12 DEF Prepares
<1> QED
  BY <1>1, <1>2, <1>3

(* The handlers and the worker.                                             *)
LEMMA OpenHandler ==
  ASSUME IInv, OpenInv, BareInv, NEW a \in Archives, Handles(a) \/ PrepareForgets(a)
  PROVE  OpenInv'
<1> USE DEF Handles, HandlerStep, HandlerFault, MemoryStep, Working, Active
<1>0. TypeOK
  BY DEF IInv
<1>1. faults \subseteq faults'
  BY HandlerKeeps DEF PrepareForgets, Fault
<1> SUFFICES ASSUME ~IntentLost' PROVE OpenInv'
  BY DEF OpenInv
<1>2. CommitIsOpen /\ ReadyFirst(a) /\ \A b \in Archives : ReadyFirst(b)
  BY <1>1 DEF OpenInv, IntentLost
<1>3. CASE Fetch(a)
  <2>1. phase2'[a].pc = "begin" /\ \A c \in Archives \ {a} : phase2'[c] = phase2[c]
    BY <1>0, <1>3 DEF Fetch, TypeOK, NoPhase2
  <2> QED
    BY <1>1, <1>3, <2>1, OpenMove DEF Fetch
<1>4. CASE Begin(a)
  <2> DEFINE x == IF done[a].on THEN IF Known(a) = "completed" THEN "ack" ELSE "known"
                  ELSE IF failed[a] # "none" THEN "giveup" ELSE "ensure"
  <2>1. Goto(a, x)
    BY <1>4, Zenon DEF Begin
  <2>2. x \notin Working /\ (x \in Active => failed[a] = "none")
    OBVIOUS
  <2> HIDE DEF x
  <2>3. phase2'[a].pc = x /\ \A c \in Archives \ {a} : phase2'[c] = phase2[c]
    BY <1>0, <2>1, GotoFields
  <2> QED
    BY <1>1, <1>4, <2>2, <2>3, OpenMove DEF Begin
<1>5. CASE EnsureReady(a)
  <2>1. /\ phase2[a].pc = "ensure" /\ commit' = commit
        /\ phase1[a].status = "ready" => failed[a] = "none"
        /\ phase1[a].status # "bare"
    <3>1. phase2[a].pc = "ensure" /\ commit' = commit
      BY <1>5 DEF EnsureReady
    <3>2. BareIsAll(a)
      BY <1>1 DEF BareInv, IntentLost
    <3> QED
      BY <1>2, <3>1, <3>2 DEF ReadyFirst, BareIsAll, Untouched
  <2>2. CASE phase1[a].status = "ready" /\ GoOn(a) /\ UNCHANGED <<phase1, failed>>
    BY <1>0, <1>1, <2>1, <2>2, GoOnFields, OpenMove
  <2>3. CASE Goto(a, "giveup") /\ UNCHANGED <<phase1, failed>>
    BY <1>0, <1>1, <2>1, <2>3, GotoFields, OpenMove
  <2>4. CASE /\ phase1[a].status = "preparing" /\ failed[a] = "none" /\ LockFree
             /\ Reconcile(a)
             /\ IF Applied(a) THEN GoOn(a) ELSE Goto(a, "giveup")
    <3>1. /\ CommitIsOpen'
          /\ \A b \in Archives \ {a} : phase1'[b] = phase1[b] /\ failed'[b] = failed[b]
          /\ IF Applied(a) THEN phase1'[a].status = "ready" /\ failed'[a] = "none"
             ELSE phase1'[a].status = "preparing" /\ failed'[a] # "none"
      BY <1>0, <1>2, <2>1, <2>4, OpenReconcile
    <3>2. /\ \A b \in Archives \ {a} : phase2'[b] = phase2[b]
          /\ IF Applied(a) THEN phase2'[a].pc \in {"mark", "wait"} ELSE phase2'[a].pc = "giveup"
      <4>1. CASE Applied(a)
        BY <1>0, <2>4, <4>1, GoOnFields
      <4>2. CASE ~Applied(a)
        BY <1>0, <2>4, <4>2, GotoFields
      <4> QED
        BY <4>1, <4>2
    <3>3. ASSUME NEW b \in Archives PROVE ReadyFirst(b)'
      BY <1>2, <3>1, <3>2 DEF ReadyFirst
    <3> QED
      BY <3>1, <3>3 DEF OpenInv
  <2> QED
    BY <1>5, <2>1, <2>2, <2>3, <2>4 DEF EnsureReady
<1>6. CASE EnsureLegacy(a)
  BY <1>6 DEF EnsureLegacy, Fault, IntentLost
<1>15. CASE EnsureUnverified(a)
  <2>1. /\ phase1[a].status = "preparing" /\ UNCHANGED <<phase1, commit>>
        /\ \A b \in Archives \ {a} : failed'[b] = failed[b]
        /\ LockFree
    BY <1>0, <1>15 DEF EnsureUnverified, Unverified, TypeOK
  <2>2. phase2'[a].pc = "giveup" /\ \A b \in Archives \ {a} : phase2'[b] = phase2[b]
    BY <1>0, <1>15, GotoFields DEF EnsureUnverified
  <2>3. ASSUME NEW b \in Archives PROVE ReadyFirst(b)'
    BY <1>2, <2>1, <2>2 DEF ReadyFirst
  <2> QED
    BY <2>1, <2>3 DEF OpenInv, CommitIsOpen
<1>16. CASE WaitUnverified(a)
  <2>1. PICK c \in 1 .. a - 1 : phase1[c].status = "preparing" /\ Unverified(c)
    BY <1>16 DEF WaitUnverified
  <2>2. LockFree /\ UNCHANGED <<phase1, commit, phase2>> /\ c \in Archives
    BY <1>16, <2>1, BoundsAssumption DEF WaitUnverified, Unverified, Archives
  <2>3. \A b \in Archives \ {c} : failed'[b] = failed[b]
    BY <1>0, <2>1 DEF Unverified, TypeOK
  <2>4. ASSUME NEW b \in Archives PROVE ReadyFirst(b)'
    BY <1>2, <2>1, <2>2, <2>3 DEF ReadyFirst
  <2> QED
    BY <2>2, <2>4 DEF OpenInv, CommitIsOpen
<1>7. CASE WaitReconciles(a)
  <2>1. PICK c \in 1 .. a - 1 : Pending(c) /\ phase1[c].status = "preparing" /\ Reconcile(c)
    BY <1>7 DEF WaitReconciles
  <2>2. c \in Archives /\ failed[c] = "none" /\ LockFree /\ commit' = commit /\ phase2' = phase2
    BY <1>7, <2>1, BoundsAssumption DEF Archives, Pending, WaitReconciles
  <2>3. /\ CommitIsOpen'
        /\ \A b \in Archives \ {c} : phase1'[b] = phase1[b] /\ failed'[b] = failed[b]
        /\ phase2[c].pc \notin Working
        /\ IF Applied(c) THEN phase1'[c].status = "ready" /\ failed'[c] = "none"
           ELSE phase1'[c].status = "preparing" /\ failed'[c] # "none"
    BY <1>0, <1>2, <2>1, <2>2, OpenReconcile
  <2>4. ASSUME NEW b \in Archives PROVE ReadyFirst(b)'
    BY <1>2, <2>2, <2>3 DEF ReadyFirst
  <2> QED
    BY <2>3, <2>4 DEF OpenInv
<1>8. CASE LockTimeout(a) \/ PrepareRaises(a)
  <2>1. /\ phase2[a].pc \in {"meta", "wait"} /\ UNCHANGED <<phase1, failed, commit>>
        /\ \E c : Mark(a, c)
    BY <1>8, Zenon DEF LockTimeout, PrepareRaises
  <2> QED
    BY <1>0, <1>1, <1>2, <2>1, MarkFields, OpenMove DEF ReadyFirst
<1>9. CASE Prepares(a)
  <2>1. /\ phase2[a].pc = "wait" /\ UNCHANGED <<phase1, failed, commit>>
        /\ phase2'[a].pc = "run" /\ \A c \in Archives \ {a} : phase2'[c] = phase2[c]
    BY <1>0, <1>9, PreparesFields
  <2> QED
    BY <1>1, <1>2, <2>1, OpenMove DEF ReadyFirst
<1>10. CASE \/ Summary(a) \/ SummaryEmpty(a)
            \/ (\E s \in MemorySteps : Extract(a, s) \/ Record(a, s))
            \/ (\E s \in MemorySteps \cup {"summary"} : StepFails(a, s))
  <2>1. UNCHANGED <<phase1, failed, commit>>
    BY <1>10 DEF Summary, SummaryEmpty, Extract, Record, StepFails
  <2>2. \A b \in Archives : phase2'[b].pc = phase2[b].pc
    BY <1>0, <1>10, WorkStays
  <2> QED
    BY <1>1, <1>2, <2>1, <2>2, OpenMove DEF ReadyFirst
<1>11. CASE Gathered(a) \/ MergeMeta(a) \/ WriteDone(a)
  <2>1. phase2[a].pc \in {"run", "meta", "done"} /\ UNCHANGED <<phase1, failed, commit>>
    BY <1>11 DEF Gathered, MergeMeta, WriteDone
  <2>2. \/ Mark(a, "extraction") \/ Goto(a, "meta") \/ Goto(a, "done") \/ Goto(a, "complete")
    BY <1>11, Zenon DEF Gathered, MergeMeta, WriteDone
  <2>3. CASE Mark(a, "extraction")
    BY <1>0, <1>1, <1>2, <2>1, <2>3, MarkFields, OpenMove DEF ReadyFirst
  <2>4. ASSUME NEW x, Goto(a, x) PROVE OpenInv'
    BY <1>0, <1>1, <1>2, <2>1, <2>4, GotoFields, OpenMove DEF ReadyFirst
  <2> QED
    BY <2>2, <2>3, <2>4
<1>12. CASE WriteFailed(a)
  <2>1. /\ phase2[a].pc = "mark" /\ UNCHANGED <<phase1, commit>>
        /\ phase2'[a].pc = "giveup" /\ \A c \in Archives \ {a} : phase2'[c] = phase2[c]
        /\ \A c \in Archives \ {a} : failed'[c] = failed[c]
    BY <1>0, <1>12, GotoFields DEF WriteFailed, TypeOK
  <2>2. phase1[a].status = "ready"
    BY <1>2, <2>1 DEF ReadyFirst
  <2>3. CommitIsOpen'
    <3>1. commit.pc # "idle" => commit.arch \in Archives \ {a}
      BY <1>2, <2>2 DEF CommitIsOpen, IInv, CommitIsDurable
    <3> QED
      BY <1>2, <2>1, <3>1 DEF CommitIsOpen
  <2>4. ASSUME NEW b \in Archives PROVE ReadyFirst(b)'
    <3>1. CASE b = a
      BY <1>2, <2>1, <2>2, <3>1 DEF ReadyFirst, Working, Active
    <3>2. CASE b # a
      BY <1>2, <2>1, <3>2 DEF ReadyFirst
    <3> QED
      BY <3>1, <3>2
  <2> QED
    BY <2>3, <2>4 DEF OpenInv
<1>13. CASE Report(a)
  <2>1. Goto(a, "ack") /\ UNCHANGED <<phase1, failed, commit>>
    BY <1>13 DEF Report
  <2>2. phase2'[a].pc = "ack" /\ \A b \in Archives \ {a} : phase2'[b] = phase2[b]
    BY <1>0, <2>1, GotoFields
  <2> QED
    BY <1>0, <1>1, <2>1, <2>2, OpenMove
<1>14. CASE ReportFails(a) \/ Ack(a) \/ HandlerRaises(a)
  <2>1. UNCHANGED <<phase1, failed, commit>>
    BY <1>14 DEF ReportFails, Ack, HandlerRaises
  <2>2. \/ phase2[a].pc = "complete" /\ Mark(a, "extraction")
        \/ phase2' = [phase2 EXCEPT ![a] = NoPhase2]
    BY <1>14, Zenon DEF ReportFails, Ack, HandlerRaises
  <2>3. CASE phase2[a].pc = "complete" /\ Mark(a, "extraction")
    BY <1>0, <1>1, <1>2, <2>1, <2>3, MarkFields, OpenMove DEF ReadyFirst
  <2>4. CASE phase2' = [phase2 EXCEPT ![a] = NoPhase2]
    <3>1. phase2'[a].pc = "off" /\ \A c \in Archives \ {a} : phase2'[c] = phase2[c]
      BY <1>0, <2>4 DEF TypeOK, NoPhase2
    <3> QED
      BY <1>1, <2>1, <3>1, OpenMove
  <2> QED
    BY <2>2, <2>3, <2>4
<1> QED
  BY <1>3, <1>4, <1>5, <1>6, <1>7, <1>8, <1>9, <1>10, <1>11, <1>12, <1>13, <1>14,
     <1>15, <1>16 DEF Prepares

(* A directory without an intent stays alone.                               *)
LEMMA BareStep ==
  ASSUME IInv, BareInv, faults \subseteq faults',
         \/ CommitMoves \/ (\E a \in Archives : Handles(a) \/ PrepareForgets(a))
         \/ Crash \/ UNCHANGED vars
  PROVE  BareInv'
<1> SUFFICES ASSUME ~IntentLost' PROVE (CommitHasIntent /\ \A b \in Archives : BareIsAll(b))'
  BY DEF BareInv
<1>0. TypeOK /\ CommitHasIntent /\ \A b \in Archives : BareIsAll(b)
  BY DEF IInv, BareInv, IntentLost
<1>1. commit.pc # "idle" => commit.arch \in Archives
  BY DEF IInv, CommitIsDurable
<1>2. CASE MakeDir
  <2>1. /\ commit.pc = "marker" /\ UNCHANGED <<commit, raw, done, job, phase2>>
        /\ \A b \in Archives \ {commit.arch} : phase1'[b] = phase1[b]
    BY <1>0, <1>2 DEF MakeDir, TypeOK
  <2>2. Untouched(commit.arch)
    BY <1>1, <2>1 DEF IInv, CommitIsLast, Archives
  <2> QED
    BY <1>0, <2>1, <2>2 DEF CommitHasIntent, BareIsAll, Untouched
<1>3. CASE WritePhase1Marker
  <2>1. /\ commit.pc = "marker" /\ commit'.arch = commit.arch
        /\ UNCHANGED <<raw, done, job, phase2>>
        /\ phase1'[commit.arch].status = "preparing"
        /\ \A b \in Archives \ {commit.arch} : phase1'[b] = phase1[b]
    BY <1>0, <1>1, <1>3 DEF WritePhase1Marker, TypeOK, Commits
  <2> QED
    BY <1>0, <2>1 DEF CommitHasIntent, BareIsAll, Untouched
<1>4. CASE PublishReady
  <2>1. /\ commit'.pc = "idle" /\ UNCHANGED <<raw, done, job, phase2>>
        /\ \A b \in Archives \ {commit.arch} : phase1'[b] = phase1[b]
        /\ phase1'[commit.arch].status = "ready"
    BY <1>0, <1>1, <1>4 DEF PublishReady, NoCommit, TypeOK, Intents
  <2> QED
    BY <1>0, <2>1 DEF CommitHasIntent, BareIsAll, Untouched
<1>5. CASE WriteRaw \/ EnqueueJob
  <2>1. /\ commit.pc \in {"raw", "enqueue"} /\ commit'.arch = commit.arch
        /\ UNCHANGED <<phase1, done, phase2>>
        /\ \A b \in Archives \ {commit.arch} : raw'[b] = raw[b] /\ job'[b] = job[b]
    BY <1>0, <1>5 DEF WriteRaw, EnqueueJob, TypeOK, Commits
  <2>2. phase1[commit.arch].status # "bare"
    BY <1>0, <2>1 DEF CommitHasIntent
  <2> QED
    BY <1>0, <2>1, <2>2 DEF CommitHasIntent, BareIsAll, Untouched
<1>6. CASE \/ Append \/ (\E n \in Archives : CommitBegin(n)) \/ CreateTask \/ RewriteRoot
           \/ WriteCommitFailed \/ CommitFails \/ CommitFailedUnmarked
  <2>1. UNCHANGED <<phase1, raw, done, job, phase2>>
    BY <1>6 DEF Append, CommitBegin, CreateTask, RewriteRoot, WriteCommitFailed, CommitFails,
                CommitFailedUnmarked
  <2>2. \/ commit'.pc \in {"idle", "marker", "fail"}
        \/ /\ commit.pc \in {"raw", "enqueue", "task", "root", "ready"}
           /\ commit'.arch = commit.arch
    BY <1>0, <1>6 DEF Append, CommitBegin, CreateTask, RewriteRoot, WriteCommitFailed,
                CommitFails, CommitFailedUnmarked, NoCommit, TypeOK, Commits, CommitPCs
  <2> QED
    BY <1>0, <2>1, <2>2 DEF CommitHasIntent, BareIsAll, Untouched
<1>7. ASSUME NEW a \in Archives, Handles(a) \/ PrepareForgets(a)
      PROVE  (CommitHasIntent /\ \A b \in Archives : BareIsAll(b))'
  <2>1. commit' = commit
    BY <1>0, <1>7, HandlerOthers
  <2>2. ASSUME NEW b \in Archives
        PROVE  /\ phase1'[b].status = "bare" => phase1[b].status = "bare"
               /\ Untouched(b) => Untouched(b)'
    BY <1>0, <1>7, HandlerOthers
  <2>3. CommitHasIntent'
    BY <1>0, <1>1, <2>1, <2>2 DEF CommitHasIntent
  <2> QED
    BY <1>0, <2>2, <2>3 DEF BareIsAll
<1>8. CASE Crash
  <2>1. UNCHANGED disk /\ commit'.pc = "idle"
    BY <1>8 DEF Crash, NoCommit
  <2>2. ASSUME NEW b \in Archives, Untouched(b) PROVE Untouched(b)'
    BY <1>8, <2>2 DEF Crash, NoPhase2, Untouched
  <2> QED
    BY <1>0, <2>1, <2>2 DEF CommitHasIntent, BareIsAll
<1>9. CASE UNCHANGED vars
  BY <1>0, <1>9 DEF vars, CommitHasIntent, BareIsAll, Untouched
<1> QED
  BY <1>2, <1>3, <1>4, <1>5, <1>6, <1>7, <1>8, <1>9 DEF CommitMoves, CommitStep

(* What is digested by an archive stays digested by it.                     *)
LEMMA DigestedByGrows ==
  ASSUME \A b \in Archives : Kept(b), NEW a \in Archives
  PROVE  DigestedBy(a) \subseteq DigestedBy(a)'
<1> SUFFICES ASSUME NEW m \in DigestedBy(a) PROVE m \in DigestedBy(a)'
  OBVIOUS
<1>1. PICK b \in 1 .. a : done[b].on /\ overview[b] /\ m \in done[b].input
  BY DEF DigestedBy, Completed
<1>2. b \in Archives
  BY BoundsAssumption DEF Archives
<1> QED
  BY <1>1, <1>2 DEF Kept, DigestedBy, Completed

(* What has ended before an archive has ended for good, and nothing new     *)
(* comes before it.                                                         *)
LEMMA EndedForGood ==
  ASSUME IInv, \A b \in Archives : Kept(b), NEW c \in Archives, Past(c), PreviousEnded(c)
  PROVE  PreviousEnded(c)'
<1> SUFFICES ASSUME NEW b \in 1 .. c - 1, Pending(b)' PROVE FALSE
  BY DEF PreviousEnded
<1>1. b \in Archives /\ c >= b
  BY BoundsAssumption DEF Archives
<1>2. ~LastOne(b)
  BY <1>1 DEF Past, LastOne, Untouched, Prepared
<1>3. ~done[b].on /\ failed[b] = "none"
  BY <1>1 DEF Kept, Pending
<1>4. Exists(b)
  BY <1>1, <1>2 DEF Kept, Pending, Exists
<1> QED
  BY <1>3, <1>4 DEF PreviousEnded, Pending

(* When a second phase prepares its input, no later one is done: it would   *)
(* have waited.                                                             *)
LEMMA NoneOvertakes ==
  ASSUME IInv, OrderInv, ~IntentLost, NEW a \in Archives, phase2[a].pc = "wait",
         NEW c \in Archives, done[c].on
  PROVE  c <= a
<1>1. phase1[a].status = "ready" /\ failed[a] = "none"
  BY DEF OrderInv, OpenInv, ReadyFirst, Working, Active
<1>2. Pending(a)
  BY <1>1 DEF Pending, Exists, IInv, NotYetDone
<1>3. PreviousEnded(c)
  BY DEF OrderInv, EarlierEnded, Past
<1>4. a \notin 1 .. c - 1
  BY <1>2, <1>3 DEF PreviousEnded
<1> QED
  BY <1>4 DEF Archives

(* So what it leaves out of its input went into archives no later.          *)
LEMMA PrepareInOrder ==
  ASSUME IInv, OrderInv, ~IntentLost, NEW a \in Archives, Prepares(a), NEW b \in 1 .. a
  PROVE  raw[b] \subseteq Input(a) \cup DigestedBy(a)
<1>0. TypeOK /\ phase2[a].pc = "wait" /\ PreviousEnded(a) /\ b \in Archives
  BY BoundsAssumption, PreparesFields DEF IInv, Archives
<1>1. CASE b \in Replay(a) \cup {a}
  BY <1>1 DEF Input
<1>2. CASE b # a /\ ~Exists(b)
  BY <1>0, <1>2 DEF IInv, Absent, Untouched
<1>3. CASE b # a /\ Exists(b) /\ b \notin Replay(a)
  <2>1. b \in 1 .. a - 1
    BY <1>3 DEF Archives
  <2>2. Completed(b) \/ Failed(b)
    BY <1>0, <1>3, <2>1 DEF PreviousEnded, Pending, Completed, Failed
  <2>3. Completed(b) \/ Covered(b)
    BY <1>3, <2>1, <2>2 DEF Replay
  <2>4. PICK c \in Archives : Completed(c) /\ b <= c
    BY <1>0, <2>3 DEF Covered, Covers, Archives, TypeOK, Dones
  <2>5. c <= a
    BY <1>0, <2>4, NoneOvertakes DEF Completed
  <2>6. raw[b] \subseteq done[c].input \cup DigestedBy(c)
    BY <1>0, <2>4 DEF OrderInv, InOrder, Completed, Archives
  <2>7. done[c].input \subseteq DigestedBy(a) /\ DigestedBy(c) \subseteq DigestedBy(a)
    <3>1. c \in 1 .. a /\ 1 .. c \subseteq 1 .. a
      BY <2>5 DEF Archives
    <3> QED
      BY <2>4, <3>1 DEF DigestedBy
  <2> QED
    BY <2>6, <2>7
<1> QED
  BY <1>1, <1>2, <1>3

(* A step of the commits, a handler or the worker.                          *)
LEMMA OrderMove ==
  ASSUME IInv, OrderInv, OpenInv', BareInv', faults \subseteq faults', \A b \in Archives : Kept(b)
  PROVE  OrderInv'
<1>0. TypeOK
  BY DEF IInv
<1>1. ASSUME NEW c \in Archives, Past(c)' PROVE PreviousEnded(c)'
  <2>1. CASE Past(c)
    BY <2>1, EndedForGood DEF OrderInv, EarlierEnded
  <2>2. CASE Prepares(c)
    <3>1. UNCHANGED disk /\ PreviousEnded(c)
      BY <1>0, <2>2, PreparesFields
    <3> QED
      BY <3>1 DEF PreviousEnded, Pending, Exists
  <2>3. Past(c) \/ Prepares(c)
    BY <1>1 DEF Past, Kept, WriteDone, Prepared
  <2> QED
    BY <2>1, <2>2, <2>3
<1>2. ASSUME ~IntentLost', NEW a \in Archives PROVE InOrder(a)'
  <2> SUFFICES ASSUME NEW b \in 1 .. a
               PROVE  /\ phase2'[a].pc \in Prepared =>
                           raw'[b] \subseteq phase2'[a].input \cup DigestedBy(a)'
                      /\ done'[a].on => raw'[b] \subseteq done'[a].input \cup DigestedBy(a)'
    BY DEF InOrder
  <2>1. InOrder(a) /\ ~IntentLost
    BY <1>2 DEF OrderInv, IntentLost
  <2>2. DigestedBy(a) \subseteq DigestedBy(a)'
    BY DigestedByGrows
  <2>3. b \in Archives /\ a >= b
    BY BoundsAssumption DEF Archives
  <2>4. phase2[a].pc \in Prepared \cup {"wait"} \/ done[a].on => raw'[b] = raw[b]
    BY <2>3 DEF Kept, LastOne, Untouched, Prepared
  <2>5. ASSUME phase2'[a].pc \in Prepared
        PROVE  raw'[b] \subseteq phase2'[a].input \cup DigestedBy(a)'
    <3>1. CASE Prepares(a)
      <4>1. phase2[a].pc = "wait" /\ phase2'[a].input = Input(a)
        BY <1>0, <3>1, PreparesFields
      <4>2. raw[b] \subseteq Input(a) \cup DigestedBy(a)
        BY <2>1, <3>1, PrepareInOrder
      <4> QED
        BY <2>2, <2>4, <4>1, <4>2
    <3>2. CASE phase2[a].pc \in Prepared /\ phase2'[a].input = phase2[a].input
      BY <2>1, <2>2, <2>4, <3>2 DEF InOrder
    <3> QED
      BY <2>5, <3>1, <3>2 DEF Kept
  <2>6. ASSUME done'[a].on
        PROVE  raw'[b] \subseteq done'[a].input \cup DigestedBy(a)'
    <3>1. CASE done[a].on
      BY <2>1, <2>2, <2>4, <3>1 DEF InOrder, Kept
    <3>2. CASE WriteDone(a)
      <4>1. phase2[a].pc \in Prepared /\ done'[a].input = phase2[a].input
        BY <1>0, <3>2 DEF WriteDone, TypeOK, Prepared
      <4> QED
        BY <2>1, <2>2, <2>4, <4>1 DEF InOrder
    <3> QED
      BY <2>6, <3>1, <3>2 DEF Kept
  <2> QED
    BY <2>5, <2>6
<1> QED
  BY <1>1, <1>2 DEF OrderInv, EarlierEnded

(* It holds at the start.                                                   *)
LEMMA OrderInit == Init => OrderInv
<1> SUFFICES ASSUME Init PROVE OrderInv
  OBVIOUS
<1>1. /\ commit.pc = "idle"
      /\ \A a \in Archives : ~done[a].on /\ phase2[a].pc = "off"
  BY DEF Init, NoCommit, NotDone, NoPhase2
<1>2. OpenInv /\ BareInv
  BY <1>1 DEF OpenInv, CommitIsOpen, ReadyFirst, Working, Active, BareInv, CommitHasIntent,
              BareIsAll, Init, NoIntent
<1> QED
  BY <1>1, <1>2 DEF OrderInv, EarlierEnded, Past, InOrder, Prepared

(* The steps of a specification nobody misleads.                            *)
LEMMA NextCases ==
  ASSUME [Next]_vars, ~Misled'
  PROVE  \/ CommitMoves \/ PlanForgets \/ (\E a \in Archives : Handles(a) \/ Forgets(a))
         \/ Crash \/ UNCHANGED vars
  BY MisleadingShows DEF Next, Swallowed, CommitMoves, Handles

(* Every step preserves the order, unless the code is misled.               *)
LEMMA OrderStep == IInv /\ OrderInv /\ [Next]_vars /\ ~Misled' => OrderInv'
<1> SUFFICES ASSUME IInv, OrderInv, [Next]_vars, ~Misled' PROVE OrderInv'
  OBVIOUS
<1>0. faults \subseteq faults'
  BY FaultsGrow
<1>1. OpenInv /\ BareInv
  BY DEF OrderInv
<1>2. CASE CommitMoves
  <2>1. \A b \in Archives : Kept(b)
    BY <1>2, CommitKeeps
  <2>2. OpenInv' /\ BareInv'
    BY <1>0, <1>1, <1>2, OpenCommit, BareStep
  <2> QED
    BY <1>0, <2>1, <2>2, OrderMove
<1>3. ASSUME NEW a \in Archives, Handles(a) PROVE OrderInv'
  <2>1. \A b \in Archives : Kept(b)
    BY <1>3, HandlerKeeps
  <2>2. OpenInv' /\ BareInv'
    BY <1>0, <1>1, <1>3, OpenHandler, BareStep
  <2> QED
    BY <1>0, <2>1, <2>2, OrderMove
<1>5. ASSUME PlanForgets \/ \E a \in Archives : Forgets(a) PROVE OrderInv'
  <2>1. \A b \in Archives : Kept(b)
    BY <1>5, ForgetKeeps
  <2>2. OpenInv' /\ BareInv'
    <3>1. ASSUME NEW a \in Archives, PrepareForgets(a) PROVE OpenInv' /\ BareInv'
      BY <1>0, <1>1, <3>1, OpenHandler, BareStep
    <3>2. CASE \A a \in Archives : ~PrepareForgets(a)
      <4>1. IntentLost'
        BY <1>5, <3>2 DEF PlanForgets, Forgets, SummaryForgets, RecordForgets, Fault, IntentLost
      <4> QED
        BY <4>1 DEF OpenInv, BareInv
    <3> QED
      BY <3>1, <3>2
  <2> QED
    BY <1>0, <2>1, <2>2, OrderMove
<1>4. CASE Crash \/ UNCHANGED vars
  <2>1. /\ UNCHANGED disk /\ faults' = faults
        /\ commit'.pc = "idle" \/ commit' = commit
        /\ \A b \in Archives : phase2'[b].pc = "off" \/ phase2'[b] = phase2[b]
    <3>1. CASE Crash
      <4>1. \A b \in Archives : phase2'[b] = NoPhase2
        BY <3>1 DEF Crash
      <4> QED
        BY <3>1, <4>1 DEF Crash, NoCommit, NoPhase2
    <3>2. CASE UNCHANGED vars
      BY <3>2 DEF vars
    <3> QED
      BY <1>4, <3>1, <3>2
  <2>2. \A b \in Archives : Kept(b)
    BY <2>1 DEF Kept, Prepared, Exists
  <2>3. CommitIsOpen => CommitIsOpen'
    BY <2>1 DEF CommitIsOpen
  <2>4. ASSUME NEW b \in Archives, ReadyFirst(b) PROVE ReadyFirst(b)'
    BY <2>1, <2>4 DEF ReadyFirst, Working, Active
  <2>5. OpenInv' /\ BareInv'
    BY <1>0, <1>1, <1>4, <2>1, <2>3, <2>4, BareStep DEF OpenInv, IntentLost
  <2> QED
    BY <2>1, <2>2, <2>5, OrderMove
<1> QED
  BY <1>2, <1>3, <1>4, <1>5, NextCases

(* When an archive is completed (.done and .overview.md), all that was      *)
(* archived up to it has gone into completed archives, and into none later  *)
(* unless an intent could not be read or was erased                         *)
(* (_wait_for_previous_archive_done, _prepare_phase2_archive_messages,      *)
(* _merge_archive_meta), for any number of archives, handlers, faults and   *)
(* crashes, as long as no listing or scan of the archives fails unnoticed.  *)
THEOREM Ordered == Spec => []CompletedInOrder
<1>1. Init => IInv /\ OrderInv
  BY InitInvariant, OrderInit
<1>2. IInv /\ OrderInv => CompletedInOrder
  <2> SUFFICES ASSUME IInv, OrderInv, NEW a \in Archives, Completed(a), NEW b \in 1 .. a
               PROVE  raw[b] \subseteq IF IntentLost THEN Digested ELSE DigestedBy(a)
    BY DEF CompletedInOrder
  <2>1. done[a].on /\ a \in 1 .. a
    BY DEF Completed, Archives
  <2>2. raw[b] \subseteq Digested
    <3>1. raw[b] \subseteq done[a].input \cup Digested
      BY <2>1 DEF IInv, DoneCovers
    <3> QED
      BY <3>1 DEF Digested
  <2>3. ~IntentLost => raw[b] \subseteq DigestedBy(a)
    <3>1. ~IntentLost => raw[b] \subseteq done[a].input \cup DigestedBy(a)
      BY <2>1 DEF OrderInv, InOrder
    <3> QED
      BY <2>1, <3>1 DEF DigestedBy
  <2> QED
    BY <2>2, <2>3
<1>3. Misled \/ (IInv /\ OrderInv) => CompletedInOrder
  BY <1>2 DEF CompletedInOrder
<1>4. Spec => [](Misled \/ (IInv /\ OrderInv))
  BY <1>1, InvariantStep, OrderStep, MisledStays, PTL DEF Spec
<1> QED
  BY <1>3, <1>4, PTL
=============================================================================
