--------------------------- MODULE QueueFSProofs ---------------------------
(* Proofs about QueueFS, for every set of jobs and queues, every degree of  *)
(* concurrency and every number of messages and restarts.                   *)
EXTENDS QueueFS, FiniteSetTheorems, TLAPS

(* Abbreviations of the specification that every proof may expand.          *)
USE DEF Rows, Tasks, Stages, Owed, RowsOf, TasksOf, Pending, Down,
        manager, history, Move, Count

(* The idle wait_complete call is well typed.                               *)
LEMMA NoWaitType == NoWait \in WaitStates
BY DEF NoWait, WaitStates

(* Moving on to the next queue keeps the type of a wait_complete call.      *)
LEMMA NextQueueType ==
  ASSUME NEW w \in WaitStates, NEW v \in BOOLEAN
  PROVE  [w EXCEPT !.pc = "size", !.at = @ + 1, !.pending = FALSE, !.ok = v] \in WaitStates
<1>1. w.at + 1 \in Nat
  BY DEF WaitStates
<1>2. ASSUME NEW n \in Nat
      PROVE  [w EXCEPT !.pc = "size", !.at = n, !.pending = FALSE, !.ok = v] \in WaitStates
  BY Zenon DEF WaitStates
<1> QED
  BY <1>1, <1>2

(* The initial states satisfy the invariant.                                *)
LEMMA InitInv == Init => IInv
<1> SUFFICES ASSUME Init PROVE IInv
  OBVIOUS
<1>1. rows = {} /\ tasks = {}
  BY DEF Init
<1>2. TypeOK
  <2>1. wait \in WaitStates
    BY NoWaitType DEF Init
  <2>2. inProgress \in [Queues -> Int]
    BY DEF Init
  <2>3. worker \in [Queues -> {"loop", "drain", "off"}]
    BY DEF Init
  <2>4. nextId \in Nat /\ restarts \in Nat
    BY DEF Init
  <2>5. rows = {} /\ tasks = {} /\ recent = {} /\ settled = {} /\ waived = {} /\ stopping \in BOOLEAN
    BY DEF Init
  <2> QED
    BY <2>1, <2>2, <2>3, <2>4, <2>5, Zenon DEF TypeOK
<1> QED
  BY <1>1, <1>2
     DEF IInv, Identity, IdsFresh, IdsUnique, TaskRow, RunOwed, OffIdle, AckIsSafe, NothingStranded

(* Every step preserves the types.                                          *)
LEMMA TypeStep == TypeOK /\ [Next]_vars => TypeOK'
<1> SUFFICES ASSUME TypeOK, [Next]_vars PROVE TypeOK'
  OBVIOUS
<1> USE QueueOfAssumption, OutputsAssumption DEF TypeOK
<1>1. ASSUME NEW j \in Jobs, Enqueue(j) PROVE TypeOK'
  BY <1>1 DEF Enqueue, AddRow
<1>2. ASSUME NEW j \in Jobs, WindowPasses(j) PROVE TypeOK'
  BY <1>2 DEF WindowPasses
<1>3. ASSUME NEW q \in Queues, Clear(q) PROVE TypeOK'
  BY <1>3 DEF Clear
<1>4. ASSUME NEW q \in Queues, Fetch(q) PROVE TypeOK'
  BY <1>4 DEF Fetch
<1>4f. ASSUME NEW q \in Queues, FetchFails(q) PROVE TypeOK'
  BY <1>4f DEF FetchFails
<1>5. ASSUME NEW q \in Queues, LeaveLoop(q) PROVE TypeOK'
  BY <1>5 DEF LeaveLoop
<1>6. ASSUME NEW q \in Queues, Cancel(q) PROVE TypeOK'
  BY <1>6 DEF Cancel
<1>7. ASSUME NEW q \in Queues, Exit(q) PROVE TypeOK'
  BY <1>7, NoWaitType DEF Exit
<1>8. ASSUME NEW t \in tasks, Start(t) PROVE TypeOK'
  BY <1>8 DEF Start
<1>9. ASSUME NEW t \in tasks, Report(t) PROVE TypeOK'
  BY <1>9 DEF Report
<1>10. ASSUME NEW t \in tasks, Reenqueue(t) PROVE TypeOK'
  BY <1>10 DEF Reenqueue, AddRow
<1>11. ASSUME NEW t \in tasks, ReportRequeue(t) PROVE TypeOK'
  BY <1>11 DEF ReportRequeue
<1>12. ASSUME NEW t \in tasks, Raise(t) PROVE TypeOK'
  BY <1>12 DEF Raise
<1>13. ASSUME NEW t \in tasks, NEW j \in Jobs, Emit(t, j) PROVE TypeOK'
  BY <1>13 DEF Emit, AddRow
<1>14. ASSUME NEW t \in tasks, Ack(t) PROVE TypeOK'
  BY <1>14 DEF Ack
<1>15. ASSUME NEW t \in tasks, AckFails(t) PROVE TypeOK'
  BY <1>15 DEF AckFails
<1>16. CASE Stop
  BY <1>16 DEF Stop
<1>17. CASE Crash
  BY <1>17, NoWaitType DEF Crash
<1>18. CASE Restart
  <2>1. \A r \in rows : [r EXCEPT !.status = "pending"] \in Rows
    OBVIOUS
  <2>2. rows' \subseteq Rows
    BY <2>1, <1>18 DEF Restart
  <2>3. inProgress' \in [Queues -> Int] /\ worker' \in [Queues -> {"loop", "drain", "off"}]
    BY <1>18 DEF Restart
  <2>4. restarts' \in Nat
    BY <1>18 DEF Restart
  <2>6. stopping' \in BOOLEAN /\ recent' = {}
    BY <1>18, Zenon DEF Restart
  <2>5. UNCHANGED <<nextId, tasks, wait, settled, waived>>
    BY <1>18 DEF Restart
  <2> QED
    BY <2>2, <2>3, <2>4, <2>5, <2>6, Zenon
<1>19. CASE StartWait
  <2>1. Owed \subseteq Jobs
    OBVIOUS
  <2>2. wait' \in WaitStates
    BY <2>1, <1>19 DEF StartWait, NoWait, WaitStates
  <2> QED
    BY <2>2, <1>19 DEF StartWait
<1>20. CASE ReadSize
  <2>1. wait' \in WaitStates
    BY <1>20 DEF ReadSize, WaitStates
  <2> QED
    BY <2>1, <1>20 DEF ReadSize
<1>21. CASE ReadCount
  <2> DEFINE ok == wait.ok /\ ~wait.pending /\ inProgress[StatusOrder[wait.at]] = 0
  <2>1. ok \in BOOLEAN
    BY DEF WaitStates
  <2> HIDE DEF ok
  <2>2. \/ wait' = [wait EXCEPT !.pc = "size", !.at = @ + 1, !.pending = FALSE, !.ok = ok]
        \/ wait' = [wait EXCEPT !.pc = "done"]
        \/ wait' = [wait EXCEPT !.pc = "size", !.at = 1, !.pending = FALSE, !.ok = TRUE]
    BY <1>21 DEF ReadCount, ok
  <2>3. [wait EXCEPT !.pc = "size", !.at = @ + 1, !.pending = FALSE, !.ok = ok] \in WaitStates
    BY <2>1, NextQueueType
  <2>4. /\ [wait EXCEPT !.pc = "done"] \in WaitStates
        /\ [wait EXCEPT !.pc = "size", !.at = 1, !.pending = FALSE, !.ok = TRUE] \in WaitStates
    BY DEF WaitStates
  <2>5. wait' \in WaitStates
    BY <2>1, <2>2, <2>3, <2>4, Zenon
  <2> QED
    BY <2>5, <1>21 DEF ReadCount
<1>22. CASE EndWait
  BY <1>22, NoWaitType DEF EndWait
<1>23. CASE UNCHANGED vars
  BY <1>23 DEF vars
<1> QED
  BY <1>1, <1>2, <1>3, <1>4, <1>4f, <1>5, <1>6, <1>7, <1>8, <1>9, <1>10, <1>11, <1>12,
     <1>13, <1>14, <1>15, <1>16, <1>17, <1>18, <1>19, <1>20, <1>21, <1>22, <1>23
     DEF Next, TaskStep, Handler, Poll

(* What an enqueue does when nothing is deduplicated.                       *)
LEMMA AddRowAdds ==
  ASSUME TypeOK, Deduped = {}, NEW j \in Jobs, AddRow(j)
  PROVE  /\ rows' = rows \cup {[id |-> nextId, job |-> j, status |-> "pending"]}
         /\ nextId' = nextId + 1
BY DEF AddRow, TypeOK

(* Every step keeps ids unique, tasks in agreement with their rows, and     *)
(* workers that are off without tasks, deduplication or not.                *)
LEMMA IdentityStep ==
  ASSUME TypeOK, TypeOK', Identity, [Next]_vars
  PROVE  Identity'
<1> USE QueueOfAssumption, OutputsAssumption DEF TypeOK, Identity
<1>a. ASSUME NEW j \in Jobs, AddRow(j), NEW t \in tasks, NEW u \in Tasks,
             u.id = t.id, u.job = t.job, tasks' = (tasks \ {t}) \cup {u}, UNCHANGED worker
      PROVE  Identity'
  <2>1. \/ rows' = rows /\ nextId' = nextId
        \/ /\ rows' = rows \cup {[id |-> nextId, job |-> j, status |-> "pending"]}
           /\ nextId' = nextId + 1
    BY <1>a DEF AddRow
  <2>2. IdsFresh'
    BY <2>1, <1>a DEF IdsFresh
  <2>3. \A r1, r2 \in rows' : r1.id = r2.id => r1 = r2
    BY <2>1 DEF IdsUnique, IdsFresh
  <2>4. \A t1, t2 \in tasks' : t1.id = t2.id => t1 = t2
    BY <1>a DEF IdsUnique
  <2>5. TaskRow'
    BY <2>1, <1>a DEF TaskRow, IdsFresh
  <2>6. OffIdle'
    BY <1>a DEF OffIdle
  <2> QED
    BY <2>2, <2>3, <2>4, <2>5, <2>6 DEF IdsUnique
<1>m. ASSUME NEW t \in tasks, NEW s \in Stages, Move(t, s), UNCHANGED <<rows, nextId, worker>>
      PROVE  Identity'
  BY <1>m DEF IdsFresh, IdsUnique, TaskRow, OffIdle
<1>d. ASSUME tasks' \subseteq tasks, rows' \subseteq rows, UNCHANGED nextId,
             \A q \in Queues : worker'[q] = "off" =>
               worker[q] = "off" \/ \A t \in tasks' : QueueOf[t.job] # q
      PROVE  Identity'
  BY <1>d DEF IdsFresh, IdsUnique, TaskRow, OffIdle
<1>1. ASSUME NEW j \in Jobs, Enqueue(j) PROVE Identity'
  BY <1>1 DEF Enqueue, AddRow, IdsFresh, IdsUnique, TaskRow, OffIdle
<1>2. ASSUME NEW j \in Jobs, WindowPasses(j) PROVE Identity'
  BY <1>2, <1>d DEF WindowPasses
<1>3. ASSUME NEW q \in Queues, Clear(q) PROVE Identity'
  BY <1>3, <1>d DEF Clear
<1>4. ASSUME NEW q \in Queues, Fetch(q) PROVE Identity'
  <2>r. PICK r \in rows :
          /\ r.status = "pending"
          /\ QueueOf[r.job] = q
          /\ rows' = (rows \ {r}) \cup {[r EXCEPT !.status = "processing"]}
          /\ tasks' = tasks \cup {[id |-> r.id, job |-> r.job, stage |-> "fetched",
                                   todo |-> Outputs[r.job]]}
    BY <1>4 DEF Fetch
  <2>n. UNCHANGED <<nextId, worker>> /\ worker[q] = "loop"
    BY <1>4 DEF Fetch, MayFetch
  <2>t. \A t \in tasks : t.id # r.id
    BY <2>r DEF TaskRow
  <2>1. IdsFresh'
    BY <2>r, <2>n, <2>t DEF IdsFresh
  <2>2. IdsUnique'
    BY <2>r, <2>n, <2>t DEF IdsUnique
  <2>3. TaskRow'
    BY <2>r, <2>n, <2>t DEF TaskRow, IdsUnique
  <2>5. OffIdle'
    BY <2>r, <2>n, <2>t DEF OffIdle
  <2> QED
    BY <2>1, <2>2, <2>3, <2>5
<1>4f. ASSUME NEW q \in Queues, FetchFails(q) PROVE Identity'
  <2>r. PICK r \in rows :
          /\ r.status = "pending"
          /\ rows' = (rows \ {r}) \cup {[r EXCEPT !.status = "processing"]}
          /\ UNCHANGED <<nextId, tasks, worker>>
    BY <1>4f DEF FetchFails
  <2>t. \A t \in tasks : t.id # r.id
    BY <2>r DEF TaskRow
  <2> QED
    BY <2>r, <2>t DEF IdsFresh, IdsUnique, TaskRow, OffIdle
<1>5. ASSUME NEW q \in Queues, LeaveLoop(q) PROVE Identity'
  BY <1>5, <1>d DEF LeaveLoop
<1>6. ASSUME NEW q \in Queues, Cancel(q) PROVE Identity'
  BY <1>6, <1>d DEF Cancel
<1>7. ASSUME NEW q \in Queues, Exit(q) PROVE Identity'
  BY <1>7, <1>d DEF Exit
<1>8. ASSUME NEW t \in tasks, Start(t) PROVE Identity'
  BY <1>8, <1>m DEF Start
<1>9. ASSUME NEW t \in tasks, Report(t) PROVE Identity'
  BY <1>9, <1>m DEF Report
<1>10. ASSUME NEW t \in tasks, Reenqueue(t) PROVE Identity'
  <2> DEFINE u == [t EXCEPT !.stage = "requeued"]
  <2>1. u \in Tasks /\ u.id = t.id /\ u.job = t.job /\ t.job \in Jobs
    OBVIOUS
  <2>2. AddRow(t.job) /\ tasks' = (tasks \ {t}) \cup {u} /\ UNCHANGED worker
    BY <1>10 DEF Reenqueue
  <2> QED
    BY <1>a, <2>1, <2>2
<1>11. ASSUME NEW t \in tasks, ReportRequeue(t) PROVE Identity'
  BY <1>11, <1>m DEF ReportRequeue
<1>12. ASSUME NEW t \in tasks, Raise(t) PROVE Identity'
  BY <1>12, <1>d DEF Raise
<1>13. ASSUME NEW t \in tasks, NEW j \in Jobs, Emit(t, j) PROVE Identity'
  <2> DEFINE u == [t EXCEPT !.todo = t.todo \ {j}]
  <2>1. u \in Tasks /\ u.id = t.id /\ u.job = t.job
    OBVIOUS
  <2>2. AddRow(j) /\ tasks' = (tasks \ {t}) \cup {u} /\ UNCHANGED worker
    BY <1>13 DEF Emit
  <2> QED
    BY <1>a, <2>1, <2>2
<1>14. ASSUME NEW t \in tasks, Ack(t) PROVE Identity'
  BY <1>14, <1>d DEF Ack
<1>15. ASSUME NEW t \in tasks, AckFails(t) PROVE Identity'
  BY <1>15, <1>d DEF AckFails
<1>16. CASE Stop \/ StartWait \/ ReadSize \/ ReadCount \/ EndWait \/ UNCHANGED vars
  BY <1>16, <1>d DEF Stop, StartWait, ReadSize, ReadCount, EndWait, vars
<1>17. CASE Crash
  BY <1>17, <1>d DEF Crash
<1>18. CASE Restart
  BY <1>18 DEF Restart, IdsFresh, IdsUnique, TaskRow, OffIdle
<1> QED
  BY <1>1, <1>2, <1>3, <1>4, <1>4f, <1>5, <1>6, <1>7, <1>8, <1>9, <1>10, <1>11, <1>12,
     <1>13, <1>14, <1>15, <1>16, <1>17, <1>18 DEF Next, TaskStep, Handler, Poll

(* A covered job stays covered: its copy leaves the table only when it is   *)
(* itself acked as covered, or cleared, which waives the job.               *)
LEMMA CoveredStep ==
  ASSUME Deduped = {}, TypeOK, Identity, AckIsSafe, [Next]_vars,
         NEW j \in Jobs, NEW n \in Nat, Covered(j, n)
  PROVE  Covered(j, n)'
<1> USE QueueOfAssumption, OutputsAssumption DEF TypeOK, Identity
<1>m. settled \subseteq settled' /\ waived \subseteq waived'
  BY DEF Next, TaskStep, Handler, Poll, Enqueue, WindowPasses, Clear, Fetch, FetchFails, LeaveLoop, Cancel,
         Exit, Start, Report, Reenqueue, ReportRequeue, Raise, Emit, Ack, AckFails, Stop, Crash,
         Restart, StartWait, ReadSize, ReadCount, EndWait, vars
<1>1. CASE j \in settled \cup waived
  BY <1>1, <1>m DEF Covered
<1>2. CASE j \notin settled \cup waived
  <2>1. PICK r \in rows : r.job = j /\ r.id > n
    BY <1>2 DEF Covered
  <2>k. ASSUME \E y \in rows' : y.job = r.job /\ y.id = r.id PROVE Covered(j, n)'
    BY <2>k, <2>1 DEF Covered
  <2>s. ASSUME rows \subseteq rows' PROVE Covered(j, n)'
    BY <2>s, <2>k
  <2>a. ASSUME NEW k \in Jobs, AddRow(k) PROVE rows \subseteq rows'
    BY <2>a DEF AddRow
  <2>3. ASSUME NEW q \in Queues, Clear(q) PROVE Covered(j, n)'
    BY <2>3, <2>1, <2>k DEF Clear, Covered
  <2>4. ASSUME NEW q \in Queues, Fetch(q) PROVE Covered(j, n)'
    <3>1. PICK x \in rows : rows' = (rows \ {x}) \cup {[x EXCEPT !.status = "processing"]}
      BY <2>4 DEF Fetch
    <3> DEFINE y == [x EXCEPT !.status = "processing"]
    <3>2. y \in rows' /\ y.job = x.job /\ y.id = x.id
      BY <3>1
    <3>3. r = x \/ r \in rows'
      BY <3>1
    <3> QED
      BY <3>2, <3>3, <2>k
  <2>4f. ASSUME NEW q \in Queues, FetchFails(q) PROVE Covered(j, n)'
    <3>1. PICK x \in rows : rows' = (rows \ {x}) \cup {[x EXCEPT !.status = "processing"]}
      BY <2>4f DEF FetchFails
    <3> DEFINE y == [x EXCEPT !.status = "processing"]
    <3>2. y \in rows' /\ y.job = x.job /\ y.id = x.id
      BY <3>1
    <3>3. r = x \/ r \in rows'
      BY <3>1
    <3> QED
      BY <3>2, <3>3, <2>k
  <2>14. ASSUME NEW t \in tasks, Ack(t) PROVE Covered(j, n)'
    <3>1. CASE r \in rows'
      BY <3>1, <2>k
    <3>2. CASE r \notin rows'
      <4>1. r.id = t.id /\ t.stage = "ack"
        BY <3>2, <2>14 DEF Ack
      <4>2. t.job = j
        BY <4>1, <2>1 DEF TaskRow
      <4>3. PICK x \in rows : x.job = j /\ x.id > t.id
        BY <4>1, <4>2, <1>2 DEF AckIsSafe, Covered
      <4>4. x \in rows' /\ x.id > n
        BY <4>1, <4>3, <2>1, <2>14 DEF Ack
      <4> QED
        BY <4>3, <4>4 DEF Covered
    <3> QED
      BY <3>1, <3>2
  <2>18. ASSUME Restart PROVE Covered(j, n)'
    <3> DEFINE y == [r EXCEPT !.status = "pending"]
    <3>1. y \in rows' /\ y.job = r.job /\ y.id = r.id
      BY <2>18 DEF Restart
    <3> QED
      BY <3>1, <2>k
  <2> QED
    BY <2>s, <2>a, <2>3, <2>4, <2>4f, <2>14, <2>18
       DEF Next, TaskStep, Handler, Poll, Enqueue, WindowPasses, LeaveLoop, Cancel,
           Exit, Start, Report, Reenqueue, ReportRequeue, Raise, Emit, AckFails, Stop, Crash,
           StartWait, ReadSize, ReadCount, EndWait, vars
<1> QED
  BY <1>1, <1>2

(* Every step preserves the invariant: what a task in its handler, a task   *)
(* to be acked and a message marked 'processing' can rely on.               *)
LEMMA InvStep ==
  ASSUME Deduped = {}, IInv, [Next]_vars
  PROVE  IInv'
<1>0. TypeOK /\ TypeOK' /\ Identity /\ Identity'
  BY TypeStep, IdentityStep DEF IInv
<1>i. RunOwed /\ AckIsSafe /\ NothingStranded
  BY DEF IInv
<1> USE <1>0, QueueOfAssumption, OutputsAssumption DEF TypeOK, Identity
<1>c. \A j \in Jobs, n \in Nat : Covered(j, n) => Covered(j, n)'
  BY <1>i, CoveredStep
<1> DEFINE Rest == RunOwed /\ AckIsSafe /\ NothingStranded
           Follows(r) == \/ \E t \in tasks' : t.id = r.id
                         \/ Covered(r.job, r.id)'
                         \/ r.job \in Raising \cup Unreadable
<1>r. ASSUME \A r \in rows' : r \in rows \/ r.status = "pending",
             \A r \in rows : r \in rows' \/ \E y \in rows' : y.id = r.id \/ r.job \in waived',
             UNCHANGED worker, waived \subseteq waived',
             \A t \in tasks : \E u \in tasks' : u.id = t.id,
             \A u \in tasks' : \E t \in tasks :
               /\ u.id = t.id /\ u.job = t.job
               /\ u.stage \in {"fetched", "run"} => t.stage \in {"fetched", "run"}
               /\ u.stage \in {"requeued", "ack"} =>
                    t.stage \in {"requeued", "ack"} \/ Covered(u.job, u.id)'
      PROVE  Rest'
  <2>0. \A r \in rows : r.job \in Jobs /\ r.id \in Nat
    OBVIOUS
  <2>1. RunOwed'
    <3> SUFFICES ASSUME NEW u \in tasks', u.stage \in {"fetched", "run"}, u.job \notin waived'
                 PROVE  \E r \in rows' : r.id = u.id
      BY DEF RunOwed
    <3>1. PICK t \in tasks : u.id = t.id /\ u.job = t.job /\ t.stage \in {"fetched", "run"}
      BY <1>r
    <3>2. PICK r \in rows : r.id = t.id
      BY <3>1, <1>r, <1>i DEF RunOwed
    <3>3. r.job = t.job
      BY <3>2 DEF TaskRow
    <3> QED
      BY <3>1, <3>2, <3>3, <1>r
  <2>2. AckIsSafe'
    <3> SUFFICES ASSUME NEW u \in tasks', u.stage \in {"requeued", "ack"}
                 PROVE  Covered(u.job, u.id)'
      BY DEF AckIsSafe
    <3>1. PICK t \in tasks : /\ u.id = t.id /\ u.job = t.job
                             /\ t.stage \in {"requeued", "ack"} \/ Covered(u.job, u.id)'
      BY <1>r
    <3>2. CASE t.stage \in {"requeued", "ack"}
      <4>1. Covered(t.job, t.id) /\ t.job \in Jobs /\ t.id \in Nat
        BY <3>2, <1>i DEF AckIsSafe
      <4> QED
        BY <4>1, <3>1, <1>c
    <3> QED
      BY <3>1, <3>2
  <2>3. NothingStranded'
    <3> SUFFICES ASSUME NEW r \in rows', r.status = "processing",
                        worker'[QueueOf[r.job]] = "loop"
                 PROVE  Follows(r)
      BY DEF NothingStranded
    <3>1. r \in rows /\ worker[QueueOf[r.job]] = "loop"
      BY <1>r
    <3>2. \/ \E t \in tasks : t.id = r.id
          \/ Covered(r.job, r.id)
          \/ r.job \in Raising \cup Unreadable
      BY <3>1, <1>i DEF NothingStranded
    <3> QED
      BY <3>1, <3>2, <2>0, <1>r, <1>c
  <2> QED
    BY <2>1, <2>2, <2>3
<1>d. ASSUME tasks' \subseteq tasks, rows' \subseteq rows, UNCHANGED waived,
             \A r \in rows : r \in rows' \/ \A t \in tasks' : t.id # r.id,
             \A r \in rows' : r.status = "processing" /\ worker'[QueueOf[r.job]] = "loop" =>
               /\ worker[QueueOf[r.job]] = "loop"
               /\ \A t \in tasks : t.id = r.id => t \in tasks' \/ Covered(r.job, r.id)'
                                                 \/ r.job \in Raising \cup Unreadable
      PROVE  Rest'
  <2>0. \A r \in rows : r.job \in Jobs /\ r.id \in Nat
    OBVIOUS
  <2>1. RunOwed'
    BY <1>d, <1>i DEF RunOwed
  <2>2. AckIsSafe'
    <3> SUFFICES ASSUME NEW u \in tasks', u.stage \in {"requeued", "ack"}
                 PROVE  Covered(u.job, u.id)'
      BY DEF AckIsSafe
    <3>1. Covered(u.job, u.id) /\ u.job \in Jobs /\ u.id \in Nat
      BY <1>d, <1>i DEF AckIsSafe
    <3> QED
      BY <3>1, <1>c
  <2>3. NothingStranded'
    <3> SUFFICES ASSUME NEW r \in rows', r.status = "processing",
                        worker'[QueueOf[r.job]] = "loop"
                 PROVE  Follows(r)
      BY DEF NothingStranded
    <3>1. r \in rows /\ worker[QueueOf[r.job]] = "loop"
      BY <1>d
    <3>2. \/ \E t \in tasks : t.id = r.id
          \/ Covered(r.job, r.id)
          \/ r.job \in Raising \cup Unreadable
      BY <3>1, <1>i DEF NothingStranded
    <3> QED
      BY <3>1, <3>2, <2>0, <1>d, <1>c
  <2> QED
    BY <2>1, <2>2, <2>3
<1>s. \A t \in tasks : t.stage \in {"requeued", "ack"} => Covered(t.job, t.id)'
  BY <1>c, <1>i DEF AckIsSafe
<1>1. ASSUME NEW j \in Jobs, Enqueue(j) PROVE Rest'
  <2>1. /\ rows' = rows \cup {[id |-> nextId, job |-> j, status |-> "pending"]}
        /\ UNCHANGED <<tasks, worker, waived>>
    BY <1>1, AddRowAdds DEF Enqueue
  <2> QED
    BY <2>1, <1>r
<1>2. ASSUME NEW j \in Jobs, WindowPasses(j) PROVE Rest'
  BY <1>2, <1>d DEF WindowPasses
<1>3. ASSUME NEW q \in Queues, Clear(q) PROVE Rest'
  <2>1. /\ rows' \subseteq rows /\ waived \subseteq waived'
        /\ \A r \in rows : r \in rows' \/ r.job \in waived'
        /\ UNCHANGED <<tasks, worker>>
    BY <1>3 DEF Clear
  <2>2. RunOwed'
    BY <2>1, <1>i DEF RunOwed, TaskRow
  <2>3. AckIsSafe'
    BY <2>1, <1>s DEF AckIsSafe
  <2>4. NothingStranded'
    <3> SUFFICES ASSUME NEW r \in rows', r.status = "processing",
                        worker'[QueueOf[r.job]] = "loop"
                 PROVE  Follows(r)
      BY DEF NothingStranded
    <3>1. r \in rows /\ r.job \in Jobs /\ r.id \in Nat
      BY <2>1
    <3> QED
      BY <3>1, <2>1, <1>i, <1>c DEF NothingStranded
  <2> QED
    BY <2>2, <2>3, <2>4
<1>4. ASSUME NEW q \in Queues, Fetch(q) PROVE Rest'
  <2>r. PICK r \in rows :
          /\ rows' = (rows \ {r}) \cup {[r EXCEPT !.status = "processing"]}
          /\ tasks' = tasks \cup {[id |-> r.id, job |-> r.job, stage |-> "fetched",
                                   todo |-> Outputs[r.job]]}
          /\ UNCHANGED <<worker, settled, waived>>
    BY <1>4 DEF Fetch
  <2> DEFINE moved == [r EXCEPT !.status = "processing"]
             new == [id |-> r.id, job |-> r.job, stage |-> "fetched", todo |-> Outputs[r.job]]
  <2>1. moved \in rows' /\ moved.id = r.id /\ moved.job = r.job
    BY <2>r
  <2>2. new \in tasks' /\ new.id = r.id /\ new.job = r.job /\ new.stage = "fetched"
    BY <2>r
  <2> HIDE DEF moved, new
  <2>3. rows' = (rows \ {r}) \cup {moved} /\ tasks' = tasks \cup {new}
    BY <2>r DEF moved, new
  <2>4. RunOwed'
    BY <2>r, <2>1, <2>2, <2>3, <1>i DEF RunOwed
  <2>5. AckIsSafe'
    BY <2>2, <2>3, <1>s DEF AckIsSafe
  <2>6. NothingStranded'
    <3> SUFFICES ASSUME NEW y \in rows', y.status = "processing",
                        worker'[QueueOf[y.job]] = "loop"
                 PROVE  Follows(y)
      BY DEF NothingStranded
    <3>1. CASE y = moved
      BY <3>1, <2>1, <2>2
    <3>2. CASE y # moved
      <4>1. y \in rows /\ y.job \in Jobs /\ y.id \in Nat
        BY <3>2, <2>3
      <4> QED
        BY <4>1, <2>3, <2>r, <1>i, <1>c DEF NothingStranded
    <3> QED
      BY <3>1, <3>2
  <2> QED
    BY <2>4, <2>5, <2>6
<1>4f. ASSUME NEW q \in Queues, FetchFails(q) PROVE Rest'
  <2>r. PICK r \in rows :
          /\ rows' = (rows \ {r}) \cup {[r EXCEPT !.status = "processing"]}
          /\ r.job \in Unreadable
          /\ UNCHANGED <<tasks, worker, settled, waived>>
    BY <1>4f DEF FetchFails
  <2> DEFINE moved == [r EXCEPT !.status = "processing"]
  <2>1. moved \in rows' /\ moved.id = r.id /\ moved.job = r.job
    BY <2>r
  <2> HIDE DEF moved
  <2>3. rows' = (rows \ {r}) \cup {moved}
    BY <2>r DEF moved
  <2>4. RunOwed'
    BY <2>r, <2>1, <2>3, <1>i DEF RunOwed
  <2>5. AckIsSafe'
    BY <2>r, <1>s DEF AckIsSafe
  <2>6. NothingStranded'
    <3> SUFFICES ASSUME NEW y \in rows', y.status = "processing",
                        worker'[QueueOf[y.job]] = "loop"
                 PROVE  Follows(y)
      BY DEF NothingStranded
    <3>1. CASE y = moved
      BY <3>1, <2>1, <2>r
    <3>2. CASE y # moved
      <4>1. y \in rows /\ y.job \in Jobs /\ y.id \in Nat
        BY <3>2, <2>3
      <4> QED
        BY <4>1, <2>r, <1>i, <1>c DEF NothingStranded
    <3> QED
      BY <3>1, <3>2
  <2> QED
    BY <2>4, <2>5, <2>6
<1>5. ASSUME NEW q \in Queues, LeaveLoop(q) PROVE Rest'
  BY <1>5, <1>d DEF LeaveLoop
<1>6. ASSUME NEW q \in Queues, Cancel(q) PROVE Rest'
  BY <1>6, <1>d DEF Cancel, TaskRow
<1>7. ASSUME NEW q \in Queues, Exit(q) PROVE Rest'
  BY <1>7, <1>d DEF Exit
<1>8. ASSUME NEW t \in tasks, Start(t) PROVE Rest'
  <2> DEFINE u == [t EXCEPT !.stage = "run"]
  <2>1. u.id = t.id /\ u.job = t.job /\ u.stage = "run"
    OBVIOUS
  <2>2. tasks' = (tasks \ {t}) \cup {u} /\ UNCHANGED <<rows, worker, waived>> /\ t.stage = "fetched"
    BY <1>8 DEF Start
  <2> HIDE DEF u
  <2> QED
    BY <2>1, <2>2, <1>r
<1>9. ASSUME NEW t \in tasks, Report(t) PROVE Rest'
  <2> DEFINE u == [t EXCEPT !.stage = "ack"]
  <2>1. u.id = t.id /\ u.job = t.job /\ u.stage = "ack"
    OBVIOUS
  <2>2. tasks' = (tasks \ {t}) \cup {u} /\ UNCHANGED <<rows, worker, waived>> /\ t.job \in settled'
    BY <1>9 DEF Report
  <2> HIDE DEF u
  <2>3. Covered(u.job, u.id)'
    BY <2>1, <2>2 DEF Covered
  <2> QED
    BY <2>1, <2>2, <2>3, <1>r
<1>10. ASSUME NEW t \in tasks, Reenqueue(t) PROVE Rest'
  <2> DEFINE u == [t EXCEPT !.stage = "requeued"]
             copy == [id |-> nextId, job |-> t.job, status |-> "pending"]
  <2>1. u.id = t.id /\ u.job = t.job /\ u.stage = "requeued"
    OBVIOUS
  <2>2. /\ tasks' = (tasks \ {t}) \cup {u} /\ UNCHANGED <<worker, waived>>
        /\ rows' = rows \cup {copy}
    BY <1>10, AddRowAdds DEF Reenqueue
  <2>3. copy.job = u.job /\ copy.id > u.id /\ copy.status = "pending"
    BY DEF IdsFresh
  <2> HIDE DEF u, copy
  <2>4. Covered(u.job, u.id)'
    BY <2>2, <2>3 DEF Covered
  <2> QED
    BY <2>1, <2>2, <2>3, <2>4, <1>r
<1>11. ASSUME NEW t \in tasks, ReportRequeue(t) PROVE Rest'
  <2> DEFINE u == [t EXCEPT !.stage = "ack"]
  <2>1. u.id = t.id /\ u.job = t.job /\ u.stage = "ack"
    OBVIOUS
  <2>2. /\ tasks' = (tasks \ {t}) \cup {u} /\ UNCHANGED <<rows, worker, waived>>
        /\ t.stage = "requeued"
    BY <1>11 DEF ReportRequeue
  <2> HIDE DEF u
  <2> QED
    BY <2>1, <2>2, <1>r
<1>12. ASSUME NEW t \in tasks, Raise(t) PROVE Rest'
  BY <1>12, <1>d DEF Raise, TaskRow
<1>13. ASSUME NEW t \in tasks, NEW j \in Jobs, Emit(t, j) PROVE Rest'
  <2> DEFINE u == [t EXCEPT !.todo = t.todo \ {j}]
             next == [id |-> nextId, job |-> j, status |-> "pending"]
  <2>1. u.id = t.id /\ u.job = t.job /\ u.stage = t.stage /\ next.status = "pending"
    OBVIOUS
  <2>2. /\ tasks' = (tasks \ {t}) \cup {u} /\ UNCHANGED <<worker, waived>> /\ t.stage = "run"
        /\ rows' = rows \cup {next}
    BY <1>13, AddRowAdds DEF Emit
  <2> HIDE DEF u, next
  <2> QED
    BY <2>1, <2>2, <1>r
<1>14. ASSUME NEW t \in tasks, Ack(t) PROVE Rest'
  BY <1>14, <1>d DEF Ack, TaskRow, IdsUnique
<1>15. ASSUME NEW t \in tasks, AckFails(t) PROVE Rest'
  BY <1>15, <1>s, <1>d DEF AckFails, TaskRow
<1>16. ASSUME Stop \/ StartWait \/ ReadSize \/ ReadCount \/ EndWait \/ UNCHANGED vars
       PROVE  Rest'
  BY <1>16, <1>d DEF Stop, StartWait, ReadSize, ReadCount, EndWait, vars
<1>17. ASSUME Crash PROVE Rest'
  BY <1>17, <1>d DEF Crash
<1>18. ASSUME Restart PROVE Rest'
  <2>1. tasks = {} /\ tasks' = {}
    BY <1>18 DEF Restart, OffIdle
  <2>2. \A r \in rows' : r.status = "pending"
    BY <1>18 DEF Restart
  <2> QED
    BY <2>1, <2>2 DEF RunOwed, AckIsSafe, NothingStranded
<1>q. Rest'
  BY <1>1, <1>2, <1>3, <1>4, <1>4f, <1>5, <1>6, <1>7, <1>8, <1>9, <1>10, <1>11, <1>12,
     <1>13, <1>14, <1>15, <1>16, <1>17, <1>18 DEF Next, TaskStep, Handler, Poll
<1> QED
  BY <1>q DEF IInv

(* Type correctness of the queues, for all constants.                       *)
THEOREM TypeCorrect == Spec => []TypeOK
<1>1. Init => TypeOK
  BY InitInv DEF IInv
<1> QED
  BY <1>1, TypeStep, PTL DEF Spec

(* The ack discipline (SemanticProcessor and TextEmbeddingHandler enqueue   *)
(* the copy before the worker acks the original): in a system without       *)
(* deduplicated memory messages no message is acked whose job would be      *)
(* lost with it.                                                            *)
THEOREM AckDiscipline == ASSUME Deduped = {} PROVE Spec => []AckIsSafe
<1>1. Init => IInv
  BY InitInv
<1>2. IInv /\ [Next]_vars => IInv'
  BY InvStep
<1>3. IInv => AckIsSafe
  BY DEF IInv
<1> QED
  BY <1>1, <1>2, <1>3, PTL DEF Spec

(* No ack, failed ack, exception, cancellation or restart leaves a message  *)
(* 'processing' that nobody works on, unless its job is covered, it does    *)
(* not parse or its handler raised, which is when the code leaves it to the *)
(* next start.                                                              *)
THEOREM NothingLeftBehind == ASSUME Deduped = {} PROVE Spec => []NothingStranded
<1>1. Init => IInv
  BY InitInv
<1>2. IInv /\ [Next]_vars => IInv'
  BY InvStep
<1>3. IInv => NothingStranded
  BY DEF IInv
<1> QED
  BY <1>1, <1>2, <1>3, PTL DEF Spec

(* A finite set without one of its elements.                                *)
LEMMA OneLess ==
  ASSUME NEW S, NEW R, NEW x, IsFiniteSet(S), x \in S /\ R = S \ {x}
  PROVE  Cardinality(R) = Cardinality(S) - 1
  BY FS_RemoveElement

(* A task that replaces another one of the same queue in the same part of   *)
(* its life does not change the number of tasks in a handler.               *)
LEMMA SwapKeepsCount ==
  ASSUME NEW S, IsFiniteSet(S), NEW x \in S, NEW y, y \notin S \ {x}
  PROVE  Cardinality((S \ {x}) \cup {y}) = Cardinality(S)
<1>1. IsFiniteSet(S \ {x}) /\ Cardinality(S \ {x}) = Cardinality(S) - 1
  BY FS_RemoveElement
<1>2. Cardinality((S \ {x}) \cup {y}) = Cardinality(S \ {x}) + 1
  BY <1>1, FS_AddElement
<1> QED
  BY <1>1, <1>2, FS_CardinalityType

(* Every step keeps NamedQueue._in_progress the number of messages between  *)
(* _on_dequeue_start and their report.                                      *)
LEMMA CountStep ==
  ASSUME CountInv, [Next]_vars
  PROVE  CountInv'
<1>0. TypeOK /\ TypeOK' /\ Identity /\ Identity'
  BY TypeStep, IdentityStep DEF CountInv
<1>i. IsFiniteSet(tasks) /\ InProgressExact
  BY DEF CountInv
<1> USE <1>0, <1>i, QueueOfAssumption, OutputsAssumption DEF TypeOK
<1> DEFINE Goal == IsFiniteSet(tasks') /\ InProgressExact'
<1>f. \A q \in Queues : IsFiniteSet(Handled(q)) /\ Cardinality(Handled(q)) \in Nat
  <2> SUFFICES ASSUME NEW q \in Queues
               PROVE  IsFiniteSet(Handled(q)) /\ Cardinality(Handled(q)) \in Nat
    OBVIOUS
  <2>1. Handled(q) \in SUBSET tasks
    BY DEF Handled
  <2> QED
    BY <2>1, FS_Subset, FS_CardinalityType
<1>l. \A q \in Queues : worker'[q] = "loop" => worker[q] = "loop" \/ Restart
  BY DEF Next, TaskStep, Handler, Poll, Enqueue, WindowPasses, Clear, Fetch, FetchFails, LeaveLoop, Cancel,
         Exit, Start, Report, Reenqueue, ReportRequeue, Raise, Emit, Ack, AckFails, Stop, Crash,
         StartWait, ReadSize, ReadCount, EndWait, vars
<1>k. ASSUME IsFiniteSet(tasks'), ~Restart,
             \A q \in Queues : worker[q] = "loop" /\ worker'[q] = "loop" /\ ~Sequential(q) =>
               Handled(q)' = Handled(q) /\ inProgress'[q] = inProgress[q]
      PROVE  Goal
  BY <1>k, <1>l DEF InProgressExact
<1>h. ASSUME NEW t \in tasks, NEW u \in Tasks, u.id = t.id, u.job = t.job,
             tasks' = (tasks \ {t}) \cup {u}
      PROVE  /\ IsFiniteSet(tasks')
             /\ u \notin tasks \ {t}
             /\ \A q \in Queues : q # QueueOf[t.job] => Handled(q)' = Handled(q)
  <2>1. IsFiniteSet(tasks')
    BY <1>h, FS_RemoveElement, FS_AddElement
  <2>2. u \notin tasks \ {t}
    BY <1>h DEF Identity, IdsUnique
  <2>3. \A q \in Queues : q # QueueOf[t.job] => Handled(q)' = Handled(q)
    BY <1>h DEF Handled
  <2> QED
    BY <2>1, <2>2, <2>3
<1>m. ASSUME NEW t \in tasks, NEW s \in {"run", "ack"}, Move(t, s), UNCHANGED worker, ~Restart,
             t.stage \in {"run", "requeued"} <=> s = "ack",
             Count(QueueOf[t.job], IF s = "run" THEN 1 ELSE -1)
      PROVE  Goal
  <2> DEFINE u == [t EXCEPT !.stage = s]
             q == QueueOf[t.job]
  <2>1. u \in Tasks /\ u.id = t.id /\ u.job = t.job /\ u.stage = s /\ q \in Queues
    BY DEF Identity
  <2>2. tasks' = (tasks \ {t}) \cup {u}
    BY <1>m
  <2> HIDE DEF u
  <2>3. /\ IsFiniteSet(tasks') /\ u \notin tasks \ {t}
        /\ \A p \in Queues : p # q => Handled(p)' = Handled(p)
    BY <1>h, <2>1, <2>2
  <2>4. CASE s = "run"
    <3>1. u \notin Handled(q) /\ Handled(q)' = Handled(q) \cup {u}
      BY <2>1, <2>2, <2>3, <2>4, <1>m DEF Handled
    <3>2. Cardinality(Handled(q)') = Cardinality(Handled(q)) + 1
      BY <3>1, <2>1, <1>f, FS_AddElement
    <3>3. inProgress'[q] = inProgress[q] + 1 /\ \A p \in Queues : p # q => inProgress'[p] = inProgress[p]
      BY <2>1, <2>4, <1>m
    <3>4. ASSUME NEW p \in Queues, worker[p] = "loop" /\ ~Sequential(p) => inProgress[p] = Cardinality(Handled(p))
          PROVE  worker[p] = "loop" /\ ~Sequential(p) => inProgress'[p] = Cardinality(Handled(p)')
      BY <3>2, <3>3, <3>4, <2>1, <2>3
    <3> QED
      BY <3>4, <2>3, <1>m DEF InProgressExact
  <2>5. CASE s = "ack"
    <3>1. t \in Handled(q) /\ Handled(q)' = Handled(q) \ {t}
      BY <2>1, <2>2, <2>3, <2>5, <1>m DEF Handled
    <3>f. IsFiniteSet(Handled(q))
      BY <2>1, <1>f
    <3>2. Cardinality(Handled(q)') = Cardinality(Handled(q)) - 1
      BY ONLY <3>1, <3>f, OneLess
    <3>3. inProgress'[q] = inProgress[q] - 1 /\ \A p \in Queues : p # q => inProgress'[p] = inProgress[p]
      BY <2>1, <2>5, <1>m
    <3> QED
      BY <3>2, <3>3, <2>1, <2>3, <1>m DEF InProgressExact
  <2> QED
    BY <2>4, <2>5
<1>s. ASSUME NEW t \in tasks, NEW u \in Tasks, u.id = t.id, u.job = t.job,
             tasks' = (tasks \ {t}) \cup {u}, UNCHANGED <<worker, inProgress>>, ~Restart,
             t.stage = "run", u.stage \in {"run", "requeued"}
      PROVE  Goal
  <2> DEFINE q == QueueOf[t.job]
  <2>3. /\ IsFiniteSet(tasks') /\ u \notin tasks \ {t} /\ q \in Queues
        /\ \A p \in Queues : p # q => Handled(p)' = Handled(p)
    BY <1>h, <1>s
  <2>4. t \in Handled(q) /\ Handled(q)' = (Handled(q) \ {t}) \cup {u} /\ u \notin Handled(q) \ {t}
    BY <2>3, <1>s DEF Handled
  <2>5. Cardinality(Handled(q)') = Cardinality(Handled(q))
    BY <2>3, <2>4, <1>f, SwapKeepsCount
  <2> QED
    BY <2>3, <2>5, <1>s DEF InProgressExact
<1>g. ASSUME NEW t \in tasks, tasks' = tasks \ {t}, UNCHANGED worker, ~Restart,
             t.stage = "ack", UNCHANGED inProgress
      PROVE  Goal
  <2>1. IsFiniteSet(tasks')
    BY <1>g, FS_RemoveElement
  <2>2. \A q \in Queues : Handled(q)' = Handled(q)
    BY <1>g DEF Handled
  <2> QED
    BY <2>1, <2>2, <1>g, <1>k
<1>1. ASSUME UNCHANGED <<tasks, inProgress>>, ~Restart PROVE Goal
  BY <1>1, <1>k DEF Handled
<1>4. ASSUME NEW q \in Queues, Fetch(q), ~Restart PROVE Goal
  <2>1. PICK u \in Tasks : u.stage = "fetched" /\ tasks' = tasks \cup {u}
    <3>1. PICK r \in rows : tasks' = tasks \cup {[id |-> r.id, job |-> r.job, stage |-> "fetched",
                                                  todo |-> Outputs[r.job]]}
      BY <1>4 DEF Fetch
    <3> QED
      BY <3>1
  <2>2. IsFiniteSet(tasks')
    BY <2>1, FS_AddElement
  <2>3. \A p \in Queues : Handled(p)' = Handled(p)
    BY <2>1 DEF Handled
  <2> QED
    BY <2>2, <2>3, <1>4, <1>k DEF Fetch
<1>6. ASSUME NEW q \in Queues, Cancel(q), ~Restart PROVE Goal
  <2>1. tasks' = tasks \ TasksOf(q) /\ worker[q] = "drain" /\ UNCHANGED <<worker, inProgress>>
    BY <1>6 DEF Cancel
  <2>2. IsFiniteSet(tasks')
    BY <2>1, FS_Difference
  <2>3. \A p \in Queues : p # q => Handled(p)' = Handled(p)
    BY <2>1 DEF Handled
  <2> QED
    BY <2>1, <2>2, <2>3, <1>6, <1>k
<1>8. ASSUME NEW t \in tasks, Start(t), ~Restart PROVE Goal
  BY <1>8, <1>m DEF Start
<1>9. ASSUME NEW t \in tasks, Report(t), ~Restart PROVE Goal
  BY <1>9, <1>m DEF Report
<1>10. ASSUME NEW t \in tasks, Reenqueue(t), ~Restart PROVE Goal
  <2> DEFINE u == [t EXCEPT !.stage = "requeued"]
  <2>1. u \in Tasks /\ u.id = t.id /\ u.job = t.job /\ u.stage = "requeued"
    OBVIOUS
  <2>2. tasks' = (tasks \ {t}) \cup {u} /\ UNCHANGED <<worker, inProgress>> /\ t.stage = "run"
    BY <1>10 DEF Reenqueue
  <2> HIDE DEF u
  <2> QED
    BY <2>1, <2>2, <1>10, <1>s
<1>11. ASSUME NEW t \in tasks, ReportRequeue(t), ~Restart PROVE Goal
  BY <1>11, <1>m DEF ReportRequeue
<1>12. ASSUME NEW t \in tasks, Raise(t), ~Restart PROVE Goal
  <2> DEFINE q == QueueOf[t.job]
  <2>1. tasks' = tasks \ {t} /\ t.stage = "run" /\ UNCHANGED worker /\ q \in Queues
    BY <1>12 DEF Raise
  <2>2. IsFiniteSet(tasks')
    BY <2>1, FS_RemoveElement
  <2>3. \A p \in Queues : p # q => Handled(p)' = Handled(p)
    BY <2>1 DEF Handled
  <2>4. t \in Handled(q) /\ Handled(q)' = Handled(q) \ {t}
    BY <2>1 DEF Handled
  <2>f. IsFiniteSet(Handled(q))
    BY <2>1, <1>f
  <2>c. Cardinality(Handled(q) \ {t}) = Cardinality(Handled(q)) - 1
    BY ONLY <2>4, <2>f, OneLess
  <2>5. Cardinality(Handled(q)') = Cardinality(Handled(q)) - 1
    <3> HIDE DEF q
    <3> QED
      BY <2>4, <2>c, Zenon
  <2>6. /\ ~Sequential(q) => inProgress'[q] = inProgress[q] - 1
        /\ \A p \in Queues : p # q => inProgress'[p] = inProgress[p]
    BY <2>1, <1>12 DEF Raise
  <2> QED
    BY <2>1, <2>2, <2>3, <2>5, <2>6 DEF InProgressExact
<1>13. ASSUME NEW t \in tasks, NEW j \in Jobs, Emit(t, j), ~Restart PROVE Goal
  <2> DEFINE u == [t EXCEPT !.todo = t.todo \ {j}]
  <2>1. u \in Tasks /\ u.id = t.id /\ u.job = t.job /\ u.stage = t.stage
    OBVIOUS
  <2>2. tasks' = (tasks \ {t}) \cup {u} /\ UNCHANGED <<worker, inProgress>> /\ t.stage = "run"
    BY <1>13 DEF Emit
  <2> HIDE DEF u
  <2> QED
    BY <2>1, <2>2, <1>13, <1>s
<1>14. ASSUME NEW t \in tasks, Ack(t) \/ AckFails(t), ~Restart PROVE Goal
  BY <1>14, <1>g DEF Ack, AckFails
<1>17. ASSUME Crash, ~Restart PROVE Goal
  BY <1>17, <1>k, FS_EmptySet DEF Crash
<1>18. ASSUME Restart PROVE Goal
  <2>1. tasks = {} /\ tasks' = {} /\ inProgress' = [q \in Queues |-> 0]
    BY <1>18 DEF Restart, Identity, OffIdle
  <2>2. \A q \in Queues : Handled(q)' = {}
    BY <2>1 DEF Handled
  <2> QED
    BY <2>1, <2>2, FS_EmptySet DEF InProgressExact
<1>q. Goal
  <2>1. CASE Restart
    BY <2>1, <1>18
  <2>2. CASE ~Restart
    BY <2>2, <1>1, <1>4, <1>6, <1>8, <1>9, <1>10, <1>11, <1>12, <1>13, <1>14, <1>17
       DEF Next, TaskStep, Handler, Poll, Enqueue, WindowPasses, Clear, FetchFails, LeaveLoop,
           Exit, Stop,
           StartWait, ReadSize, ReadCount, EndWait, vars
  <2> QED
    BY <2>1, <2>2
<1> QED
  BY <1>q DEF CountInv

(* The counter wait_complete and the status endpoint read is exact for      *)
(* every concurrent queue, over any mix of success, error, re-enqueue,      *)
(* exception, cancellation and restart, whether or not messages are         *)
(* deduplicated.                                                            *)
THEOREM CounterExact == Spec => []InProgressExact
<1>1. Init => CountInv
  <2> SUFFICES ASSUME Init PROVE CountInv
    OBVIOUS
  <2>1. IInv /\ tasks = {} /\ \A q \in Queues : inProgress[q] = 0
    BY InitInv DEF Init
  <2>2. \A q \in Queues : Handled(q) = {}
    BY <2>1 DEF Handled
  <2> QED
    BY <2>1, <2>2, FS_EmptySet DEF CountInv, IInv, InProgressExact
<1>2. CountInv /\ [Next]_vars => CountInv'
  BY CountStep
<1>3. CountInv => InProgressExact
  BY DEF CountInv
<1> QED
  BY <1>1, <1>2, <1>3, PTL DEF Spec

(* Every step of the queues is a step of the ledger or leaves it alone.     *)
LEMMA LedgerStep ==
  ASSUME Deduped = {}, IInv, [Next]_vars
  PROVE  [Ledger!Next]_(Ledger!vars)
<1> DEFINE Same == UNCHANGED <<rows, settled, waived>>
<1> USE QueueOfAssumption DEF IInv, TypeOK, Identity
<1>0. ASSUME Same PROVE UNCHANGED Ledger!vars
  BY <1>0 DEF Ledger!vars
<1>a. ASSUME NEW j \in Jobs, AddRow(j), UNCHANGED <<settled, waived>>
      PROVE  Ledger!Next
  <2>1. rows' = rows \cup {[id |-> nextId, job |-> j, status |-> "pending"]}
    BY <1>a, AddRowAdds
  <2> DEFINE new == [id |-> nextId, job |-> j, status |-> "pending"]
  <2>3. new.job = j /\ new \in rows' /\ \A y \in rows' : y \in rows \/ y = new
    BY <2>1
  <2>4. rows \subseteq rows'
    BY <2>1
  <2> HIDE DEF new
  <2>2. Owed' = Owed \cup {j}
    BY <2>3, <2>4
  <2> QED
    BY <2>2, <1>a DEF Ledger!Next, Ledger!Accept
<1>1. ASSUME NEW j \in Jobs, Enqueue(j) PROVE Ledger!Next
  BY <1>1, <1>a DEF Enqueue
<1>2. ASSUME NEW j \in Jobs, WindowPasses(j) PROVE Same
  BY <1>2 DEF WindowPasses
<1>3. ASSUME NEW q \in Queues, Clear(q) PROVE Ledger!Next
  <2> DEFINE gone == {r.job : r \in RowsOf(q)}
  <2>1. gone \in SUBSET Jobs
    OBVIOUS
  <2>2. rows' = rows \ RowsOf(q) /\ waived' = waived \cup gone /\ settled' = settled
    BY <1>3 DEF Clear
  <2>3. Owed' = Owed \ gone
    BY <2>2
  <2> QED
    BY <2>1, <2>2, <2>3 DEF Ledger!Next, Ledger!Waive
<1>4. ASSUME NEW q \in Queues, Fetch(q) PROVE UNCHANGED Ledger!vars
  <2>1. PICK r \in rows : rows' = (rows \ {r}) \cup {[r EXCEPT !.status = "processing"]}
    BY <1>4 DEF Fetch
  <2>2. [r EXCEPT !.status = "processing"].job = r.job
    OBVIOUS
  <2>3. Owed' = Owed
    BY <2>1, <2>2
  <2> QED
    BY <2>3, <1>4 DEF Fetch, Ledger!vars
<1>4f. ASSUME NEW q \in Queues, FetchFails(q) PROVE UNCHANGED Ledger!vars
  <2>1. PICK r \in rows : rows' = (rows \ {r}) \cup {[r EXCEPT !.status = "processing"]}
    BY <1>4f DEF FetchFails
  <2>2. [r EXCEPT !.status = "processing"].job = r.job
    OBVIOUS
  <2>3. Owed' = Owed
    BY <2>1, <2>2
  <2> QED
    BY <2>3, <1>4f DEF FetchFails, Ledger!vars
<1>5. ASSUME NEW q \in Queues, LeaveLoop(q) PROVE Same
  BY <1>5 DEF LeaveLoop
<1>6. ASSUME NEW q \in Queues, Cancel(q) PROVE Same
  BY <1>6 DEF Cancel
<1>7. ASSUME NEW q \in Queues, Exit(q) PROVE Same
  BY <1>7 DEF Exit
<1>8. ASSUME NEW t \in tasks, Start(t) PROVE Same
  BY <1>8 DEF Start
<1>9. ASSUME NEW t \in tasks, Report(t) PROVE Ledger!Next
  <2>1. t.job \in Owed \cup waived
    BY <1>9 DEF Report, RunOwed, TaskRow
  <2>2. Owed' = Owed /\ waived' = waived /\ settled' = settled \cup {t.job}
    BY <1>9 DEF Report
  <2> QED
    BY <2>1, <2>2 DEF Ledger!Next, Ledger!Settle
<1>10. ASSUME NEW t \in tasks, Reenqueue(t) PROVE Ledger!Next
  BY <1>10, <1>a DEF Reenqueue
<1>11. ASSUME NEW t \in tasks, ReportRequeue(t) PROVE Same
  BY <1>11 DEF ReportRequeue
<1>12. ASSUME NEW t \in tasks, Raise(t) PROVE Same
  BY <1>12 DEF Raise
<1>13. ASSUME NEW t \in tasks, NEW j \in Jobs, Emit(t, j) PROVE Ledger!Next
  BY <1>13, <1>a DEF Emit
<1>14. ASSUME NEW t \in tasks, Ack(t) PROVE [Ledger!Next]_(Ledger!vars)
  <2>1. /\ rows' = {r \in rows : ~(r.id = t.id /\ r.status = "processing")}
        /\ t.stage = "ack" /\ UNCHANGED <<settled, waived>>
    BY <1>14 DEF Ack
  <2>2. \A r \in rows : r \in rows' \/ r.job = t.job
    BY <2>1 DEF TaskRow
  <2>3. CASE \E r \in rows' : r.job = t.job
    <3>1. Owed' = Owed
      BY <2>1, <2>2, <2>3
    <3> QED
      BY <3>1, <2>1 DEF Ledger!vars
  <2>4. CASE ~ \E r \in rows' : r.job = t.job
    <3>1. Owed' = Owed \ {t.job}
      BY <2>1, <2>2, <2>4
    <3>2. \A r \in rows : r.id > t.id => r \in rows'
      BY <2>1
    <3>3. t.job \in settled \cup waived
      BY <2>1, <2>4, <3>2 DEF AckIsSafe, Covered
    <3> QED
      BY <3>1, <3>3, <2>1 DEF Ledger!Next, Ledger!Strike
  <2> QED
    BY <2>3, <2>4
<1>15. ASSUME NEW t \in tasks, AckFails(t) PROVE Same
  BY <1>15 DEF AckFails
<1>16. ASSUME Stop \/ Crash \/ StartWait \/ ReadSize \/ ReadCount \/ EndWait \/ UNCHANGED vars
       PROVE  Same
  BY <1>16 DEF Stop, Crash, StartWait, ReadSize, ReadCount, EndWait, vars
<1>17. ASSUME Restart PROVE UNCHANGED Ledger!vars
  <2>1. rows' = {[r EXCEPT !.status = "pending"] : r \in rows}
    BY <1>17 DEF Restart
  <2>2. \A r \in rows : [r EXCEPT !.status = "pending"].job = r.job
    OBVIOUS
  <2>4. \A y \in rows' : \E r \in rows : y.job = r.job
    BY <2>1, <2>2
  <2>5. \A r \in rows : \E y \in rows' : y.job = r.job
    BY <2>1, <2>2
  <2>3. Owed' = Owed
    BY <2>4, <2>5
  <2> QED
    BY <2>3, <1>17 DEF Restart, Ledger!vars
<1> HIDE DEF IInv, TypeOK, Identity
<1> QED
  BY <1>0, <1>1, <1>2, <1>3, <1>4, <1>4f, <1>5, <1>6, <1>7, <1>8, <1>9, <1>10, <1>11, <1>12,
     <1>13, <1>14, <1>15, <1>16, <1>17 DEF Next, TaskStep, Handler, Poll

(* The queues implement the ledger: for any number of jobs, workers,        *)
(* re-enqueues, failed acks, cancelled tasks, crashes and restarts, the     *)
(* last message of a job leaves the SQLite table only after a handler has   *)
(* reported on the job or its queue was cleared.                            *)
THEOREM ImplementsLedger == ASSUME Deduped = {} PROVE Spec => LedgerSpec
<1>1. Init => IInv
  BY InitInv
<1>2. IInv /\ [Next]_vars => IInv'
  BY InvStep
<1>3. Init => Ledger!Init
  BY DEF Init, Ledger!Init
<1>4. IInv /\ [Next]_vars => [Ledger!Next]_(Ledger!vars)
  BY LedgerStep
<1> QED
  BY <1>1, <1>2, <1>3, <1>4, PTL DEF Spec, LedgerSpec, Ledger!Spec
=============================================================================
