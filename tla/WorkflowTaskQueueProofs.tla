----------------------- MODULE WorkflowTaskQueueProofs -----------------------
(* Theorems about WorkflowTaskQueue, for any tasks, review items, runs,      *)
(* operators, batch size, requests and faults.                               *)
EXTENDS WorkflowTaskQueue, TLAPS

-----------------------------------------------------------------------------
(* Type correctness                                                          *)

LEMMA NothingIsATask == Nothing \in Task
BY SetAssumption DEF Nothing

LEMMA DoneTyped ==
  ASSUME TypeOK, NEW a \in Actor, DoneWithTask(a)
  PROVE  pc' \in [Actor -> Points] /\ cur' \in [Actor -> Task]
BY NothingIsATask DEF TypeOK, DoneWithTask, Goto, Points, InsideLock

LEMMA EndsTyped ==
  ASSUME TypeOK, NEW r \in Run, RunEnds(r)
  PROVE  /\ pc' \in [Actor -> Points] /\ cur' \in [Actor -> Task]
         /\ todo' \in [Run -> SUBSET Task] /\ scheduled' \in [Run -> BOOLEAN]
BY NothingIsATask DEF TypeOK, RunEnds, Goto, Points, Actor

LEMMA StartTyped ==
  ASSUME TypeOK, NEW a \in Actor, NEW t \in Task, StartWorkflow(a, t)
  PROVE  /\ pc' \in [Actor -> Points] /\ cur' \in [Actor -> Task]
         /\ status' \in [Task -> Statuses] /\ started' \in [Task -> BOOLEAN]
         /\ schedStarts' \in [Task -> Nat]
<1>1. CASE /\ Set(t, "FAILED") /\ DoneWithTask(a)
           /\ UNCHANGED <<started, schedStarts>>
  <2>1. pc' \in [Actor -> Points] /\ cur' \in [Actor -> Task]
    BY <1>1, DoneTyped
  <2> QED
    BY <1>1, <2>1 DEF TypeOK, Set, Statuses
<1>2. CASE /\ started' = [started EXCEPT ![t] = TRUE]
           /\ schedStarts' = IF a \in Run THEN [schedStarts EXCEPT ![t] = @ + 1] ELSE schedStarts
           /\ Goto(a, "running")
           /\ cur' = [cur EXCEPT ![a] = t]
           /\ UNCHANGED status
  BY <1>2 DEF TypeOK, Goto, Points, InsideLock
<1> QED
  BY <1>1, <1>2 DEF StartWorkflow

LEMMA RequestTyped ==
  ASSUME TypeOK, NEW o \in Operator, NEW t \in Task, NEW l \in Points, Request(o, t, l)
  PROVE  TypeOK'
<1>1. requests' \in 0 .. MaxRequests
  BY BoundAssumption DEF TypeOK, Request
<1> QED
  BY <1>1 DEF TypeOK, Request, Goto, Actor, tasks, config, history

LEMMA TypeInit == Init => TypeOK
<1> SUFFICES ASSUME Init PROVE TypeOK
  OBVIOUS
<1>1. status \in [Task -> Statuses] /\ started \in [Task -> BOOLEAN]
  BY DEF Init, Statuses
<1>2. revoked \in [ReviewItem -> BOOLEAN] /\ lock \in Run \union {NoRun}
  BY DEF Init
<1>3. pc \in [Actor -> Points] /\ cur \in [Actor -> Task]
  BY NothingIsATask DEF Init, Points
<1>4. scheduled \in [Run -> BOOLEAN] /\ todo \in [Run -> SUBSET Task]
  BY DEF Init
<1>5. /\ schedStarts \in [Task -> Nat] /\ closed \subseteq Task
      /\ enabled \in BOOLEAN /\ due \in BOOLEAN
  BY DEF Init
<1>6. requests \in 0 .. MaxRequests /\ faults \in 0 .. MaxFaults /\ overruns \in 0 .. MaxOverruns
  BY BoundAssumption DEF Init
<1> QED
  BY <1>1, <1>2, <1>3, <1>4, <1>5, <1>6 DEF TypeOK

LEMMA TypeStep == TypeOK /\ [Next]_vars => TypeOK'
<1> SUFFICES ASSUME TypeOK, [Next]_vars PROVE TypeOK'
  OBVIOUS
<1> USE DEF TypeOK, tasks, config, bounds, history
<1>a. Run \subseteq Actor /\ Operator \subseteq Actor
  BY DEF Actor
<1>b. ASSUME Fault PROVE faults' \in 0 .. MaxFaults
  BY <1>b, BoundAssumption DEF Fault
<1>1. ASSUME NEW a \in Actor, WorkflowEnds(a) PROVE TypeOK'
  <2>1. CASE Close(cur[a]) /\ Goto(a, "certify") /\ UNCHANGED cur
    BY <1>1, <2>1 DEF WorkflowEnds, Close, Set, Goto, Points, InsideLock, Statuses
  <2>2. CASE \E s \in {"WAITING", "FAILED"} :
               Set(cur[a], s) /\ DoneWithTask(a) /\ UNCHANGED closed
    <3>1. status' \in [Task -> Statuses]
      BY <2>2 DEF Set, Statuses, OpenStatuses
    <3>2. pc' \in [Actor -> Points] /\ cur' \in [Actor -> Task]
      BY <2>2, DoneTyped
    <3> QED
      BY <1>1, <2>2, <3>1, <3>2 DEF WorkflowEnds
  <2> QED
    BY <1>1, <2>1, <2>2 DEF WorkflowEnds
<1>2. ASSUME NEW a \in Actor, Certify(a) PROVE TypeOK'
  <2>1. pc' \in [Actor -> Points] /\ cur' \in [Actor -> Task]
    BY <1>2, DoneTyped DEF Certify
  <2>2. status' \in [Task -> Statuses] /\ revoked' \in [ReviewItem -> BOOLEAN]
    BY <1>2 DEF Certify, Thrown, Set, Statuses
  <2> QED
    BY <1>2, <2>1, <2>2 DEF Certify
<1>3. ASSUME NEW a \in Actor, ExecutionThrows(a) PROVE TypeOK'
  <2>1. pc' \in [Actor -> Points] /\ cur' \in [Actor -> Task]
    BY <1>3, DoneTyped DEF ExecutionThrows
  <2>2. status' \in [Task -> Statuses]
    BY <1>3 DEF ExecutionThrows, Thrown, Set, Statuses
  <2> QED
    BY <1>3, <1>b, <2>1, <2>2 DEF ExecutionThrows
<1>4. ASSUME NEW r \in Run, Poll(r) PROVE TypeOK'
  BY <1>4, <1>a DEF Poll, Goto, Points
<1>5. ASSUME NEW r \in Run, RunNow(r) PROVE TypeOK'
  <2>1. requests' \in 0 .. MaxRequests
    BY <1>5, BoundAssumption DEF RunNow
  <2> QED
    BY <1>5, <1>a, <2>1 DEF RunNow, Goto, Points
<1>6. ASSUME NEW r \in Run, AcquireLock(r) PROVE TypeOK'
  <2>1. CASE lock = NoRun
    BY <1>6, <1>a, <2>1 DEF AcquireLock, Goto, Points, InsideLock
  <2>2. CASE lock # NoRun
    <3>1. due' \in BOOLEAN
      BY <1>6, <2>2 DEF AcquireLock
    <3> QED
      BY <1>6, <2>2, <3>1, EndsTyped DEF AcquireLock
  <2> QED
    BY <2>1, <2>2
<1>7. ASSUME NEW r \in Run, PickUpNewTasks(r) PROVE TypeOK'
  BY <1>7, <1>a DEF PickUpNewTasks, Goto, Points, InsideLock, Statuses, OpenStatuses
<1>8. ASSUME NEW r \in Run, ReadInProgress(r) PROVE TypeOK'
  <2>1. \A B \in Batches({t \in Task : Startable(t)}) : B \subseteq Task
    BY DEF Batches
  <2> QED
    BY <1>8, <1>a, <2>1 DEF ReadInProgress, Goto, Points, InsideLock
<1>9. ASSUME NEW r \in Run, StartNext(r) PROVE TypeOK'
  <2>1. PICK t \in todo[r] : StartWorkflow(r, t) /\ todo' = [todo EXCEPT ![r] = @ \ {t}]
    BY <1>9 DEF StartNext
  <2>2. t \in Task
    BY <2>1
  <2>3. todo' \in [Run -> SUBSET Task]
    BY <2>1
  <2> QED
    BY <1>9, <1>a, <2>1, <2>2, <2>3, StartTyped DEF StartNext
<1>10. ASSUME NEW r \in Run, RunFinishes(r) PROVE TypeOK'
  BY <1>10, <1>a DEF RunFinishes, Goto, Points, InsideLock
<1>11. ASSUME NEW r \in Run, RunThrows(r) PROVE TypeOK'
  BY <1>11, <1>a, <1>b DEF RunThrows, Goto, Points, InsideLock
<1>12. ASSUME NEW r \in Run, ReleaseLock(r) PROVE TypeOK'
  <2>1. lock' \in Run \union {NoRun} /\ faults' \in 0 .. MaxFaults
    BY <1>12, <1>b DEF ReleaseLock
  <2> QED
    BY <1>12, <2>1, EndsTyped DEF ReleaseLock
<1>13. ASSUME LockExpires PROVE TypeOK'
  <2>1. overruns' \in 0 .. MaxOverruns
    BY <1>13, BoundAssumption DEF LockExpires
  <2> QED
    BY <1>13, <2>1 DEF LockExpires, locals
<1>14. ASSUME BecomeDue PROVE TypeOK'
  BY <1>14 DEF BecomeDue, locals
<1>15. ASSUME SaveConfig PROVE TypeOK'
  <2>1. requests' \in 0 .. MaxRequests
    BY <1>15, BoundAssumption DEF SaveConfig
  <2> QED
    BY <1>15, <2>1 DEF SaveConfig, locals
<1>16. ASSUME NEW o \in Operator, NEW t \in Task, Requested(o, t) PROVE TypeOK'
  <2>1. {"create", "launch", "redeliver", "mark", "cancel"} \subseteq Points
    BY DEF Points
  <2>2. \E l \in Points : Request(o, t, l)
    BY <1>16, <2>1 DEF Requested, FindOpenTask, LaunchRequested, RetryRequested,
       CompleteRequested, CancelRequested
  <2> QED
    BY <2>2, RequestTyped
<1>17. ASSUME NEW o \in Operator, CreateTask(o) PROVE TypeOK'
  <2>1. pc' \in [Actor -> Points] /\ cur' \in [Actor -> Task]
    BY <1>17, <1>a, DoneTyped DEF CreateTask
  <2> QED
    BY <1>17, <2>1 DEF CreateTask, Set, Statuses, OpenStatuses
<1>18. ASSUME NEW o \in Operator, LaunchPicks(o) PROVE TypeOK'
  BY <1>18, <1>a DEF LaunchPicks, Set, Goto, Points, Statuses, OpenStatuses
<1>19. ASSUME NEW o \in Operator, LaunchReads(o) PROVE TypeOK'
  <2>1. CASE started[cur[o]]
    BY <1>19, <1>a, <2>1, DoneTyped DEF LaunchReads
  <2>2. CASE ~started[cur[o]]
    BY <1>19, <1>a, <2>2 DEF LaunchReads, Goto, Points
  <2> QED
    BY <2>1, <2>2
<1>20. ASSUME NEW o \in Operator, LaunchStarts(o) PROVE TypeOK'
  <2>1. cur[o] \in Task
    BY <1>a
  <2> QED
    BY <1>20, <1>a, <2>1, StartTyped DEF LaunchStarts
<1>21. ASSUME NEW o \in Operator, Redeliver(o) PROVE TypeOK'
  <2>1. CASE Set(cur[o], "IN_PROGRESS") /\ Goto(o, "running") /\ UNCHANGED cur
    BY <1>21, <1>a, <2>1 DEF Redeliver, Set, Goto, Points, InsideLock, Statuses, OpenStatuses
  <2>2. CASE DoneWithTask(o) /\ UNCHANGED status
    BY <1>21, <1>a, <2>2, DoneTyped DEF Redeliver
  <2> QED
    BY <1>21, <2>1, <2>2 DEF Redeliver
<1>22. ASSUME NEW o \in Operator, MarkComplete(o) PROVE TypeOK'
  BY <1>22, <1>a DEF MarkComplete, Close, Set, Goto, Points, InsideLock, Statuses
<1>23. ASSUME NEW o \in Operator, Cancel(o) PROVE TypeOK'
  <2>1. pc' \in [Actor -> Points] /\ cur' \in [Actor -> Task]
    BY <1>23, <1>a, DoneTyped DEF Cancel
  <2> QED
    BY <1>23, <2>1 DEF Cancel, Set, Statuses
<1>24. ASSUME NEW a \in Actor, Crash(a) PROVE TypeOK'
  <2>1. pc' \in [Actor -> Points] /\ cur' \in [Actor -> Task]
    BY <1>24, NothingIsATask DEF Crash, Goto, Points
  <2>2. todo' \in [Run -> SUBSET Task] /\ scheduled' \in [Run -> BOOLEAN]
    BY <1>24 DEF Crash
  <2> QED
    BY <1>24, <1>b, <2>1, <2>2 DEF Crash
<1>25. ASSUME UNCHANGED vars PROVE TypeOK'
  BY <1>25 DEF vars, locals
<1> QED
  BY <1>1, <1>2, <1>3, <1>4, <1>5, <1>6, <1>7, <1>8, <1>9, <1>10, <1>11, <1>12, <1>13,
     <1>14, <1>15, <1>16, <1>17, <1>18, <1>19, <1>20, <1>21, <1>22, <1>23, <1>24, <1>25, <1>a
     DEF Next, RunStep, OperatorStep, Execute

\* Every reachable state is well typed: tasks and review items take their models'
\* statuses, and nothing writes a status of the one to the other (every handler of
\* workflowTaskQueueService and scheduler.service).
THEOREM TypeCorrect == Spec => []TypeOK
<1>1. Init => TypeOK
  BY TypeInit
<1>2. TypeOK /\ [Next]_vars => TypeOK'
  BY TypeStep
<1> QED
  BY <1>1, <1>2, PTL DEF Spec

-----------------------------------------------------------------------------
(* One run at a time                                                         *)

\* A step of one actor leaves every run where it was unless the actor is that
\* run, and a run that is through with a task is still inside the lock.
LEMMA RunMoves ==
  ASSUME TypeOK, [Next]_vars, NEW r \in Run, pc'[r] # pc[r]
  PROVE  \/ Poll(r) \/ RunNow(r) \/ RunStep(r) \/ RunThrows(r)
         \/ ExecutionThrows(r) \/ Crash(r)
<1> USE DEF TypeOK
<1>0. r \in Actor /\ r \notin Operator
  BY SetAssumption DEF Actor
<1>1. ASSUME NEW o \in Operator, OperatorStep(o) PROVE pc'[r] = pc[r]
  BY <1>1, <1>0 DEF OperatorStep, CreateTask, LaunchPicks, LaunchReads, LaunchStarts,
     Redeliver, MarkComplete, Cancel, Execute, WorkflowEnds, Certify, StartWorkflow,
     DoneWithTask, Goto
<1>2. ASSUME NEW o \in Operator, NEW t \in Task, Requested(o, t) PROVE pc'[r] = pc[r]
  BY <1>2, <1>0 DEF Requested, FindOpenTask, LaunchRequested, RetryRequested,
     CompleteRequested, CancelRequested, Request, Goto
<1>3. ASSUME NEW s \in Run, s # r, Poll(s) \/ RunNow(s) \/ RunStep(s) \/ RunThrows(s)
      PROVE  pc'[r] = pc[r]
  BY <1>3, <1>0 DEF Poll, RunNow, RunStep, RunThrows, AcquireLock, PickUpNewTasks,
     ReadInProgress, StartNext, RunFinishes, ReleaseLock, Execute, WorkflowEnds,
     Certify, StartWorkflow, DoneWithTask, RunEnds, Goto
<1>4. ASSUME NEW a \in Actor, a # r, ExecutionThrows(a) \/ Crash(a) PROVE pc'[r] = pc[r]
  BY <1>4, <1>0 DEF ExecutionThrows, Crash, DoneWithTask, Goto
<1>5. ASSUME LockExpires \/ BecomeDue \/ SaveConfig \/ UNCHANGED vars PROVE pc'[r] = pc[r]
  BY <1>5 DEF LockExpires, BecomeDue, SaveConfig, vars, locals
<1> QED
  BY <1>1, <1>2, <1>3, <1>4, <1>5 DEF Next

\* Only the creation of the document, its deletion at a run's end and its expiry
\* write the lock.
LEMMA LockMoves ==
  ASSUME [Next]_vars, lock' # lock
  PROVE  LockExpires \/ \E r \in Run : AcquireLock(r) \/ ReleaseLock(r)
<1>1. ASSUME NEW o \in Operator, OperatorStep(o) PROVE lock' = lock
  BY <1>1 DEF OperatorStep, CreateTask, LaunchPicks, LaunchReads, LaunchStarts,
     Redeliver, MarkComplete, Cancel, Execute, WorkflowEnds, Certify
<1>2. ASSUME NEW o \in Operator, NEW t \in Task, Requested(o, t) PROVE lock' = lock
  BY <1>2 DEF Requested, FindOpenTask, LaunchRequested, RetryRequested,
     CompleteRequested, CancelRequested, Request
<1>3. ASSUME NEW r \in Run, Poll(r) \/ RunNow(r) \/ RunStep(r) \/ RunThrows(r)
      PROVE  lock' = lock \/ AcquireLock(r) \/ ReleaseLock(r)
  BY <1>3 DEF Poll, RunNow, RunStep, RunThrows, PickUpNewTasks,
     ReadInProgress, StartNext, RunFinishes, Execute, WorkflowEnds, Certify
<1>4. ASSUME NEW a \in Actor, ExecutionThrows(a) \/ Crash(a) PROVE lock' = lock
  BY <1>4 DEF ExecutionThrows, Crash
<1>5. ASSUME BecomeDue \/ SaveConfig \/ UNCHANGED vars PROVE lock' = lock
  BY <1>5 DEF BecomeDue, SaveConfig, vars
<1> QED
  BY <1>1, <1>2, <1>3, <1>4, <1>5 DEF Next

LEMMA ExclusionStep ==
  ASSUME MaxOverruns = 0, TypeOK, OneRunAtATime, [Next]_vars
  PROVE  OneRunAtATime'
<1> SUFFICES ASSUME NEW r \in Run, pc'[r] \in InsideLock PROVE lock' = r
  BY DEF OneRunAtATime
<1>0. r \in Actor /\ r # NoRun /\ overruns = 0
  BY SetAssumption DEF TypeOK, Actor
<1>1. CASE AcquireLock(r)
  BY <1>0, <1>1 DEF AcquireLock, RunEnds, Goto, InsideLock, TypeOK
<1>2. CASE ~AcquireLock(r)
  <2>1. pc[r] \in InsideLock
    <3>1. CASE pc'[r] = pc[r]
      BY <3>1
    <3>2. CASE pc'[r] # pc[r]
      BY <1>0, <1>2, <3>2, RunMoves DEF Poll, RunNow, RunStep, RunThrows, PickUpNewTasks,
         ReadInProgress, StartNext, RunFinishes, ReleaseLock, Execute, WorkflowEnds,
         Certify, ExecutionThrows, Crash, RunEnds, Goto, InsideLock, TypeOK
    <3> QED
      BY <3>1, <3>2
  <2>2. lock = r
    BY <2>1 DEF OneRunAtATime
  <2>3. ~LockExpires
    BY <1>0, <2>1, <2>2, BoundAssumption DEF LockExpires
  <2>4. ASSUME NEW s \in Run, AcquireLock(s) PROVE lock' = lock
    BY <1>0, <2>2, <2>4 DEF AcquireLock
  <2>5. ASSUME NEW s \in Run, ReleaseLock(s) PROVE lock' = lock
    <3>1. s = r
      BY <2>2, <2>5 DEF ReleaseLock, OneRunAtATime, InsideLock
    <3>2. pc'[r] = "idle"
      BY <1>0, <2>5, <3>1 DEF ReleaseLock, RunEnds, Goto, TypeOK
    <3> QED
      BY <3>2 DEF InsideLock
  <2> QED
    BY <2>2, <2>3, <2>4, <2>5, LockMoves
<1> QED
  BY <1>1, <1>2

\* If no run outlives its lock, one run of a tenant's scheduler is inside runNow's
\* protected part at a time, whoever crashes, overlaps or is skipped.
THEOREM RunsAreExclusive ==
  ASSUME MaxOverruns = 0
  PROVE  Spec => []OneRunAtATime
<1>1. Init => OneRunAtATime
  BY DEF Init, OneRunAtATime, InsideLock, Actor
<1>2. TypeOK /\ OneRunAtATime /\ [Next]_vars => OneRunAtATime'
  BY ExclusionStep
<1> QED
  BY <1>1, <1>2, TypeCorrect, PTL DEF Spec

-----------------------------------------------------------------------------
(* The scheduler starts a task once                                          *)

\* What a run has found and not executed was never started by the scheduler; what
\* the scheduler started is marked so; only a run inside the lock has anything to do.
StartsInv ==
  /\ StartedOnceByScheduler
  /\ \A t \in Task : schedStarts[t] > 0 => started[t]
  /\ \A r \in Run : \A t \in todo[r] : schedStarts[t] = 0
  /\ \A r \in Run : todo[r] # {} => pc[r] \in InsideLock

\* Apart from a run's find and its starts, a step starts nothing for the scheduler,
\* unmarks nothing and gives no run anything to do.
LEMMA QuietStep ==
  ASSUME TypeOK, [Next]_vars,
         \A r \in Run : ~ReadInProgress(r) /\ ~StartNext(r)
  PROVE  /\ schedStarts' = schedStarts
         /\ \A t \in Task : started[t] => started'[t]
         /\ \A r \in Run : todo'[r] = todo[r] \/ todo'[r] = {}
<1> USE DEF TypeOK, tasks, history
<1>0. \A o \in Operator : o \in Actor /\ o \notin Run
  BY SetAssumption DEF Actor
<1> DEFINE Quiet == /\ schedStarts' = schedStarts
                    /\ \A t \in Task : started[t] => started'[t]
                    /\ \A r \in Run : todo'[r] = todo[r] \/ todo'[r] = {}
<1>1. ASSUME NEW o \in Operator, OperatorStep(o) PROVE Quiet
  <2>1. CASE LaunchStarts(o)
    <3>1. cur[o] \in Task
      BY <1>0
    <3> QED
      BY <1>0, <2>1, <3>1 DEF LaunchStarts, StartWorkflow
  <2>2. CASE ~LaunchStarts(o)
    BY <1>1, <2>2 DEF OperatorStep, CreateTask, LaunchPicks, LaunchReads,
       Redeliver, MarkComplete, Cancel, Execute, WorkflowEnds, Certify
  <2> QED
    BY <2>1, <2>2
<1>2. ASSUME NEW o \in Operator, NEW t \in Task, Requested(o, t) PROVE Quiet
  BY <1>2 DEF Requested, FindOpenTask, LaunchRequested, RetryRequested,
     CompleteRequested, CancelRequested, Request
<1>3. ASSUME NEW r \in Run, Poll(r) \/ RunNow(r) \/ RunStep(r) \/ RunThrows(r)
      PROVE  Quiet
  BY <1>3 DEF Poll, RunNow, RunStep, RunThrows, AcquireLock, PickUpNewTasks,
     RunFinishes, ReleaseLock, RunEnds, Execute, WorkflowEnds, Certify
<1>4. ASSUME NEW a \in Actor, ExecutionThrows(a) \/ Crash(a) PROVE Quiet
  BY <1>4 DEF ExecutionThrows, Crash
<1>5. ASSUME LockExpires \/ BecomeDue \/ SaveConfig \/ UNCHANGED vars PROVE Quiet
  BY <1>5 DEF LockExpires, BecomeDue, SaveConfig, vars, locals
<1> QED
  BY <1>1, <1>2, <1>3, <1>4, <1>5 DEF Next

LEMMA StartsStep ==
  ASSUME MaxOverruns = 0, TypeOK, OneRunAtATime, StartsInv, [Next]_vars
  PROVE  StartsInv'
<1> USE DEF TypeOK
<1>0. \A r \in Run : r \in Actor
  BY DEF Actor
<1>1. ASSUME NEW r \in Run, ReadInProgress(r) PROVE StartsInv'
  <2>1. /\ schedStarts' = schedStarts /\ started' = started
        /\ pc' = [pc EXCEPT ![r] = "next"]
    BY <1>1 DEF ReadInProgress, Goto, tasks, history
  <2>2. PICK B \in Batches({t \in Task : Startable(t)}) : todo' = [todo EXCEPT ![r] = B]
    BY <1>1 DEF ReadInProgress
  <2>3. \A t \in B : t \in Task /\ schedStarts[t] = 0
    BY DEF Batches, Startable, StartsInv
  <2>4. \A s \in Run : \A t \in todo'[s] : schedStarts'[t] = 0
    BY <2>1, <2>2, <2>3 DEF StartsInv
  <2>5. \A s \in Run : todo'[s] # {} => pc'[s] \in InsideLock
    BY <1>0, <2>1, <2>2 DEF StartsInv, InsideLock
  <2> QED
    BY <2>1, <2>4, <2>5 DEF StartsInv, StartedOnceByScheduler
<1>2. ASSUME NEW r \in Run, StartNext(r) PROVE StartsInv'
  <2>1. PICK t \in todo[r] : StartWorkflow(r, t) /\ todo' = [todo EXCEPT ![r] = @ \ {t}]
    BY <1>2 DEF StartNext
  <2>2. t \in Task /\ schedStarts[t] = 0
    BY <2>1 DEF StartsInv
  <2>3. /\ \A u \in Task \ {t} : schedStarts'[u] = schedStarts[u] /\ started'[u] = started[u]
        /\ schedStarts'[t] = 0 \/ (schedStarts'[t] = 1 /\ started'[t])
    BY <2>1, <2>2 DEF StartWorkflow
  <2>4. \A s \in Run : pc[s] \in InsideLock => s = r
    BY <1>2 DEF StartNext, OneRunAtATime, InsideLock
  <2>5. \A s \in Run : s # r => todo'[s] = {}
    BY <2>1, <2>4 DEF StartsInv
  <2>6. \A s \in Run : \A u \in todo'[s] : schedStarts'[u] = 0
    BY <2>1, <2>3, <2>5 DEF StartsInv
  <2>7. pc'[r] \in InsideLock
    BY <1>0, <2>1 DEF StartWorkflow, DoneWithTask, Goto, InsideLock
  <2>8. \A s \in Run : todo'[s] # {} => pc'[s] \in InsideLock
    BY <2>5, <2>7
  <2>9. \A u \in Task : schedStarts'[u] <= 1
    BY <2>2, <2>3 DEF StartsInv, StartedOnceByScheduler
  <2>10. \A u \in Task : schedStarts'[u] > 0 => started'[u]
    BY <2>2, <2>3 DEF StartsInv
  <2> QED
    BY <2>6, <2>8, <2>9, <2>10 DEF StartsInv, StartedOnceByScheduler
<1>3. ASSUME \A r \in Run : ~ReadInProgress(r) /\ ~StartNext(r) PROVE StartsInv'
  <2>1. /\ schedStarts' = schedStarts
        /\ \A t \in Task : started[t] => started'[t]
        /\ \A r \in Run : todo'[r] = todo[r] \/ todo'[r] = {}
    BY <1>3, QuietStep
  <2>2. ASSUME NEW r \in Run, todo'[r] # {} PROVE pc'[r] \in InsideLock
    <3>1. todo[r] # {} /\ pc[r] \in InsideLock
      BY <2>1, <2>2 DEF StartsInv
    <3>2. ~ReleaseLock(r) /\ ~Crash(r)
      BY <2>2 DEF ReleaseLock, RunEnds, Crash
    <3>3. CASE pc'[r] # pc[r]
      BY <1>0, <1>3, <3>1, <3>2, <3>3, RunMoves DEF Poll, RunNow, RunStep, RunThrows,
         AcquireLock, PickUpNewTasks, RunFinishes, Execute, WorkflowEnds, Certify,
         ExecutionThrows, DoneWithTask, Goto, InsideLock
    <3> QED
      BY <3>1, <3>3
  <2> QED
    BY <2>1, <2>2 DEF StartsInv, StartedOnceByScheduler
<1> QED
  BY <1>1, <1>2, <1>3

\* If no run outlives its lock, no task's workflow is started twice by the scheduler,
\* for any number of tasks, runs, operators' requests and crashes.
THEOREM SchedulerStartsOnce ==
  ASSUME MaxOverruns = 0
  PROVE  Spec => []StartedOnceByScheduler
<1>1. Init => StartsInv
  BY DEF Init, StartsInv, StartedOnceByScheduler
<1>2. TypeOK /\ OneRunAtATime /\ StartsInv /\ [Next]_vars => StartsInv'
  BY StartsStep
<1>3. StartsInv => StartedOnceByScheduler
  BY DEF StartsInv
<1> QED
  BY <1>1, <1>2, <1>3, TypeCorrect, RunsAreExclusive, PTL DEF Spec

-----------------------------------------------------------------------------
(* What is certified as revoked                                              *)

\* Whoever is about to certify has closed its task.
CertifyInv ==
  /\ \A a \in Actor : pc[a] = "certify" => cur[a] \in closed
  /\ CertifiedWasClosed

\* Apart from the two writes of completeTaskAndUpdateCertification, a step closes and
\* certifies nothing, and brings nobody between the two.
LEMMA OtherSteps ==
  ASSUME TypeOK, [Next]_vars,
         \A a \in Actor : ~WorkflowEnds(a) /\ ~Certify(a),
         \A o \in Operator : ~MarkComplete(o)
  PROVE  /\ closed' = closed /\ revoked' = revoked
         /\ \A a \in Actor : pc'[a] = "certify" => pc[a] = "certify" /\ cur'[a] = cur[a]
<1> USE DEF TypeOK, tasks, history, Goto
<1> DEFINE Other ==
      /\ closed' = closed /\ revoked' = revoked
      /\ \A a \in Actor : pc'[a] = "certify" => pc[a] = "certify" /\ cur'[a] = cur[a]
<1>0. Run \subseteq Actor /\ Operator \subseteq Actor
  BY DEF Actor
<1>1. ASSUME NEW o \in Operator, OperatorStep(o) PROVE Other
  <2>1. CASE CreateTask(o) \/ LaunchPicks(o) \/ LaunchReads(o)
    BY <1>0, <2>1 DEF CreateTask, LaunchPicks, LaunchReads, DoneWithTask
  <2>2. CASE LaunchStarts(o)
    BY <1>0, <2>2 DEF LaunchStarts, StartWorkflow, DoneWithTask
  <2>3. CASE Redeliver(o) \/ Cancel(o)
    BY <1>0, <2>3 DEF Redeliver, Cancel, DoneWithTask
  <2> QED
    BY <1>0, <1>1, <2>1, <2>2, <2>3 DEF OperatorStep, Execute
<1>2. ASSUME NEW o \in Operator, NEW t \in Task, Requested(o, t) PROVE Other
  BY <1>0, <1>2 DEF Requested, FindOpenTask, LaunchRequested, RetryRequested,
     CompleteRequested, CancelRequested, Request
<1>3. ASSUME NEW r \in Run, Poll(r) \/ RunNow(r) \/ RunStep(r) \/ RunThrows(r) PROVE Other
  <2>1. CASE Poll(r) \/ RunNow(r) \/ RunThrows(r)
    BY <1>0, <2>1 DEF Poll, RunNow, RunThrows
  <2>2. CASE AcquireLock(r) \/ ReleaseLock(r)
    BY <1>0, <2>2 DEF AcquireLock, ReleaseLock, RunEnds
  <2>3. CASE PickUpNewTasks(r) \/ ReadInProgress(r) \/ RunFinishes(r)
    BY <1>0, <2>3 DEF PickUpNewTasks, ReadInProgress, RunFinishes
  <2>4. CASE StartNext(r)
    BY <1>0, <2>4 DEF StartNext, StartWorkflow, DoneWithTask
  <2> QED
    BY <1>0, <1>3, <2>1, <2>2, <2>3, <2>4 DEF RunStep, Execute
<1>4. ASSUME NEW a \in Actor, ExecutionThrows(a) \/ Crash(a) PROVE Other
  BY <1>4 DEF ExecutionThrows, Crash, DoneWithTask
<1>5. ASSUME LockExpires \/ BecomeDue \/ SaveConfig \/ UNCHANGED vars PROVE Other
  BY <1>5 DEF LockExpires, BecomeDue, SaveConfig, vars, locals
<1> QED
  BY <1>1, <1>2, <1>3, <1>4, <1>5 DEF Next

LEMMA CertifyStep ==
  ASSUME TypeOK, CertifyInv, [Next]_vars
  PROVE  CertifyInv'
<1> USE DEF TypeOK, history, Goto, CertifyInv, CertifiedWasClosed
<1>0. Operator \subseteq Actor
  BY DEF Actor
<1>1. ASSUME NEW a \in Actor, WorkflowEnds(a) PROVE CertifyInv'
  <2>1. CASE Close(cur[a]) /\ Goto(a, "certify") /\ UNCHANGED cur
    BY <1>1, <2>1 DEF WorkflowEnds, Close
  <2>2. CASE \E s \in {"WAITING", "FAILED"} :
               Set(cur[a], s) /\ DoneWithTask(a) /\ UNCHANGED closed
    BY <1>1, <2>2 DEF WorkflowEnds, DoneWithTask
  <2> QED
    BY <1>1, <2>1, <2>2 DEF WorkflowEnds
<1>2. ASSUME NEW a \in Actor, Certify(a) PROVE CertifyInv'
  <2>1. closed' = closed /\ cur[a] \in closed
    BY <1>2 DEF Certify
  <2>2. \A b \in Actor : pc'[b] = "certify" => cur'[b] \in closed'
    BY <1>2, <2>1 DEF Certify, DoneWithTask
  <2>3. \A i \in ReviewItem : revoked'[i] => revoked[i] \/ i = ItemOf[cur[a]]
    BY <1>2 DEF Certify
  <2>4. CertifiedWasClosed'
    BY <2>1, <2>3
  <2> QED
    BY <2>2, <2>4
<1>3. ASSUME NEW o \in Operator, MarkComplete(o) PROVE CertifyInv'
  BY <1>0, <1>3 DEF MarkComplete, Close
<1>4. ASSUME \A a \in Actor : ~WorkflowEnds(a) /\ ~Certify(a),
             \A o \in Operator : ~MarkComplete(o)
      PROVE  CertifyInv'
  BY <1>4, OtherSteps
<1> QED
  BY <1>1, <1>2, <1>3, <1>4

\* No review item is certified as revoked for a task that was not closed first, for
\* any number of tasks, actors, requests, crashes and overruns of the lock.
THEOREM CertifiedOnlyClosed == Spec => []CertifiedWasClosed
<1>1. Init => CertifyInv
  BY DEF Init, CertifyInv, CertifiedWasClosed
<1>2. TypeOK /\ CertifyInv /\ [Next]_vars => CertifyInv'
  BY CertifyStep
<1>3. CertifyInv => CertifiedWasClosed
  BY DEF CertifyInv
<1> QED
  BY <1>1, <1>2, <1>3, TypeCorrect, PTL DEF Spec
=============================================================================
