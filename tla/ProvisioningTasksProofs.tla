------------------------ MODULE ProvisioningTasksProofs ------------------------
(* Theorems about ProvisioningTasks, for any plan, any number of workers,    *)
(* any retry limit and any number of faults.                                 *)
EXTENDS ProvisioningTasks, TLAPS

-----------------------------------------------------------------------------
(* Type correctness                                                         *)

LEMMA Defaults ==
  /\ Nothing \in Item
  /\ Unseen \in Seen
  /\ NoSnap \in Snaps
BY ItemAssumption DEF Nothing, Unseen, Seen, NoSnap, Snaps, Requests, Plans

LEMMA RestTyped ==
  ASSUME TypeOK, NEW p \in Process, Rest(p)
  PROVE  /\ pc' \in [Process -> Points]
         /\ cur' \in [Process -> Item]
         /\ seen' \in [Process -> Seen]
         /\ snap' \in [Process -> Snaps]
BY Defaults DEF TypeOK, Rest, Goto, Points

LEMMA TypeInit == Init => TypeOK
<1> SUFFICES ASSUME Init PROVE TypeOK
  OBVIOUS
<1>1. task \in [Item -> Statuses] /\ retry \in [Item -> Nat]
  BY DEF Init, Statuses
<1>2. due \in [Item -> BOOLEAN] /\ succeeded \in [Item -> BOOLEAN]
  BY DEF Init
<1>3. reqStatus \in Requests /\ resumed \in BOOLEAN /\ planStatus \in Plans
  BY DEF Init, Requests, Plans
<1>4. pc \in [Process -> Points]
  BY DEF Init, Points
<1>5. cur \in [Process -> Item] /\ seen \in [Process -> Seen] /\ snap \in [Process -> Snaps]
  BY Defaults DEF Init
<1>6. /\ attempts \in [Item -> Nat] /\ performed \in [Item -> Nat]
      /\ resumes \in Nat /\ faults \in 0 .. MaxFaults
  BY BoundAssumption DEF Init
<1> QED
  BY <1>1, <1>2, <1>3, <1>4, <1>5, <1>6 DEF TypeOK

LEMMA TypeStep == TypeOK /\ [Next]_vars => TypeOK'
<1> SUFFICES ASSUME TypeOK, [Next]_vars PROVE TypeOK'
  OBVIOUS
<1> USE DEF TypeOK, tasks, request, locals, history
<1>1. ASSUME NEW w \in Worker, NEW i \in Item, Examine(w, i) PROVE TypeOK'
  BY <1>1 DEF Examine, Set, Goto, Process, Statuses, Open, Points
<1>0. \A w \in Worker : w \in Process
  BY DEF Process
<1>2. ASSUME NEW w \in Worker, Claim(w) PROVE TypeOK'
  <2>1. w \in Process
    BY <1>0
  <2>2. task' \in [Item -> Statuses]
    BY <1>2 DEF Claim, Set, Statuses, Open
  <2>3. CASE CanClaim(cur[w])
    BY <1>2, <2>1, <2>2, <2>3 DEF Claim, Goto, Points
  <2>4. CASE ~CanClaim(cur[w])
    BY <1>2, <2>1, <2>2, <2>4, RestTyped DEF Claim
  <2> QED
    BY <2>3, <2>4
<1>3. ASSUME NEW w \in Worker, Execute(w) PROVE TypeOK'
  BY <1>3 DEF Execute, Goto, Process, Points
<1>4. ASSUME NEW w \in Worker, ScheduleRetry(w) PROVE TypeOK'
  <2>1. /\ pc' \in [Process -> Points] /\ cur' \in [Process -> Item]
        /\ seen' \in [Process -> Seen] /\ snap' \in [Process -> Snaps]
    BY <1>0, <1>4, RestTyped DEF ScheduleRetry
  <2>2. cur[w] \in Item
    BY <1>0
  <2>3. retry' \in [Item -> Nat]
    BY <1>4, <2>2 DEF ScheduleRetry
  <2>4. task' \in [Item -> Statuses] /\ due' \in [Item -> BOOLEAN]
    BY <1>4, <2>2 DEF ScheduleRetry, Set, Statuses, Open, Claimable
  <2> QED
    BY <1>4, <2>1, <2>3, <2>4 DEF ScheduleRetry
<1>5. ASSUME NEW w \in Worker, Complete(w) PROVE TypeOK'
  BY <1>5 DEF Complete, Set, Goto, Process, Statuses, Points
<1>6. ASSUME NEW w \in Worker, RecordResult(w) PROVE TypeOK'
  <2>1. faults' \in 0 .. MaxFaults
    BY <1>6, BoundAssumption DEF RecordResult, Fault
  <2> QED
    BY <1>6, <2>1 DEF RecordResult, Goto, Process, Points
<1>7. ASSUME NEW w \in Worker, Count(w) PROVE TypeOK'
  <2>1. SomeOpen \in BOOLEAN /\ SomeFailed \in BOOLEAN
    BY Zenon DEF SomeOpen, SomeFailed
  <2>2. [open |-> SomeOpen, failed |-> SomeFailed] \in Seen
    BY <2>1 DEF Seen
  <2> QED
    BY <1>7, <2>2 DEF Count, Goto, Process, Points
<1>8. ASSUME NEW w \in Worker, RollRequest(w) PROVE TypeOK'
  BY <1>8 DEF RollRequest, RequestRollup, Requests, Goto, Process, Points
<1>9. ASSUME NEW w \in Worker, RollPlan(w) PROVE TypeOK'
  BY <1>9 DEF RollPlan, Plans, Goto, Process, Points
<1>10. ASSUME NEW w \in Worker, ResumeWorkflow(w) PROVE TypeOK'
  <2>1. CASE SomeOpen \/ SomeFailed \/ resumed
    BY <1>0, <1>10, <2>1, RestTyped DEF ResumeWorkflow
  <2>2. CASE ~(SomeOpen \/ SomeFailed \/ resumed)
    BY <1>0, <1>10, <2>2 DEF ResumeWorkflow, Goto, Points
  <2> QED
    BY <2>1, <2>2
<1>11. ASSUME NEW w \in Worker, ResumeFails(w) PROVE TypeOK'
  <2>1. faults' \in 0 .. MaxFaults
    BY <1>11, BoundAssumption DEF ResumeFails, Fault
  <2> QED
    BY <1>0, <1>11, <2>1, RestTyped DEF ResumeFails
<1>12. ASSUME NEW p \in Process, ReadPlan(p) PROVE TypeOK'
  BY <1>12 DEF ReadPlan, Snaps, Goto, Points
<1>13. ASSUME NEW p \in Process, NEW i \in Item, UpsertTask(p, i) PROVE TypeOK'
  BY <1>13 DEF UpsertTask, Set, Statuses, Open, Claimable
<1>14. ASSUME NEW p \in Process, SaveRequest(p) PROVE TypeOK'
  BY <1>14 DEF SaveRequest, Snaps, Requests, Goto, Points
<1>15. ASSUME NEW p \in Process, SavePlan(p) PROVE TypeOK'
  BY <1>15, RestTyped DEF SavePlan, Plans
<1>16. ASSUME NEW p \in Process, Crash(p) PROVE TypeOK'
  BY <1>16, RestTyped, BoundAssumption DEF Crash, Fault
<1>17. ASSUME NEW i \in Item, BecomeDue(i) PROVE TypeOK'
  BY <1>17 DEF BecomeDue
<1>18. CASE UNCHANGED vars
  BY <1>18 DEF vars
<1> QED
  BY <1>1, <1>2, <1>3, <1>4, <1>5, <1>6, <1>7, <1>8, <1>9, <1>10, <1>11, <1>12, <1>13,
     <1>14, <1>15, <1>16, <1>17, <1>18 DEF Next, WorkerStep, Materialize

\* Every reachable state of tasks, request, plan and workers is well typed.
THEOREM TypeCorrect == Spec => []TypeOK
<1> QED
  BY TypeInit, TypeStep, PTL DEF Spec

-----------------------------------------------------------------------------
(* Each operation once, and as often as its retries allow                   *)

Held == {"execute", "retry", "complete"}

\* Between its claim and its end a task is RUNNING in one worker's hands, and
\* retryCount counts the failed calls.
OwnedBy(w, i) ==
  /\ task[i] = "RUNNING"
  /\ pc[w] = "execute"  => performed[i] = 0 /\ attempts[i] = retry[i] /\ retry[i] <= MaxRetries
  /\ pc[w] = "retry"    => performed[i] = 0 /\ attempts[i] = retry[i] + 1 /\ retry[i] <= MaxRetries
  /\ pc[w] = "complete" => performed[i] = 1

StatusAgrees(i) ==
  /\ attempts[i] <= MaxRetries + 1
  /\ performed[i] <= 1
  /\ task[i] = "ABSENT" => retry[i] = 0
  /\ task[i] \in Claimable \union {"ABSENT"} =>
       performed[i] = 0 /\ attempts[i] = retry[i] /\ retry[i] <= MaxRetries
  /\ task[i] = "COMPLETED" => performed[i] = 1
  /\ task[i] = "FAILED" => attempts[i] = MaxRetries + 1
  /\ succeeded[i] => task[i] = "COMPLETED"

Owned ==
  /\ \A w \in Process : pc[w] \in Held => OwnedBy(w, cur[w])
  /\ \A w \in Process : pc[w] = "result" => task[cur[w]] = "COMPLETED"
  /\ \A v, w \in Process : pc[v] \in Held /\ pc[w] \in Held /\ cur[v] = cur[w] => v = w
  /\ \A i \in Item : StatusAgrees(i)

LEMMA OwnedInit == Init => Owned
BY BoundAssumption DEF Init, Owned, OwnedBy, StatusAgrees, Held, Claimable

LEMMA OwnedStep == TypeOK /\ Owned /\ [Next]_vars => Owned'
<1> SUFFICES ASSUME TypeOK, Owned, [Next]_vars PROVE Owned'
  OBVIOUS
<1> USE BoundAssumption
    DEF TypeOK, Owned, OwnedBy, StatusAgrees, Held, tasks, request, locals, history,
        Process
<1>1. ASSUME NEW w \in Worker, NEW i \in Item, Examine(w, i) PROVE Owned'
  BY <1>1 DEF Examine, Set, Goto, Claimable
<1>2. ASSUME NEW w \in Worker, Claim(w) PROVE Owned'
  BY <1>2 DEF Claim, CanClaim, Set, Goto, Rest, Claimable
<1>3. ASSUME NEW w \in Worker, Execute(w) PROVE Owned'
  BY <1>3 DEF Execute, Goto, Claimable
<1>4. ASSUME NEW w \in Worker, ScheduleRetry(w) PROVE Owned'
  <2>1. OwnedBy(w, cur[w]) /\ pc[w] = "retry" /\ cur[w] \in Item
    BY <1>4 DEF ScheduleRetry
  <2>2. \A v \in Process : pc'[v] \in Held => v # w /\ pc[v] \in Held /\ cur[v] # cur[w]
    BY <1>4, <2>1 DEF ScheduleRetry, Rest, Goto
  <2>3. ASSUME NEW i \in Item, i = cur[w] PROVE StatusAgrees(i)'
    BY <1>4, <2>1, <2>3 DEF ScheduleRetry, GivenUp, Set, Claimable
  <2>4. \A i \in Item : StatusAgrees(i)'
    BY <1>4, <2>1, <2>3 DEF ScheduleRetry, Set
  <2>5. \A v \in Process : pc'[v] = "result" => pc[v] = "result" /\ cur'[v] = cur[v]
    BY <1>4 DEF ScheduleRetry, Rest, Goto
  <2>6. \A v \in Process : pc'[v] = "result" => task'[cur'[v]] = "COMPLETED"
    BY <1>4, <2>1, <2>5 DEF ScheduleRetry, Set
  <2>7. \A v \in Process : pc'[v] \in Held => cur'[v] = cur[v] /\ pc'[v] = pc[v]
    BY <1>4, <2>2 DEF ScheduleRetry, Rest, Goto
  <2>8. \A v \in Process : pc'[v] \in Held => OwnedBy(v, cur[v])'
    BY <1>4, <2>1, <2>2, <2>7 DEF ScheduleRetry, Set
  <2> QED
    BY <2>2, <2>4, <2>6, <2>7, <2>8
<1>5. ASSUME NEW w \in Worker, Complete(w) PROVE Owned'
  BY <1>5 DEF Complete, Set, Goto, Claimable
<1>6. ASSUME NEW w \in Worker, RecordResult(w) PROVE Owned'
  BY <1>6 DEF RecordResult, Goto, Claimable
<1>7. ASSUME NEW w \in Worker,
             Count(w) \/ RollRequest(w) \/ RollPlan(w) \/ ResumeWorkflow(w) \/ ResumeFails(w)
      PROVE Owned'
  BY <1>7 DEF Count, RollRequest, RollPlan, ResumeWorkflow, ResumeFails, Goto, Rest
<1>8. ASSUME NEW p \in Process, ReadPlan(p) \/ SaveRequest(p) \/ SavePlan(p) \/ Crash(p)
      PROVE Owned'
  BY <1>8 DEF ReadPlan, SaveRequest, SavePlan, Crash, Goto, Rest
<1>9. ASSUME NEW p \in Process, NEW i \in Item, UpsertTask(p, i) PROVE Owned'
  BY <1>9 DEF UpsertTask, Missing, Set, Claimable
<1>10. ASSUME NEW i \in Item, BecomeDue(i) PROVE Owned'
  BY <1>10 DEF BecomeDue
<1>11. CASE UNCHANGED vars
  BY <1>11 DEF vars
<1> QED
  BY <1>1, <1>2, <1>3, <1>4, <1>5, <1>6, <1>7, <1>8, <1>9, <1>10, <1>11
     DEF Next, WorkerStep, Materialize

\* Whatever workers overlap and wherever they crash, no operation is carried out
\* twice, and no task is COMPLETED without it.
THEOREM OperationsOnce == Spec => []PerformedOnce
<1>1. TypeOK /\ Owned => PerformedOnce
  BY BoundAssumption DEF TypeOK, Owned, StatusAgrees, PerformedOnce
<1> QED
  BY <1>1, TypeCorrect, OwnedInit, OwnedStep, PTL DEF Spec

\* A task is given up after exactly its first attempt and all its retries.
THEOREM RetriesAreBounded == Spec => []GivenUpAfterRetries
<1>1. TypeOK /\ Owned => GivenUpAfterRetries
  BY BoundAssumption DEF TypeOK, Owned, StatusAgrees, GivenUpAfterRetries
<1> QED
  BY <1>1, TypeCorrect, OwnedInit, OwnedStep, PTL DEF Spec

-----------------------------------------------------------------------------
(* Prerequisites first                                                      *)

\* A task has its prerequisites' rows beside it, and whoever is past the test
\* found them COMPLETED, which they stay.
Ordered ==
  /\ \A i \in Item : task[i] # "ABSENT" => \A d \in DependsOn[i] : task[d] # "ABSENT"
  /\ \A w \in Process : pc[w] \in {"claim", "execute"} =>
       \A d \in DependsOn[cur[w]] : task[d] = "COMPLETED"
  /\ \A i \in Item : attempts[i] > 0 => \A d \in DependsOn[i] : task[d] = "COMPLETED"

LEMMA OrderedInit == Init => Ordered
BY DEF Init, Ordered

LEMMA OrderedStep ==
  ASSUME InOrder
  PROVE  TypeOK /\ Owned /\ Ordered /\ [Next]_vars => Ordered'
<1> SUFFICES ASSUME TypeOK, Owned, Ordered, [Next]_vars PROVE Ordered'
  OBVIOUS
<1>a. \A i \in Item : DependsOn[i] \subseteq Item
  BY ItemAssumption
<1>b. \A w \in Process : pc[w] \in Held => task[cur[w]] = "RUNNING"
  BY DEF Owned, OwnedBy
<1> USE <1>a, <1>b DEF TypeOK, Ordered, Held, tasks, request, locals, history, Process
<1>1. ASSUME NEW w \in Worker, NEW i \in Item, Examine(w, i) PROVE Ordered'
  <2>1. \A d \in DependsOn[i] : Blockers(i) = {} => task[d] = "COMPLETED"
    BY <1>1 DEF Examine, Blockers
  <2> QED
    BY <1>1, <2>1 DEF Examine, Set, Goto
<1>2. ASSUME NEW w \in Worker, Claim(w) PROVE Ordered'
  BY <1>2 DEF Claim, CanClaim, Claimable, Set, Goto, Rest
<1>3. ASSUME NEW w \in Worker, Execute(w) PROVE Ordered'
  BY <1>3 DEF Execute, Goto
<1>4. ASSUME NEW w \in Worker, ScheduleRetry(w) PROVE Ordered'
  BY <1>4 DEF ScheduleRetry, Set, Goto, Rest
<1>5. ASSUME NEW w \in Worker, Complete(w) PROVE Ordered'
  BY <1>5 DEF Complete, Set, Goto
<1>6. ASSUME NEW w \in Worker,
             \/ RecordResult(w) \/ Count(w) \/ RollRequest(w) \/ RollPlan(w)
             \/ ResumeWorkflow(w) \/ ResumeFails(w)
      PROVE Ordered'
  BY <1>6 DEF RecordResult, Count, RollRequest, RollPlan, ResumeWorkflow, ResumeFails,
              Goto, Rest
<1>7. ASSUME NEW p \in Process, ReadPlan(p) \/ SaveRequest(p) \/ SavePlan(p) \/ Crash(p)
      PROVE Ordered'
  BY <1>7 DEF ReadPlan, SaveRequest, SavePlan, Crash, Goto, Rest
<1>8. ASSUME NEW p \in Process, NEW i \in Item, UpsertTask(p, i) PROVE Ordered'
  <2>1. \A d \in DependsOn[i] : task[d] # "ABSENT"
    <3> SUFFICES ASSUME NEW d \in DependsOn[i], task[d] = "ABSENT" PROVE FALSE
      OBVIOUS
    <3>1. d \in Missing
      BY DEF Missing
    <3>2. Sequence[i] <= Sequence[d]
      BY <1>8, <3>1 DEF UpsertTask
    <3>3. Sequence[d] < Sequence[i] /\ Sequence[d] \in Nat /\ Sequence[i] \in Nat
      BY ItemAssumption
    <3> QED
      BY <3>2, <3>3
  <2> QED
    BY <1>8, <2>1 DEF UpsertTask, Missing, Set
<1>9. ASSUME NEW i \in Item, BecomeDue(i) PROVE Ordered'
  BY <1>9 DEF BecomeDue
<1>10. CASE UNCHANGED vars
  BY <1>10 DEF vars
<1> QED
  BY <1>1, <1>2, <1>3, <1>4, <1>5, <1>6, <1>7, <1>8, <1>9, <1>10
     DEF Next, WorkerStep, Materialize

\* When the rows of a plan appear in its order, no operation is attempted before
\* those it depends on have been carried out.
THEOREM PrerequisitesFirst ==
  ASSUME InOrder
  PROVE  Spec => []DependenciesFirst
<1>1. TypeOK /\ Owned /\ Ordered => DependenciesFirst
  BY ItemAssumption DEF TypeOK, Owned, StatusAgrees, Ordered, DependenciesFirst
<1> QED
  BY <1>1, TypeCorrect, OwnedInit, OwnedStep, OrderedInit, OrderedStep, PTL DEF Spec

-----------------------------------------------------------------------------
(* Tasks implement the ledger of operations                                 *)

\* The ledger's variables, as the refinement mapping computes them.
LedgerState == [i \in Item |-> OperationState(i)]
Required    == [i \in Item |-> IF InOrder THEN DependsOn[i] ELSE {}]

Invariant == TypeOK /\ Owned /\ (InOrder => Ordered)

LEMMA InvariantInit == Init => Invariant
BY TypeInit, OwnedInit, OrderedInit DEF Invariant

LEMMA InvariantStep == Invariant /\ [Next]_vars => Invariant'
BY TypeStep, OwnedStep, OrderedStep DEF Invariant

LEMMA SettledStates ==
  ASSUME NEW i \in Item
  PROVE  /\ task[i] = "ABSENT" => OperationState(i) = "unknown"
         /\ task[i] \in Claimable => OperationState(i) = "asked"
         /\ task[i] = "COMPLETED" => OperationState(i) = "done"
         /\ task[i] = "FAILED" => OperationState(i) = "givenUp"
BY DEF OperationState, Claimable

LEMMA SettledStatesNext ==
  ASSUME NEW i \in Item
  PROVE  /\ task'[i] = "ABSENT" => OperationState(i)' = "unknown"
         /\ task'[i] \in Claimable => OperationState(i)' = "asked"
         /\ task'[i] = "COMPLETED" => OperationState(i)' = "done"
         /\ task'[i] = "FAILED" => OperationState(i)' = "givenUp"
BY DEF OperationState, Claimable

\* A task in its worker's hands shows how far the worker is.
LEMMA HeldStates ==
  ASSUME TypeOK, Owned, NEW w \in Worker
  PROVE  /\ pc[w] = "execute" => OperationState(cur[w]) = "started"
         /\ pc[w] = "retry" => OperationState(cur[w]) = "refused"
         /\ pc[w] = "complete" => OperationState(cur[w]) = "carriedOut"
<1>1. w \in Process /\ cur[w] \in Item
  BY DEF TypeOK, Process
<1>2. pc[w] \in Held => OwnedBy(w, cur[w])
  BY <1>1 DEF Owned
<1>3. retry[cur[w]] \in Nat
  BY <1>1 DEF TypeOK
<1> QED
  BY <1>2, <1>3 DEF OwnedBy, Held, OperationState

\* Changing the row of one operation changes its state in the ledger only.
LEMMA OneOperation ==
  ASSUME NEW i \in Item, NEW x,
         OperationState(i)' = x,
         \A j \in Item \ {i} :
           /\ task'[j] = task[j] /\ performed'[j] = performed[j]
           /\ attempts'[j] = attempts[j] /\ retry'[j] = retry[j]
  PROVE  LedgerState' = [LedgerState EXCEPT ![i] = x]
<1>1. \A j \in Item \ {i} : OperationState(j)' = OperationState(j)
  BY DEF OperationState
<1> QED
  BY <1>1 DEF LedgerState

LEMMA Stutters ==
  UNCHANGED <<task, performed, attempts, retry>> => UNCHANGED <<LedgerState, attempts>>
BY DEF LedgerState, OperationState

\* The steps of the ledger, in the terms of the mapping.
LEMMA LedgerSteps ==
  ASSUME NEW i \in Item
  PROVE  /\ Ledger!Ask(i) <=>
              /\ LedgerState[i] = "unknown"
              /\ LedgerState' = [LedgerState EXCEPT ![i] = "asked"]
              /\ UNCHANGED attempts
         /\ Ledger!Start(i) <=>
              /\ \A r \in Required[i] : LedgerState[r] = "done"
              /\ LedgerState[i] = "asked"
              /\ LedgerState' = [LedgerState EXCEPT ![i] = "started"]
              /\ UNCHANGED attempts
         /\ Ledger!Call(i) <=>
              /\ \E answer \in {"carriedOut", "refused"} :
                   /\ LedgerState[i] = "started"
                   /\ LedgerState' = [LedgerState EXCEPT ![i] = answer]
              /\ attempts' = [attempts EXCEPT ![i] = @ + 1]
         /\ Ledger!Close(i) <=>
              /\ LedgerState[i] = "carriedOut"
              /\ LedgerState' = [LedgerState EXCEPT ![i] = "done"]
              /\ UNCHANGED attempts
         /\ Ledger!AskAgain(i) <=>
              /\ attempts[i] <= MaxRetries
              /\ LedgerState[i] = "refused"
              /\ LedgerState' = [LedgerState EXCEPT ![i] = "asked"]
              /\ UNCHANGED attempts
         /\ Ledger!GiveUp(i) <=>
              /\ attempts[i] = MaxRetries + 1
              /\ LedgerState[i] = "refused"
              /\ LedgerState' = [LedgerState EXCEPT ![i] = "givenUp"]
              /\ UNCHANGED attempts
BY DEF Ledger!Ask, Ledger!Start, Ledger!Call, Ledger!Close, Ledger!AskAgain,
       Ledger!GiveUp, Ledger!Becomes, LedgerState, Required

\* One worker's step from claim to close is a step of the ledger.
LEMMA ClaimStarts ==
  ASSUME Invariant, NEW w \in Worker, Claim(w)
  PROVE  Ledger!Next \/ UNCHANGED <<LedgerState, attempts>>
<1>0. PICK i : i = cur[w]
  OBVIOUS
<1>1. w \in Process /\ i \in Item /\ task \in [Item -> Statuses]
  BY <1>0 DEF Invariant, TypeOK, Process
<1>2. CASE ~CanClaim(i)
  BY <1>0, <1>2, Stutters DEF Claim, tasks, history
<1>3. CASE CanClaim(i)
  <2>1. LedgerState[i] = "asked"
    BY <1>0, <1>1, <1>3, SettledStates DEF CanClaim, LedgerState
  <2>2. task' = [task EXCEPT ![i] = "RUNNING"] /\ UNCHANGED <<retry, attempts, performed>>
    BY <1>0, <1>3 DEF Claim, Set, history
  <2>3. performed[i] = 0 /\ attempts[i] = retry[i] /\ retry[i] \in Nat
    BY <1>0, <1>1, <1>3 DEF Invariant, Owned, StatusAgrees, CanClaim, TypeOK
  <2>4. OperationState(i)' = "started"
    BY <1>1, <2>2, <2>3 DEF OperationState
  <2>5. LedgerState' = [LedgerState EXCEPT ![i] = "started"]
    BY <1>1, <2>2, <2>4, OneOperation
  <2>6. ASSUME NEW r \in Required[i] PROVE LedgerState[r] = "done"
    <3>1. InOrder /\ r \in DependsOn[i] /\ r \in Item
      BY <1>1, <2>6, ItemAssumption DEF Required
    <3>2. task[r] = "COMPLETED"
      BY <1>0, <1>1, <3>1 DEF Invariant, Ordered, Claim
    <3> QED
      BY <1>0, <3>1, <3>2, SettledStates DEF LedgerState
  <2> QED
    BY <1>1, <2>1, <2>2, <2>5, <2>6, LedgerSteps DEF Ledger!Next
<1> QED
  BY <1>2, <1>3

LEMMA ExecuteCalls ==
  ASSUME Invariant, NEW w \in Worker, Execute(w)
  PROVE  Ledger!Next
<1>0. PICK i : i = cur[w]
  OBVIOUS
<1>1. /\ w \in Process /\ i \in Item /\ pc[w] = "execute"
      /\ attempts \in [Item -> Nat] /\ performed \in [Item -> Nat] /\ retry \in [Item -> Nat]
  BY <1>0 DEF Invariant, TypeOK, Process, Execute
<1>2. task[i] = "RUNNING" /\ performed[i] = 0 /\ attempts[i] = retry[i]
  BY <1>0, <1>1 DEF Invariant, Owned, OwnedBy, Held
<1>3. LedgerState[i] = "started"
  BY <1>0, <1>1, HeldStates DEF Invariant, LedgerState
<1>4. UNCHANGED <<task, retry>> /\ attempts' = [attempts EXCEPT ![i] = @ + 1]
  BY <1>0 DEF Execute, tasks
<1>5. CASE performed' = [performed EXCEPT ![i] = @ + 1]
  <2>1. OperationState(i)' = "carriedOut"
    BY <1>1, <1>2, <1>4, <1>5 DEF OperationState
  <2>2. LedgerState' = [LedgerState EXCEPT ![i] = "carriedOut"]
    BY <1>1, <1>4, <1>5, <2>1, OneOperation
  <2> QED
    BY <1>1, <1>3, <1>4, <2>2, LedgerSteps DEF Ledger!Next
<1>6. CASE UNCHANGED performed
  <2>1. OperationState(i)' = "refused"
    BY <1>1, <1>2, <1>4, <1>6 DEF OperationState
  <2>2. LedgerState' = [LedgerState EXCEPT ![i] = "refused"]
    BY <1>1, <1>4, <1>6, <2>1, OneOperation
  <2> QED
    BY <1>1, <1>3, <1>4, <2>2, LedgerSteps DEF Ledger!Next
<1> QED
  BY <1>0, <1>5, <1>6 DEF Execute

LEMMA RetryAnswers ==
  ASSUME Invariant, NEW w \in Worker, ScheduleRetry(w)
  PROVE  Ledger!Next
<1>0. PICK i : i = cur[w]
  OBVIOUS
<1>1. /\ w \in Process /\ i \in Item /\ pc[w] = "retry"
      /\ task \in [Item -> Statuses] /\ attempts \in [Item -> Nat] /\ retry \in [Item -> Nat]
  BY <1>0 DEF Invariant, TypeOK, Process, ScheduleRetry
<1>2. attempts[i] = retry[i] + 1 /\ retry[i] <= MaxRetries
  BY <1>0, <1>1 DEF Invariant, Owned, OwnedBy, Held
<1>3. LedgerState[i] = "refused"
  BY <1>0, <1>1, HeldStates DEF Invariant, LedgerState
<1>4. UNCHANGED <<attempts, performed>> /\ retry' = [retry EXCEPT ![i] = retry[i] + 1]
  BY <1>0 DEF ScheduleRetry, history
<1>5. CASE retry[i] + 1 > MaxRetries
  <2>1. task' = [task EXCEPT ![i] = "FAILED"]
    BY <1>0, <1>5 DEF ScheduleRetry, GivenUp, Set
  <2>2. OperationState(i)' = "givenUp"
    BY <1>1, <2>1, SettledStatesNext
  <2>3. LedgerState' = [LedgerState EXCEPT ![i] = "givenUp"]
    BY <1>1, <1>4, <2>1, <2>2, OneOperation
  <2>4. attempts[i] = MaxRetries + 1
    BY <1>1, <1>2, <1>5, BoundAssumption
  <2> QED
    BY <1>1, <1>3, <1>4, <2>3, <2>4, LedgerSteps DEF Ledger!Next
<1>6. CASE ~(retry[i] + 1 > MaxRetries)
  <2>1. task' = [task EXCEPT ![i] = "RETRYING"]
    BY <1>0, <1>6 DEF ScheduleRetry, GivenUp, Set
  <2>2. OperationState(i)' = "asked"
    BY <1>1, <2>1, SettledStatesNext DEF Claimable
  <2>3. LedgerState' = [LedgerState EXCEPT ![i] = "asked"]
    BY <1>1, <1>4, <2>1, <2>2, OneOperation
  <2>4. attempts[i] <= MaxRetries
    BY <1>1, <1>2, <1>6, BoundAssumption
  <2> QED
    BY <1>1, <1>3, <1>4, <2>3, <2>4, LedgerSteps DEF Ledger!Next
<1> QED
  BY <1>5, <1>6

LEMMA CompleteCloses ==
  ASSUME Invariant, NEW w \in Worker, Complete(w)
  PROVE  Ledger!Next
<1>0. PICK i : i = cur[w]
  OBVIOUS
<1>1. w \in Process /\ i \in Item /\ pc[w] = "complete" /\ task \in [Item -> Statuses]
  BY <1>0 DEF Invariant, TypeOK, Process, Complete
<1>2. task[i] = "RUNNING"
  BY <1>0, <1>1 DEF Invariant, Owned, OwnedBy, Held
<1>3. LedgerState[i] = "carriedOut"
  BY <1>0, <1>1, HeldStates DEF Invariant, LedgerState
<1>4. task' = [task EXCEPT ![i] = "COMPLETED"] /\ UNCHANGED <<retry, attempts, performed>>
  BY <1>0, <1>2 DEF Complete, Set, history
<1>5. OperationState(i)' = "done"
  BY <1>1, <1>4, SettledStatesNext
<1>6. LedgerState' = [LedgerState EXCEPT ![i] = "done"]
  BY <1>1, <1>4, <1>5, OneOperation
<1> QED
  BY <1>1, <1>3, <1>4, <1>6, LedgerSteps DEF Ledger!Next

\* A row that materialization creates is an operation that is asked for.
LEMMA UpsertAsks ==
  ASSUME Invariant, NEW p \in Process, NEW i \in Item, UpsertTask(p, i)
  PROVE  Ledger!Next
<1>1. task \in [Item -> Statuses] /\ task[i] = "ABSENT"
  BY DEF Invariant, TypeOK, UpsertTask, Missing
<1>2. LedgerState[i] = "unknown"
  BY <1>1, SettledStates DEF LedgerState
<1>3. task' = [task EXCEPT ![i] = "PENDING"] /\ UNCHANGED <<retry, attempts, performed>>
  BY DEF UpsertTask, Set, history
<1>4. OperationState(i)' = "asked"
  BY <1>1, <1>3, SettledStatesNext DEF Claimable
<1>5. LedgerState' = [LedgerState EXCEPT ![i] = "asked"]
  BY <1>1, <1>3, <1>4, OneOperation
<1> QED
  BY <1>2, <1>3, <1>5, LedgerSteps DEF Ledger!Next

\* A look at a task whose result says success finds it COMPLETED already.
LEMMA ExamineStutters ==
  ASSUME Invariant, NEW w \in Worker, NEW i \in Item, Examine(w, i)
  PROVE  UNCHANGED <<LedgerState, attempts>>
<1>1. task \in [Item -> Statuses] /\ (succeeded[i] => task[i] = "COMPLETED")
  BY DEF Invariant, TypeOK, Owned, StatusAgrees
<1>2. task' = task
  BY <1>1 DEF Examine, Set
<1> QED
  BY <1>2, Stutters DEF Examine, history

\* For any plan, workers, retry limit and faults, tasks implement the ledger of
\* operations; the order of prerequisites is part of it if the bulk write makes
\* the rows in plan order.
THEOREM TasksImplementLedger == Spec => ImplementsOperations
<1>1. Init => Ledger!Init
  BY SettledStates DEF Init, Ledger!Init
<1>2. Invariant /\ [Next]_vars => [Ledger!Next]_(Ledger!ledger)
  <2> SUFFICES ASSUME Invariant, [Next]_vars
               PROVE  Ledger!Next \/ UNCHANGED <<LedgerState, attempts>>
    BY DEF Ledger!ledger, LedgerState
  <2>1. ASSUME NEW w \in Worker, NEW i \in Item, Examine(w, i)
        PROVE  UNCHANGED <<LedgerState, attempts>>
    BY <2>1, ExamineStutters
  <2>2. ASSUME NEW w \in Worker, Claim(w)
        PROVE  Ledger!Next \/ UNCHANGED <<LedgerState, attempts>>
    BY <2>2, ClaimStarts
  <2>3. ASSUME NEW w \in Worker, Execute(w) \/ ScheduleRetry(w) \/ Complete(w)
        PROVE  Ledger!Next
    BY <2>3, ExecuteCalls, RetryAnswers, CompleteCloses
  <2>4. ASSUME NEW w \in Worker,
               \/ RecordResult(w) \/ Count(w) \/ RollRequest(w) \/ RollPlan(w)
               \/ ResumeWorkflow(w) \/ ResumeFails(w)
        PROVE  UNCHANGED <<LedgerState, attempts>>
    BY <2>4, Stutters DEF RecordResult, Count, RollRequest, RollPlan, ResumeWorkflow,
                          ResumeFails, tasks, history
  <2>5. ASSUME NEW p \in Process, ReadPlan(p) \/ SaveRequest(p) \/ SavePlan(p) \/ Crash(p)
        PROVE  UNCHANGED <<LedgerState, attempts>>
    BY <2>5, Stutters DEF ReadPlan, SaveRequest, SavePlan, Crash, tasks, history
  <2>6. ASSUME NEW p \in Process, NEW i \in Item, UpsertTask(p, i) PROVE Ledger!Next
    BY <2>6, UpsertAsks
  <2>7. ASSUME NEW i \in Item, BecomeDue(i) PROVE UNCHANGED <<LedgerState, attempts>>
    BY <2>7, Stutters DEF BecomeDue, history
  <2>8. CASE UNCHANGED vars
    BY <2>8, Stutters DEF vars, tasks, history
  <2> QED
    BY <2>1, <2>2, <2>3, <2>4, <2>5, <2>6, <2>7, <2>8 DEF Next, WorkerStep, Materialize
<1> QED
  BY InvariantInit, InvariantStep, <1>1, <1>2, PTL
     DEF Spec, ImplementsOperations, Ledger!Spec
=============================================================================
