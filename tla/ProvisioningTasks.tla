--------------------------- MODULE ProvisioningTasks ---------------------------
(***************************************************************************)
(* The tasks of one approved provisioning request.  The approval           *)
(* materializes the plan's executable items into tasks, workers carry them *)
(* out through connectors with retries and in dependency order, and the    *)
(* worker that finds no task open rolls the request and the plan up and    *)
(* resumes the workflow, whose resumed run materializes the plan again     *)
(* (taskMaterializationService, provisioningWorker).                       *)
(*                                                                         *)
(* Every database write is a step.  Workers are whoever runs processTask:  *)
(* ticks, which may overlap, of any server, and the API's "run now".       *)
(***************************************************************************)
EXTENDS Naturals

CONSTANTS
  Item,        \* the executable items of the plan
  DependsOn,   \* the items each item depends on
  Sequence,    \* their order in the plan
  InOrder,     \* the server applies the unordered bulk write in plan order
  Worker,
  Approval,    \* the run that materializes the plan when it is approved
  MaxRetries,  \* maxRetries of a task (3 in the code)
  MaxFaults    \* bound on crashes and failed writes

ASSUME ItemAssumption ==
  /\ Item # {}
  /\ DependsOn \in [Item -> SUBSET Item]
  /\ Sequence \in [Item -> Nat]
  /\ \A i \in Item : \A d \in DependsOn[i] : Sequence[d] < Sequence[i]
ASSUME ProcessAssumption == Approval \notin Worker
ASSUME BoundAssumption == MaxRetries \in Nat /\ MaxFaults \in Nat /\ InOrder \in BOOLEAN

Process == Worker \union {Approval}

VARIABLES
  task,        \* status of each task; "ABSENT" before it is materialized
  retry,       \* retryCount
  due,         \* nextAttemptAt has passed
  succeeded,   \* a ProvisioningResult with isSuccess exists
  reqStatus,   \* status of the request
  resumed,     \* its metadata.provisioningWorkflowResumedAt is set
  planStatus,  \* status of the plan
  pc, cur,     \* where each process is, and the task a worker has
  seen,        \* what a worker's counts found: open tasks, failed tasks
  snap,        \* what a materialization read of request and plan
  attempts,    \* history: connector calls made for a task
  performed,   \* history: those that succeeded and were verified
  resumes,     \* history: times the workflow was resumed
  faults

tasks   == <<task, retry, due, succeeded>>
request == <<reqStatus, resumed>>
locals  == <<pc, cur, seen, snap>>
history == <<attempts, performed, resumes>>
vars    == <<tasks, request, planStatus, locals, history, faults>>

Claimable == {"PENDING", "RETRYING"}
Open      == Claimable \union {"RUNNING"}
Statuses  == Open \union {"ABSENT", "COMPLETED", "FAILED"}
Requests  == {"APPROVED", "IN_PROGRESS", "COMPLETED", "FAILED"}
Plans     == {"COMPILED", "EXECUTING", "COMPLETED", "PARTIAL"}
TerminalRequest == {"COMPLETED", "FAILED"}
TerminalPlan    == {"COMPLETED", "PARTIAL"}

Points == {"idle", "claim", "execute", "retry", "complete", "result", "count",
           "rollRequest", "rollPlan", "resume", "materialize", "upsert", "savePlan"}
Nothing == CHOOSE i \in Item : TRUE
Seen    == [open : BOOLEAN, failed : BOOLEAN]
Unseen  == [open |-> FALSE, failed |-> FALSE]
Snaps   == [request : Requests, resumed : BOOLEAN, plan : Plans]
NoSnap  == [request |-> "APPROVED", resumed |-> FALSE, plan |-> "COMPILED"]

Init ==
  /\ task = [i \in Item |-> "ABSENT"]
  /\ retry = [i \in Item |-> 0]
  /\ due = [i \in Item |-> FALSE]
  /\ succeeded = [i \in Item |-> FALSE]
  /\ reqStatus = "APPROVED" /\ resumed = FALSE
  /\ planStatus = "COMPILED"
  /\ pc = [p \in Process |-> IF p = Approval THEN "materialize" ELSE "idle"]
  /\ cur = [p \in Process |-> Nothing]
  /\ seen = [p \in Process |-> Unseen]
  /\ snap = [p \in Process |-> NoSnap]
  /\ attempts = [i \in Item |-> 0]
  /\ performed = [i \in Item |-> 0]
  /\ resumes = 0
  /\ faults = 0

Goto(p, l) == pc' = [pc EXCEPT ![p] = l]
Set(i, s)  == task' = [task EXCEPT ![i] = s]

\* The process is through with what it was doing.
Rest(p) ==
  /\ Goto(p, "idle")
  /\ cur' = [cur EXCEPT ![p] = Nothing]
  /\ seen' = [seen EXCEPT ![p] = Unseen]
  /\ snap' = [snap EXCEPT ![p] = NoSnap]

Fault == faults < MaxFaults /\ faults' = faults + 1

-----------------------------------------------------------------------------
(* processTask                                                              *)

\* The dependencies of i that hold it back: a prerequisite whose row does not
\* exist does not.
BlockersNotYetRun(i) == {d \in DependsOn[i] : task[d] \in Claimable}  \* bug: RUNNING forgotten

Blockers(i) == {d \in DependsOn[i] : task[d] \notin {"ABSENT", "COMPLETED"}}

\* A tick's find, or the API, gives w a task.  A task with a successful result is
\* closed without a call; one with blockers is put off; any other is claimed.
Examine(w, i) ==
  /\ pc[w] = "idle"
  /\ task[i] # "ABSENT"
  /\ IF succeeded[i] THEN Set(i, "COMPLETED") /\ UNCHANGED <<due, pc, cur>>
     ELSE IF Blockers(i) # {}
     THEN /\ due' = IF task[i] \in Claimable THEN [due EXCEPT ![i] = FALSE] ELSE due
          /\ UNCHANGED <<task, pc, cur>>
     ELSE /\ cur' = [cur EXCEPT ![w] = i]
          /\ Goto(w, "claim")
          /\ UNCHANGED <<task, due>>
  /\ UNCHANGED <<retry, succeeded, request, planStatus, seen, snap, history, faults>>

\* claimProvisioningTask: the filter of its atomic update.
CanClaimAnyStatus(i) == due[i]                        \* bug: status not asked
CanClaimPending(i)   == task[i] = "PENDING" /\ due[i]  \* bug: RETRYING forgotten

CanClaim(i) == task[i] \in Claimable /\ due[i]

Claim(w) ==
  /\ pc[w] = "claim"
  /\ IF CanClaim(cur[w])
     THEN /\ Set(cur[w], "RUNNING")
          /\ Goto(w, "execute")
          /\ UNCHANGED <<cur, seen, snap>>
     ELSE UNCHANGED task /\ Rest(w)
  /\ UNCHANGED <<retry, due, succeeded, request, planStatus, history, faults>>

\* The connector call and its verification: performed, or failed (whatever a call
\* that failed or was not verified has done to the target, the connector's own
\* idempotence must absorb).
Execute(w) ==
  /\ pc[w] = "execute"
  /\ attempts' = [attempts EXCEPT ![cur[w]] = @ + 1]
  /\ \/ performed' = [performed EXCEPT ![cur[w]] = @ + 1] /\ Goto(w, "complete")
     \/ UNCHANGED performed /\ Goto(w, "retry")
  /\ UNCHANGED <<tasks, request, planStatus, cur, seen, snap, resumes, faults>>

GivenUpTooSoon(n) == n >= MaxRetries  \* bug: off by one

GivenUp(n) == n > MaxRetries

\* A failed attempt ends here: nothing is rolled up.
ScheduleRetry(w) ==
  LET i == cur[w]
      next == retry[i] + 1 IN
    /\ pc[w] = "retry"
    /\ retry' = [retry EXCEPT ![i] = next]
    /\ IF GivenUp(next)
       THEN Set(i, "FAILED") /\ UNCHANGED due
       ELSE Set(i, "RETRYING") /\ due' = [due EXCEPT ![i] = FALSE]
    /\ Rest(w)
    /\ UNCHANGED <<succeeded, request, planStatus, history, faults>>

Complete(w) ==
  /\ pc[w] = "complete"
  /\ IF task[cur[w]] = "RUNNING" THEN Set(cur[w], "COMPLETED") ELSE UNCHANGED task
  /\ Goto(w, "result")
  /\ UNCHANGED <<retry, due, succeeded, request, planStatus, cur, seen, snap, history,
                 faults>>

\* The result row; a failure to write it is swallowed.
RecordResult(w) ==
  /\ pc[w] = "result"
  /\ \/ succeeded' = [succeeded EXCEPT ![cur[w]] = TRUE] /\ UNCHANGED faults
     \/ UNCHANGED succeeded /\ Fault
  /\ Goto(w, "count")
  /\ UNCHANGED <<task, retry, due, request, planStatus, cur, seen, snap, history>>

SomeOpen   == \E i \in Item : task[i] \in Open
SomeFailed == \E i \in Item : task[i] = "FAILED"

Count(w) ==
  /\ pc[w] = "count"
  /\ seen' = [seen EXCEPT ![w] = [open |-> SomeOpen, failed |-> SomeFailed]]
  /\ Goto(w, IF SomeOpen THEN "rollPlan" ELSE "rollRequest")
  /\ UNCHANGED <<tasks, request, planStatus, cur, snap, history, faults>>

RequestRollupAsPlan(failed) == IF failed THEN "PARTIAL" ELSE "COMPLETED"  \* bug: the plan's word

RequestRollup(failed) == IF failed THEN "FAILED" ELSE "COMPLETED"

RollRequest(w) ==
  /\ pc[w] = "rollRequest"
  /\ reqStatus' = RequestRollup(seen[w].failed)
  /\ Goto(w, "rollPlan")
  /\ UNCHANGED <<tasks, resumed, planStatus, cur, seen, snap, history, faults>>

RollPlan(w) ==
  /\ pc[w] = "rollPlan"
  /\ planStatus' = IF seen[w].open THEN "EXECUTING"
                   ELSE IF seen[w].failed THEN "PARTIAL" ELSE "COMPLETED"
  /\ Goto(w, "resume")
  /\ UNCHANGED <<tasks, request, cur, seen, snap, history, faults>>

\* maybeResumeLifecycleWorkflow: with no task open and none failed, whoever takes
\* the gate runs the workflow on from its decision.
ResumeWorkflow(w) ==
  /\ pc[w] = "resume"
  /\ IF SomeOpen \/ SomeFailed \/ resumed
     THEN Rest(w) /\ UNCHANGED <<resumed, resumes>>
     ELSE /\ resumed' = TRUE
          /\ resumes' = resumes + 1
          /\ Goto(w, "materialize")
          /\ UNCHANGED <<cur, seen, snap>>
  /\ UNCHANGED <<tasks, reqStatus, planStatus, attempts, performed, faults>>

\* The resumed run throws before it materializes: the gate is cleared again.
ResumeFails(w) ==
  /\ pc[w] = "materialize"
  /\ Fault
  /\ resumed' = FALSE
  /\ Rest(w)
  /\ UNCHANGED <<tasks, reqStatus, planStatus, history>>

-----------------------------------------------------------------------------
(* materializeProvisioningTasks                                             *)

ReadPlan(p) ==
  /\ pc[p] = "materialize"
  /\ snap' = [snap EXCEPT ![p] = [request |-> reqStatus, resumed |-> resumed,
                                  plan |-> planStatus]]
  /\ Goto(p, "upsert")
  /\ UNCHANGED <<tasks, request, planStatus, cur, seen, history, faults>>

MissingOrGivenUp == {i \in Item : task[i] \in {"ABSENT", "FAILED"}}  \* bug: $set, not $setOnInsert

Missing == {i \in Item : task[i] = "ABSENT"}

\* One upsert of the bulk write; the workers see it at once.
UpsertTask(p, i) ==
  /\ pc[p] = "upsert"
  /\ i \in Missing
  /\ InOrder => \A j \in Missing : Sequence[i] <= Sequence[j]
  /\ Set(i, "PENDING")
  /\ due' = [due EXCEPT ![i] = TRUE]
  /\ UNCHANGED <<retry, succeeded, request, planStatus, locals, history, faults>>

\* Saved as read, but for the status: metadata is written whole.
SaveRequest(p) ==
  /\ pc[p] = "upsert"
  /\ Missing = {}
  /\ reqStatus' = IF snap[p].request \in TerminalRequest \union {"IN_PROGRESS"}
                  THEN reqStatus ELSE "IN_PROGRESS"
  /\ resumed' = snap[p].resumed
  /\ Goto(p, "savePlan")
  /\ UNCHANGED <<tasks, planStatus, cur, seen, snap, history, faults>>

SavePlan(p) ==
  /\ pc[p] = "savePlan"
  /\ planStatus' = IF snap[p].plan \in TerminalPlan \union {"EXECUTING"}
                   THEN planStatus ELSE "EXECUTING"
  /\ Rest(p)
  /\ UNCHANGED <<tasks, request, history, faults>>

-----------------------------------------------------------------------------
BecomeDue(i) ==
  /\ task[i] \in Claimable /\ ~due[i]
  /\ due' = [due EXCEPT ![i] = TRUE]
  /\ UNCHANGED <<task, retry, succeeded, request, planStatus, locals, history, faults>>

\* A process dies, or an unguarded database call of it throws.
Crash(p) ==
  /\ pc[p] # "idle"
  /\ Fault
  /\ Rest(p)
  /\ UNCHANGED <<tasks, request, planStatus, history>>

WorkerStep(w) ==
  \/ Claim(w) \/ Execute(w) \/ ScheduleRetry(w) \/ Complete(w) \/ RecordResult(w)
  \/ Count(w) \/ RollRequest(w) \/ RollPlan(w) \/ ResumeWorkflow(w)

Materialize(p) ==
  \/ ReadPlan(p) \/ SaveRequest(p) \/ SavePlan(p)
  \/ \E i \in Item : UpsertTask(p, i)

Next ==
  \/ \E w \in Worker : WorkerStep(w) \/ ResumeFails(w) \/ \E i \in Item : Examine(w, i)
  \/ \E p \in Process : Materialize(p) \/ Crash(p)
  \/ \E i \in Item : BecomeDue(i)

Spec == Init /\ [][Next]_vars

\* What has begun goes on, time passes, and a tick visits every task it finds
\* due, so no task is passed over for ever.
Fairness ==
  /\ \A w \in Worker : WF_vars(WorkerStep(w))
  /\ \A p \in Process : WF_vars(Materialize(p))
  /\ \A i \in Item : WF_vars(BecomeDue(i))
  /\ \A w \in Worker, i \in Item :
       SF_vars(task[i] \in Claimable /\ due[i] /\ Examine(w, i))

FairSpec == Spec /\ Fairness

-----------------------------------------------------------------------------
(* Properties                                                               *)

\* Type invariant.
TypeOK ==
  /\ task \in [Item -> Statuses]
  /\ retry \in [Item -> Nat]
  /\ due \in [Item -> BOOLEAN]
  /\ succeeded \in [Item -> BOOLEAN]
  /\ reqStatus \in Requests
  /\ resumed \in BOOLEAN
  /\ planStatus \in Plans
  /\ pc \in [Process -> Points]
  /\ cur \in [Process -> Item]
  /\ seen \in [Process -> Seen]
  /\ snap \in [Process -> Snaps]
  /\ attempts \in [Item -> Nat]
  /\ performed \in [Item -> Nat]
  /\ resumes \in Nat
  /\ faults \in 0 .. MaxFaults

\* No operation is carried out successfully twice, whatever ticks, API calls,
\* retries, re-materializations and crashes overlap, and a task is COMPLETED
\* only if its operation was carried out.
PerformedOnce ==
  \A i \in Item : performed[i] <= 1 /\ (task[i] = "COMPLETED" => performed[i] = 1)

\* A task is given up exactly when it has used its first attempt and all its
\* retries; no overlap of workers costs it one or grants it one more.
GivenUpAfterRetries ==
  \A i \in Item : /\ attempts[i] <= MaxRetries + 1
                  /\ task[i] = "FAILED" => attempts[i] = MaxRetries + 1

\* An operation is attempted only when those it depends on have been performed
\* ("entitlement waits for account dependency").
DependenciesFirst ==
  \A i \in Item : attempts[i] > 0 => \A d \in DependsOn[i] : performed[d] = 1

\* An operation as the request's owner sees it: of a RUNNING task, whether the
\* call is still to come, succeeded or failed.
OperationState(i) ==
  IF task[i] = "RUNNING"
  THEN IF performed[i] > 0 THEN "carriedOut"
       ELSE IF attempts[i] > retry[i] THEN "refused" ELSE "started"
  ELSE [ABSENT |-> "unknown", PENDING |-> "asked", RETRYING |-> "asked",
        COMPLETED |-> "done", FAILED |-> "givenUp"][task[i]]

Ledger == INSTANCE OperationLedger WITH
  Operation <- Item,
  Requires <- [i \in Item |-> IF InOrder THEN DependsOn[i] ELSE {}],
  state <- [i \in Item |-> OperationState(i)],
  calls <- attempts

\* Tasks implement the ledger of operations: a connector is called only between
\* the claim that its prerequisites' completion allowed and the answer that
\* settles the task or gives it back, and nothing settled is ever opened again,
\* whatever ticks, retries, materializations and crashes overlap.
ImplementsOperations == Ledger!Spec

\* Unless somebody crashes or a write fails, every item's task is settled, or waits for a
\* prerequisite that has been given up.
EveryTaskSettles ==
  \A i \in Item : <>[](\/ task[i] \in {"COMPLETED", "FAILED"}
                       \/ \E d \in DependsOn[i] : task[d] = "FAILED"
                       \/ faults > 0)

\* The workflow is resumed once.
ResumedOnce == resumes <= 1
=============================================================================
