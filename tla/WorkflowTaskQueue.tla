--------------------------- MODULE WorkflowTaskQueue ---------------------------
(***************************************************************************)
(* The queue of revocation tasks of one tenant.  A reviewer's revocation   *)
(* creates a task; the scheduler, whose runs exclude each other by a lock  *)
(* document with a time to live, picks NEW tasks up and runs their         *)
(* workflows; operators launch, retry, complete and cancel tasks beside it *)
(* (workflowTaskQueueService, scheduler.service, scheduler.job).           *)
(*                                                                         *)
(* Every database write is a step, and so is every read that a later write *)
(* relies on.  Not modelled: tasks that review orphan accounts, what a     *)
(* workflow does, and the execution log.                                   *)
(***************************************************************************)
EXTENDS Naturals, FiniteSets

CONSTANTS
  Task,          \* the tasks that may be created
  ReviewItem,    \* what reviewers revoke: an item, or one of its entitlements
  ItemOf,        \* the review item each task is for
  Run, NoRun,    \* runs of the scheduler, of any server; the free lock
  Operator,      \* requests of reviewers and operators
  BatchSize,     \* the limit of processInProgressTasks' find (50 in the code)
  MaxRequests,   \* bound on requests and on changes of the configuration
  MaxFaults,     \* bound on crashes and failed calls
  MaxOverruns    \* bound on runs that outlive the lock's ten minutes

ASSUME SetAssumption ==
  /\ Task # {} /\ ItemOf \in [Task -> ReviewItem]
  /\ NoRun \notin Run /\ Run \cap Operator = {}
ASSUME BoundAssumption ==
  /\ BatchSize \in Nat \ {0}
  /\ MaxRequests \in Nat /\ MaxFaults \in Nat /\ MaxOverruns \in Nat

Actor == Run \union Operator

VARIABLES
  status,      \* status of each task; "ABSENT" before it is created
  started,     \* executionStartedAt and executionId are set
  revoked,     \* the review item is REVOKED and not REVOKE_IN_PROGRESS
  lock,        \* the run that created the lock document, if it exists
  enabled,     \* the tenant's SchedulerConfig is enabled
  due,         \* its nextRunAt has passed
  pc, cur,     \* where an actor is, and the task it works on
  scheduled,   \* the run was triggered by a poll
  todo,        \* what a run found and has not executed yet
  schedStarts, \* history: workflows the scheduler started for a task
  closed,      \* history: tasks that have been COMPLETED
  requests, faults, overruns

tasks   == <<status, started, revoked>>
config  == <<enabled, due>>
locals  == <<pc, cur, scheduled, todo>>
history == <<schedStarts, closed>>
bounds  == <<requests, faults, overruns>>
vars    == <<tasks, lock, config, locals, history, bounds>>

OpenStatuses == {"NEW", "IN_PROGRESS", "WAITING"}
Statuses     == OpenStatuses \union {"ABSENT", "COMPLETED", "FAILED", "CANCELLED"}
InsideLock   == {"pickup", "find", "next", "running", "certify", "release"}
Points       == InsideLock \union
  {"idle", "lock", "create", "launch", "reread", "start", "redeliver", "mark", "cancel"}
Nothing      == CHOOSE t \in Task : TRUE

Init ==
  /\ status = [t \in Task |-> "ABSENT"]
  /\ started = [t \in Task |-> FALSE]
  /\ revoked = [i \in ReviewItem |-> FALSE]
  /\ lock = NoRun
  /\ enabled \in BOOLEAN /\ due = TRUE
  /\ pc = [a \in Actor |-> "idle"]
  /\ cur = [a \in Actor |-> Nothing]
  /\ scheduled = [r \in Run |-> FALSE]
  /\ todo = [r \in Run |-> {}]
  /\ schedStarts = [t \in Task |-> 0] /\ closed = {}
  /\ requests = 0 /\ faults = 0 /\ overruns = 0

Set(t, s)  == status' = [status EXCEPT ![t] = s]
Goto(a, l) == pc' = [pc EXCEPT ![a] = l]

\* An operator's request ends; a run goes on with its next task.
DoneWithTask(a) ==
  /\ Goto(a, IF a \in Run THEN "next" ELSE "idle")
  /\ cur' = [cur EXCEPT ![a] = Nothing]

\* A run ends, and forgets what it found.
RunEnds(r) ==
  /\ Goto(r, "idle")
  /\ cur' = [cur EXCEPT ![r] = Nothing]
  /\ todo' = [todo EXCEPT ![r] = {}]
  /\ scheduled' = [scheduled EXCEPT ![r] = FALSE]

Fault == faults < MaxFaults /\ faults' = faults + 1

-----------------------------------------------------------------------------
(* executeWorkflowTask, by a run of the scheduler or a manual launch         *)

\* executeWorkflowTask up to the call of the workflow: without the workflow's
\* definition the task has failed, otherwise its start is recorded.
StartWorkflow(a, t) ==
  \/ /\ Set(t, "FAILED")
     /\ DoneWithTask(a)
     /\ UNCHANGED <<started, schedStarts>>
  \/ /\ started' = [started EXCEPT ![t] = TRUE]
     /\ schedStarts' = IF a \in Run THEN [schedStarts EXCEPT ![t] = @ + 1] ELSE schedStarts
     /\ Goto(a, "running")
     /\ cur' = [cur EXCEPT ![a] = t]
     /\ UNCHANGED status

\* completeTaskAndUpdateCertification's first write closes the task.
Close(t) == Set(t, "COMPLETED") /\ closed' = closed \union {t}

\* The workflow ends; what it ended with is written over whatever the task is.
WorkflowEndsMarking(a) ==  \* bug: the review item is marked first, the task closed after
  /\ pc[a] = "running"
  /\ \/ /\ revoked' = [revoked EXCEPT ![ItemOf[cur[a]]] = TRUE]
        /\ Goto(a, "certify") /\ UNCHANGED <<status, cur>>
     \/ \E s \in {"WAITING", "FAILED"} : Set(cur[a], s) /\ DoneWithTask(a) /\ UNCHANGED revoked
  /\ UNCHANGED <<started, lock, config, scheduled, todo, history, bounds>>

WorkflowEnds(a) ==
  /\ pc[a] = "running"
  /\ \/ Close(cur[a]) /\ Goto(a, "certify") /\ UNCHANGED cur
     \/ \E s \in {"WAITING", "FAILED"} : Set(cur[a], s) /\ DoneWithTask(a) /\ UNCHANGED closed
  /\ UNCHANGED <<started, revoked, lock, config, scheduled, todo, schedStarts, bounds>>

\* An execution throws: a run records the task as FAILED, whatever it was, and goes
\* on; a request just ends.
Thrown(a) == IF a \in Run THEN Set(cur[a], "FAILED") ELSE UNCHANGED status

\* completeTaskAndUpdateCertification's second write: the review item is marked; or
\* it is gone, has no such entitlement or another decision by now, and nothing is
\* marked; or its save is refused for the version that was loaded, and throws.
Certify(a) ==
  /\ pc[a] = "certify"
  /\ \/ revoked' = [revoked EXCEPT ![ItemOf[cur[a]]] = TRUE] /\ UNCHANGED status
     \/ UNCHANGED <<revoked, status>>
     \/ Thrown(a) /\ UNCHANGED revoked
  /\ DoneWithTask(a)
  /\ UNCHANGED <<started, lock, config, scheduled, todo, history, bounds>>

\* A call of the execution fails.
ExecutionThrows(a) ==
  /\ pc[a] \in {"running", "certify"}
  /\ Fault
  /\ Thrown(a)
  /\ DoneWithTask(a)
  /\ UNCHANGED <<started, revoked, lock, config, scheduled, todo, history, requests, overruns>>

-----------------------------------------------------------------------------
(* The scheduler                                                             *)

\* A poll finds the configuration enabled and due.
Poll(r) ==
  /\ pc[r] = "idle"
  /\ enabled /\ due
  /\ Goto(r, "lock")
  /\ scheduled' = [scheduled EXCEPT ![r] = TRUE]
  /\ UNCHANGED <<tasks, lock, config, cur, todo, history, bounds>>

\* An administrator starts a run.
RunNow(r) ==
  /\ pc[r] = "idle"
  /\ requests < MaxRequests /\ requests' = requests + 1
  /\ Goto(r, "lock")
  /\ UNCHANGED <<tasks, lock, config, cur, scheduled, todo, history, faults, overruns>>

\* Creating the lock document fails when there is one: the run is skipped, and a
\* scheduled one moves nextRunAt on.
AcquireLockUpsert(r) ==  \* bug: the lock document is upserted
  /\ pc[r] = "lock"
  /\ lock' = r /\ Goto(r, "pickup")
  /\ UNCHANGED <<tasks, config, cur, scheduled, todo, history, bounds>>

AcquireLock(r) ==
  /\ pc[r] = "lock"
  /\ IF lock = NoRun
     THEN lock' = r /\ Goto(r, "pickup") /\ UNCHANGED <<due, cur, scheduled, todo>>
     ELSE /\ due' = IF scheduled[r] THEN FALSE ELSE due
          /\ RunEnds(r) /\ UNCHANGED lock
  /\ UNCHANGED <<tasks, enabled, history, bounds>>

\* pickUpNewTasks: one updateMany.
PickUpNewTasks(r) ==
  /\ pc[r] = "pickup"
  /\ status' = [t \in Task |-> IF status[t] = "NEW" THEN "IN_PROGRESS" ELSE status[t]]
  /\ Goto(r, "find")
  /\ UNCHANGED <<started, revoked, lock, config, cur, scheduled, todo, history, bounds>>

\* processInProgressTasks: the tasks its find may return.
Startable(t) == status[t] = "IN_PROGRESS" /\ ~started[t]
Batches(S)   == {B \in SUBSET S : Cardinality(B) <= BatchSize
                                  /\ (Cardinality(B) < BatchSize => B = S)}

ReadInProgressAll(r) ==  \* bug: executionStartedAt left out of the filter
  /\ pc[r] = "find"
  /\ \E B \in Batches({t \in Task : status[t] = "IN_PROGRESS"}) : todo' = [todo EXCEPT ![r] = B]
  /\ Goto(r, "next")
  /\ UNCHANGED <<tasks, lock, config, cur, scheduled, history, bounds>>

ReadInProgress(r) ==
  /\ pc[r] = "find"
  /\ \E B \in Batches({t \in Task : Startable(t)}) : todo' = [todo EXCEPT ![r] = B]
  /\ Goto(r, "next")
  /\ UNCHANGED <<tasks, lock, config, cur, scheduled, history, bounds>>

\* executeWorkflowTask with the task as the find returned it, not yet started.
StartNext(r) ==
  /\ pc[r] = "next"
  /\ \E t \in todo[r] :
       /\ StartWorkflow(r, t)
       /\ todo' = [todo EXCEPT ![r] = @ \ {t}]
  /\ UNCHANGED <<revoked, lock, config, scheduled, closed, bounds>>

\* lastRunAt and nextRunAt are written when all tasks are through.
RunFinishes(r) ==
  /\ pc[r] = "next" /\ todo[r] = {}
  /\ due' = FALSE
  /\ Goto(r, "release")
  /\ UNCHANGED <<tasks, lock, enabled, cur, scheduled, todo, history, bounds>>

\* A call of the run itself throws: it ends without moving nextRunAt.
RunThrows(r) ==
  /\ pc[r] \in {"pickup", "find", "next", "running"}
  /\ Fault
  /\ Goto(r, "release")
  /\ UNCHANGED <<tasks, lock, config, cur, scheduled, todo, history, requests, overruns>>

\* The lock document is deleted, whoever created it; if that fails it is left
\* to expire.
ReleaseLock(r) ==
  /\ pc[r] = "release"
  /\ \/ lock' = NoRun /\ UNCHANGED faults
     \/ Fault /\ UNCHANGED lock
  /\ RunEnds(r)
  /\ UNCHANGED <<tasks, config, history, requests, overruns>>

\* The lock's time to live ends.
LockExpiresNever ==  \* bug: the index on expiresAt is missing
  /\ lock # NoRun /\ overruns > MaxOverruns
  /\ UNCHANGED vars

LockExpires ==
  /\ lock # NoRun
  /\ IF pc[lock] \in InsideLock
     THEN overruns < MaxOverruns /\ overruns' = overruns + 1
     ELSE UNCHANGED overruns
  /\ lock' = NoRun
  /\ UNCHANGED <<tasks, config, locals, history, requests, faults>>

\* Time passes nextRunAt.
BecomeDue ==
  /\ ~due /\ due' = TRUE
  /\ UNCHANGED <<tasks, lock, enabled, locals, history, bounds>>

\* saveConfig: a due configuration that is enabled stays due; otherwise nextRunAt
\* is computed from lastRunAt and may lie before or after now.
SaveConfig ==
  /\ requests < MaxRequests /\ requests' = requests + 1
  /\ enabled' \in BOOLEAN
  /\ due' \in IF enabled' /\ due THEN {TRUE} ELSE BOOLEAN
  /\ UNCHANGED <<tasks, lock, locals, history, faults, overruns>>

-----------------------------------------------------------------------------
(* Requests: each reads the task, and writes on what it read                 *)

Request(o, t, l) ==
  /\ pc[o] = "idle"
  /\ requests < MaxRequests /\ requests' = requests + 1
  /\ Goto(o, l)
  /\ cur' = [cur EXCEPT ![o] = t]
  /\ UNCHANGED <<tasks, lock, config, scheduled, todo, history, faults, overruns>>

\* createRevokeAccessTask: no open task for the item is found, and one is created
\* (under an id of its own).
FindOpenTask(o, t) ==
  /\ status[t] = "ABSENT"
  /\ \A p \in Operator : ~(pc[p] = "create" /\ cur[p] = t)
  /\ \A u \in Task : ItemOf[u] = ItemOf[t] => status[u] \notin OpenStatuses
  /\ Request(o, t, "create")

CreateTaskAsItem(o) ==  \* bug: the item's status for the task's
  /\ pc[o] = "create"
  /\ Set(cur[o], "REVOKE_IN_PROGRESS")
  /\ DoneWithTask(o)
  /\ UNCHANGED <<started, revoked, lock, config, scheduled, todo, history, bounds>>

CreateTask(o) ==
  /\ pc[o] = "create"
  /\ Set(cur[o], "NEW")
  /\ DoneWithTask(o)
  /\ UNCHANGED <<started, revoked, lock, config, scheduled, todo, history, bounds>>

\* immediatelyLaunchTask.
LaunchRequested(o, t) == status[t] = "NEW" /\ Request(o, t, "launch")

LaunchPicks(o) ==
  /\ pc[o] = "launch"
  /\ Set(cur[o], "IN_PROGRESS")
  /\ Goto(o, "reread")
  /\ UNCHANGED <<started, revoked, lock, config, cur, scheduled, todo, history, bounds>>

LaunchReads(o) ==
  /\ pc[o] = "reread"
  /\ IF started[cur[o]] THEN DoneWithTask(o) ELSE Goto(o, "start") /\ UNCHANGED cur
  /\ UNCHANGED <<tasks, lock, config, scheduled, todo, history, bounds>>

LaunchStarts(o) ==
  /\ pc[o] = "start"
  /\ StartWorkflow(o, cur[o])
  /\ UNCHANGED <<revoked, lock, config, scheduled, todo, closed, bounds>>

\* retryFailedNotifications: mails are delivered again, and the workflow resumed;
\* or the delivery fails and the request with it.
RetryRequested(o, t) == status[t] = "FAILED" /\ started[t] /\ Request(o, t, "redeliver")

Redeliver(o) ==
  /\ pc[o] = "redeliver"
  /\ \/ Set(cur[o], "IN_PROGRESS") /\ Goto(o, "running") /\ UNCHANGED cur
     \/ DoneWithTask(o) /\ UNCHANGED status
  /\ UNCHANGED <<started, revoked, lock, config, scheduled, todo, history, bounds>>

\* markTaskComplete.
CompleteRequested(o, t) ==
  /\ status[t] \in {"WAITING", "IN_PROGRESS", "FAILED"}
  /\ Request(o, t, "mark")

MarkComplete(o) ==
  /\ pc[o] = "mark"
  /\ Close(cur[o])
  /\ Goto(o, "certify")
  /\ UNCHANGED <<started, revoked, lock, config, cur, scheduled, todo, schedStarts, bounds>>

\* cancelWorkflowTask.
CancelRequested(o, t) ==
  /\ status[t] \in {"NEW", "WAITING", "FAILED"}
  /\ Request(o, t, "cancel")

Cancel(o) ==
  /\ pc[o] = "cancel"
  /\ Set(cur[o], "CANCELLED")
  /\ DoneWithTask(o)
  /\ UNCHANGED <<started, revoked, lock, config, scheduled, todo, history, bounds>>

\* The server of an actor dies.
Crash(a) ==
  /\ pc[a] # "idle"
  /\ Fault
  /\ Goto(a, "idle")
  /\ cur' = [cur EXCEPT ![a] = Nothing]
  /\ todo' = IF a \in Run THEN [todo EXCEPT ![a] = {}] ELSE todo
  /\ scheduled' = IF a \in Run THEN [scheduled EXCEPT ![a] = FALSE] ELSE scheduled
  /\ UNCHANGED <<tasks, lock, config, history, requests, overruns>>

-----------------------------------------------------------------------------
Execute(a) == WorkflowEnds(a) \/ Certify(a)

RunStep(r) ==
  \/ AcquireLock(r) \/ PickUpNewTasks(r) \/ ReadInProgress(r) \/ StartNext(r)
  \/ RunFinishes(r) \/ ReleaseLock(r) \/ Execute(r)

OperatorStep(o) ==
  \/ CreateTask(o) \/ LaunchPicks(o) \/ LaunchReads(o) \/ LaunchStarts(o)
  \/ Redeliver(o) \/ MarkComplete(o) \/ Cancel(o) \/ Execute(o)

Requested(o, t) ==
  \/ FindOpenTask(o, t) \/ LaunchRequested(o, t) \/ RetryRequested(o, t)
  \/ CompleteRequested(o, t) \/ CancelRequested(o, t)

Next ==
  \/ \E r \in Run : Poll(r) \/ RunNow(r) \/ RunStep(r) \/ RunThrows(r)
  \/ \E o \in Operator : OperatorStep(o) \/ \E t \in Task : Requested(o, t)
  \/ \E a \in Actor : ExecutionThrows(a) \/ Crash(a)
  \/ LockExpires \/ BecomeDue \/ SaveConfig

Spec == Init /\ [][Next]_vars

\* Polls go on, the database's monitor deletes expired locks, time passes, and
\* code that has begun runs on; nobody has to ask for anything.
Fairness ==
  /\ \A r \in Run : WF_vars(Poll(r)) /\ WF_vars(RunStep(r))
  /\ \A o \in Operator : WF_vars(OperatorStep(o))
  /\ WF_vars(LockExpires) /\ WF_vars(BecomeDue)

FairSpec == Spec /\ Fairness

-----------------------------------------------------------------------------
(* Properties                                                                *)

TypeOK ==
  /\ status \in [Task -> Statuses]
  /\ started \in [Task -> BOOLEAN]
  /\ revoked \in [ReviewItem -> BOOLEAN]
  /\ lock \in Run \union {NoRun}
  /\ enabled \in BOOLEAN /\ due \in BOOLEAN
  /\ pc \in [Actor -> Points]
  /\ cur \in [Actor -> Task]
  /\ scheduled \in [Run -> BOOLEAN]
  /\ todo \in [Run -> SUBSET Task]
  /\ schedStarts \in [Task -> Nat] /\ closed \subseteq Task
  /\ requests \in 0..MaxRequests
  /\ faults \in 0..MaxFaults
  /\ overruns \in 0..MaxOverruns

\* While no run outlives its lock, one run of the scheduler works on the tenant's
\* tasks at a time, whatever crashes and whatever is skipped (runNow's lock, its
\* time to live, and the unconditional delete at its end).
OneRunAtATime ==
  \A r \in Run : pc[r] \in InsideLock => lock = r

\* The scheduler starts the workflow of a task at most once: neither the run that
\* takes over after a crash, nor one that found the task before an operator
\* launched it, does what a run has done (the find of processInProgressTasks and
\* the late write of executionStartedAt).
StartedOnceByScheduler == \A t \in Task : schedStarts[t] <= 1

\* If the scheduler stays enabled, a task is not left waiting to be started: a run
\* picks it up, after crashes and through locks left behind, unless somebody
\* launches, completes or cancels it first.
Unstarted(t) == status[t] \in {"NEW", "IN_PROGRESS"} /\ ~started[t]
EveryTaskStarts ==
  <>[]enabled => \A t \in Task : Unstarted(t) ~> ~Unstarted(t)

\* A review item is certified as revoked only after a task for it has been closed as
\* completed, by the scheduler, a launch or an operator, whatever crashes or is
\* refused between the two writes (completeTaskAndUpdateCertification).  The
\* converse does not hold: nothing repeats the second write.
CertifiedWasClosed ==
  \A i \in ReviewItem : revoked[i] => \E t \in closed : ItemOf[t] = i
=============================================================================
