----------------------------- MODULE PlanApproval -----------------------------
(***************************************************************************)
(* One lifecycle provisioning request, from the lifecycle event that asks  *)
(* for it to the tasks that carry it out: orchestration calls find or      *)
(* create the request, compile the plan and start the approval workflow;   *)
(* approvers decide; workflow runs materialize the plan into tasks or      *)
(* reject the request (services/provisioning, workflows/steps).            *)
(*                                                                         *)
(* Every database write is a step of its own.  A plan is abstracted to its *)
(* compilation hash, and the tasks to the set of hashes they were made     *)
(* from; what the worker does with tasks is ProvisioningTasks.             *)
(***************************************************************************)
EXTENDS Naturals, FiniteSets

CONSTANTS
  Caller,     \* calls of startGenericPlanOrchestration for the same event
  Approver,   \* calls of decideLifecycleApproval
  First,      \* the run started, unawaited, with the workflow
  Again,      \* the run the task worker resumes when the tasks are done
  Hash,       \* the plan contents compilation may come to
  NoHash,
  MaxFaults   \* bound on crashes

ASSUME ProcessAssumption ==
  /\ First \notin Approver /\ Again \notin Approver /\ First # Again
ASSUME HashAssumption == Hash # {} /\ NoHash \notin Hash
ASSUME FaultAssumption == MaxFaults \in Nat

\* Whoever may materialize: a workflow run, or an approval that finds no workflow.
Runner == Approver \union {First, Again}

VARIABLES
  planningOnly,  \* the event is a MOVER: plan, but execute nothing
  approval,      \* approvalStatus of the request; "NONE" before it exists
  reqStatus,     \* status of the request
  meta,          \* metadata: planId, workflowStartReservedAt, workflowExecutionId,
                 \* provisioningWorkflowResumedAt are set
  planHash,      \* compilationHash of the plan, or NoHash
  planStatus,    \* status of the plan
  materialized,  \* the plan's metadata.materializedAt is set
  execStatus,    \* status of the workflow execution
  decision,      \* its triggerPayload.approvalDecision
  tasks,         \* the plan contents tasks exist for
  taskExec,      \* those tasks carry the execution's id
  tasksDone,     \* the worker has completed them all
  cpc, chash,    \* where each orchestration call is; the contents it compiled
  cexec, cplanId,\* what its first reads of the request found
  pc,            \* where each runner is
  choice,        \* what each approver decides
  snap,          \* request and plan as a materialization read them
  inRun,         \* the runner is inside a workflow run
  outcome,       \* the status a run will leave its execution with
  verdict,       \* history: the decision that won
  early,         \* history: it won before the plan was linked
  starts,        \* history: workflow executions created
  faults

request == <<approval, reqStatus, meta>>
plan    == <<planHash, planStatus, materialized>>
exec    == <<execStatus, decision>>
work    == <<tasks, taskExec, tasksDone>>
calls   == <<cpc, chash, cexec, cplanId>>
runs    == <<pc, choice, snap, inRun, outcome>>
history == <<verdict, early, starts>>
vars    == <<planningOnly, request, plan, exec, work, calls, runs, history, faults>>

Meta         == [planId : BOOLEAN, reserved : BOOLEAN, exec : BOOLEAN, resumed : BOOLEAN]
NoMeta       == [planId |-> FALSE, reserved |-> FALSE, exec |-> FALSE, resumed |-> FALSE]
Decisions    == {"APPROVED", "REJECTED"}
OpenRequest  == {"PENDING", "APPROVED", "IN_PROGRESS"}
Requests     == OpenRequest \union {"NONE", "COMPLETED", "CANCELLED"}
Terminal     == {"COMPLETED", "CANCELLED"}
PlanStatuses == {"NONE", "COMPILED", "EXECUTING", "COMPLETED"}
Snaps  == [status : Requests, meta : Meta, hash : Hash \union {NoHash}, plan : PlanStatuses]
NoSnap == [status |-> "NONE", meta |-> NoMeta, hash |-> NoHash, plan |-> "NONE"]

CallPoints == {"idle", "look", "compile", "persist", "link", "reserve", "start",
               "linkExec", "linkNone", "returned", "dead"}
RunPoints  == {"idle", "tell", "run", "materialize", "upsert", "saveRequest",
               "savePlan", "reject", "saveExec", "done", "dead"}

Init ==
  /\ planningOnly \in BOOLEAN
  /\ approval = "NONE" /\ reqStatus = "NONE" /\ meta = NoMeta
  /\ planHash = NoHash /\ planStatus = "NONE" /\ materialized = FALSE
  /\ execStatus = "NONE" /\ decision = "NONE"
  /\ tasks = {} /\ taskExec = FALSE /\ tasksDone = FALSE
  /\ cpc = [c \in Caller |-> "idle"] /\ chash = [c \in Caller |-> NoHash]
  /\ cexec = [c \in Caller |-> FALSE] /\ cplanId = [c \in Caller |-> FALSE]
  /\ pc = [r \in Runner |-> "idle"] /\ choice = [a \in Approver |-> "NONE"]
  /\ snap = [r \in Runner |-> NoSnap] /\ inRun = [r \in Runner |-> FALSE]
  /\ outcome = [r \in Runner |-> "NONE"]
  /\ verdict = "NONE" /\ early = FALSE /\ starts = 0
  /\ faults = 0

CallAt(c, p) == cpc' = [cpc EXCEPT ![c] = p]
RunAt(r, p)  == pc' = [pc EXCEPT ![r] = p]

-----------------------------------------------------------------------------
(* startGenericPlanOrchestration                                            *)

InitialApprovalPending == "PENDING"  \* bug: planning-only requests wait for approval too

InitialApproval == IF planningOnly THEN "NOT_REQUIRED" ELSE "PENDING"

\* Find the open request of the event or create it; the partial unique index
\* makes a lost creation race a reuse.  After a rejection the call would create
\* another request, which is another instance of this specification.
FindOrCreateRequest(c) ==
  /\ cpc[c] = "idle"
  /\ reqStatus # "CANCELLED"
  /\ IF approval = "NONE"
     THEN /\ approval' = InitialApproval
          /\ reqStatus' = "PENDING"
     ELSE UNCHANGED <<approval, reqStatus>>
  /\ cexec' = [cexec EXCEPT ![c] = meta.exec]
  /\ cplanId' = [cplanId EXCEPT ![c] = meta.planId]
  /\ CallAt(c, "look")
  /\ UNCHANGED <<planningOnly, meta, plan, exec, work, chash, runs, history, faults>>

\* isProvisioningPlanLockedAgainstRecompile
Locked == planStatus \in {"EXECUTING", "COMPLETED"} \/ materialized

\* resolveLinkedExecutionId and loadPlanForRequest: return the existing plan if
\* it is locked, or linked to what this kind of request needs.
Reusable(c) ==
  \/ Locked
  \/ /\ ~planningOnly
     /\ cexec[c] \/ execStatus # "NONE"
     /\ cplanId[c] \/ planHash # NoHash
  \/ planningOnly /\ planHash # NoHash /\ cplanId[c]

LookForPlan(c) ==
  /\ cpc[c] = "look"
  /\ CallAt(c, IF Reusable(c) THEN "returned" ELSE "compile")
  /\ UNCHANGED <<planningOnly, request, plan, exec, work, chash, cexec, cplanId,
                 runs, history, faults>>

\* compileProvisioningPlan: what it compiles depends on the access data of the
\* moment; a locked or identical plan is reused.
Compile(c) ==
  /\ cpc[c] = "compile"
  /\ \E h \in Hash :
       /\ chash' = [chash EXCEPT ![c] = h]
       /\ CallAt(c, IF Locked \/ planHash = h THEN "link" ELSE "persist")
  /\ UNCHANGED <<planningOnly, request, plan, exec, work, cexec, cplanId, runs,
                 history, faults>>

\* The upsert that stores the plan asks nothing of the plan it replaces.
PersistPlan(c) ==
  /\ cpc[c] = "persist"
  /\ planHash' = chash[c]
  /\ planStatus' = "COMPILED"
  /\ materialized' = FALSE
  /\ CallAt(c, "link")
  /\ UNCHANGED <<planningOnly, request, exec, work, chash, cexec, cplanId, runs,
                 history, faults>>

LinkPlan(c) ==
  /\ cpc[c] = "link"
  /\ meta' = [meta EXCEPT !.planId = TRUE]
  /\ CallAt(c, IF planningOnly THEN "returned" ELSE "reserve")
  /\ UNCHANGED <<planningOnly, approval, reqStatus, plan, exec, work, chash, cexec,
                 cplanId, runs, history, faults>>

\* The filter of the atomic reservation of the workflow start.
UnlinkedOnly == approval = "PENDING" /\ ~meta.exec  \* bug: the reservation not asked

Unreserved == approval = "PENDING" /\ ~meta.exec /\ ~meta.reserved

ReserveStart(c) ==
  /\ cpc[c] = "reserve"
  /\ IF Unreserved /\ execStatus = "NONE"
     THEN meta' = [meta EXCEPT !.reserved = TRUE, !.planId = TRUE] /\ CallAt(c, "start")
     ELSE UNCHANGED meta /\ CallAt(c, "returned")
  /\ UNCHANGED <<planningOnly, approval, reqStatus, plan, exec, work, chash, cexec,
                 cplanId, runs, history, faults>>

\* startLifecycleProvisionWorkflow creates the execution and lets its first run
\* go, or finds that the workflow template has not been seeded.
StartWorkflow(c) ==
  /\ cpc[c] = "start"
  /\ \/ /\ execStatus' = "RUNNING" /\ decision' = "NONE"
        /\ pc' = [pc EXCEPT ![First] = "run"]
        /\ inRun' = [inRun EXCEPT ![First] = TRUE]
        /\ starts' = starts + 1
        /\ CallAt(c, "linkExec")
     \/ /\ CallAt(c, "linkNone")
        /\ UNCHANGED <<exec, pc, inRun, starts>>
  /\ UNCHANGED <<planningOnly, request, plan, work, chash, cexec, cplanId, choice,
                 snap, outcome, verdict, early, faults>>

LinkExecution(c) ==
  /\ cpc[c] \in {"linkExec", "linkNone"}
  /\ meta' = [meta EXCEPT !.planId = TRUE, !.exec = cpc[c] = "linkExec"]
  /\ CallAt(c, "returned")
  /\ UNCHANGED <<planningOnly, approval, reqStatus, plan, exec, work, chash, cexec,
                 cplanId, runs, history, faults>>

-----------------------------------------------------------------------------
(* decideLifecycleApproval                                                  *)

OpenForDecision == approval # "NONE" /\ reqStatus \in OpenRequest  \* bug: a decision not asked

Undecided == approval = "PENDING" /\ reqStatus \in OpenRequest

AfterDecisionByWorkflow(d) == IF meta.exec THEN "tell" ELSE "done"  \* bug: only a workflow acts

AfterDecision(d) ==
  IF meta.exec THEN "tell"
  ELSE IF d = "APPROVED" /\ meta.planId THEN "materialize" ELSE "done"

\* Only one decision wins the request.  With a workflow it is handed to the
\* execution; without one an approval materializes the plan itself, if the plan
\* is linked already, and otherwise finds nothing it can compile.
Decide(a) ==
  /\ pc[a] = "idle"
  /\ Undecided
  /\ \E d \in Decisions :
       /\ approval' = d
       /\ reqStatus' = IF d = "REJECTED" THEN "CANCELLED" ELSE "APPROVED"
       /\ choice' = [choice EXCEPT ![a] = d]
       /\ verdict' = d
       /\ RunAt(a, AfterDecision(d))
  /\ early' = ~meta.planId
  /\ UNCHANGED <<planningOnly, meta, plan, exec, work, calls, snap, inRun, outcome,
                 starts, faults>>

\* A decision that comes second is answered with a conflict.
DecideLate(a) ==
  /\ pc[a] = "idle"
  /\ approval # "NONE" /\ ~Undecided
  /\ RunAt(a, "done")
  /\ UNCHANGED <<planningOnly, request, plan, exec, work, calls, choice, snap, inRun,
                 outcome, history, faults>>

TellExecution(a) ==
  /\ pc[a] = "tell"
  /\ decision' = choice[a]
  /\ inRun' = [inRun EXCEPT ![a] = TRUE]
  /\ RunAt(a, "run")
  /\ UNCHANGED <<planningOnly, request, plan, execStatus, work, calls, choice, snap,
                 outcome, history, faults>>

-----------------------------------------------------------------------------
(* runLifecycleExecution, over the joiner approval flow                     *)

EndOfRunRaw == IF decision = "APPROVED" THEN "SUCCESS" ELSE "FAILED"  \* bug: the executor's word

\* What the status of the run (SUCCESS, FAILED) makes of the execution's.
EndOfRun == IF decision = "APPROVED" THEN "COMPLETED" ELSE "FAILED"

\* The first run starts at the trigger and waits while nobody has decided;
\* every other run starts at checkDecision, for which "not approved" means
\* rejected.
BeginRun(r) ==
  LET waits == r = First /\ decision = "NONE" IN
    /\ pc[r] = "run"
    /\ execStatus' = "RUNNING"
    /\ outcome' = [outcome EXCEPT ![r] =
                     IF waits THEN "WAITING" ELSE EndOfRun]
    /\ RunAt(r, IF waits THEN "saveExec"
                ELSE IF decision = "APPROVED" THEN "materialize" ELSE "reject")
    /\ UNCHANGED <<planningOnly, request, plan, decision, work, calls, choice, snap,
                   inRun, history, faults>>

\* RejectJoinerRequest: the guarded rejection first, and when that one refuses,
\* the unconditional one.
Reject(r) ==
  /\ pc[r] = "reject"
  /\ approval' = "REJECTED"
  /\ reqStatus' = "CANCELLED"
  /\ RunAt(r, "saveExec")
  /\ UNCHANGED <<planningOnly, meta, plan, exec, work, calls, choice, snap, inRun,
                 outcome, history, faults>>

SaveExecution(r) ==
  /\ pc[r] = "saveExec"
  /\ execStatus' = outcome[r]
  /\ inRun' = [inRun EXCEPT ![r] = FALSE]
  /\ RunAt(r, IF r = Again THEN "idle" ELSE "done")
  /\ UNCHANGED <<planningOnly, request, plan, decision, work, calls, choice, snap,
                 outcome, history, faults>>

-----------------------------------------------------------------------------
(* materializeProvisioningTasks                                             *)

\* A run goes on to its end node, whatever came of the materialization.
AfterMaterializing(r) ==
  /\ RunAt(r, IF inRun[r] THEN "saveExec" ELSE "done")
  /\ snap' = [snap EXCEPT ![r] = NoSnap]

\* Read plan and request; refuse unless the request is approved.
ReadApproved(r) ==
  /\ pc[r] = "materialize"
  /\ IF approval \in {"APPROVED", "NOT_REQUIRED"} /\ reqStatus # "CANCELLED"
     THEN /\ snap' = [snap EXCEPT ![r] = [status |-> reqStatus, meta |-> meta,
                                          hash |-> planHash, plan |-> planStatus]]
          /\ RunAt(r, "upsert")
     ELSE AfterMaterializing(r)
  /\ UNCHANGED <<planningOnly, request, plan, exec, work, calls, choice, inRun,
                 outcome, history, faults>>

\* Tasks that exist already are left as they are.
UpsertTasks(r) ==
  LET h == snap[r].hash IN
    /\ pc[r] = "upsert"
    /\ tasks' = tasks \union {h}
    /\ taskExec' = IF tasks = {} THEN inRun[r] \/ snap[r].meta.exec ELSE taskExec
    /\ tasksDone' = (tasksDone /\ h \in tasks)
    /\ RunAt(r, "saveRequest")
    /\ UNCHANGED <<planningOnly, request, plan, exec, calls, choice, snap, inRun,
                   outcome, history, faults>>

\* The document is saved as it was read: status unless it was final or
\* IN_PROGRESS then, and the whole of metadata.  approvalStatus, APPROVED when
\* it was read, is not written.
SaveRequest(r) ==
  /\ pc[r] = "saveRequest"
  /\ reqStatus' = IF snap[r].status \in Terminal \union {"IN_PROGRESS"}
                  THEN reqStatus ELSE "IN_PROGRESS"
  /\ meta' = [snap[r].meta EXCEPT !.planId = TRUE]
  /\ RunAt(r, "savePlan")
  /\ UNCHANGED <<planningOnly, approval, plan, exec, work, calls, choice, snap, inRun,
                 outcome, history, faults>>

SavePlan(r) ==
  /\ pc[r] = "savePlan"
  /\ planStatus' = IF snap[r].plan \in {"COMPLETED", "EXECUTING"}
                   THEN planStatus ELSE "EXECUTING"
  /\ materialized' = TRUE
  /\ AfterMaterializing(r)
  /\ UNCHANGED <<planningOnly, request, planHash, exec, work, calls, choice, inRun,
                 outcome, history, faults>>

-----------------------------------------------------------------------------
(* The environment: the task worker, and crashes                            *)

\* The worker completes the tasks of an approved request, rolls request and plan
\* up, and resumes the workflow the tasks carry, once per resume gate.
CompleteTasks ==
  LET resume == taskExec /\ ~meta.resumed /\ pc[Again] = "idle" IN
    /\ tasks # {} /\ ~tasksDone
    /\ approval \in {"APPROVED", "NOT_REQUIRED"} /\ reqStatus # "CANCELLED"
    /\ tasksDone' = TRUE
    /\ reqStatus' = "COMPLETED"
    /\ planStatus' = "COMPLETED"
    /\ IF resume
       THEN /\ meta' = [meta EXCEPT !.resumed = TRUE]
            /\ pc' = [pc EXCEPT ![Again] = "run"]
            /\ inRun' = [inRun EXCEPT ![Again] = TRUE]
       ELSE UNCHANGED <<meta, pc, inRun>>
    /\ UNCHANGED <<planningOnly, approval, planHash, materialized, exec, tasks, taskExec,
                   calls, choice, snap, outcome, history, faults>>

Fault == faults < MaxFaults /\ faults' = faults + 1

CrashCall(c) ==
  /\ Fault
  /\ cpc[c] \notin {"idle", "returned", "dead"}
  /\ CallAt(c, "dead")
  /\ UNCHANGED <<planningOnly, request, plan, exec, work, chash, cexec, cplanId, runs,
                 history>>

CrashRun(r) ==
  /\ Fault
  /\ pc[r] \notin {"idle", "done", "dead"}
  /\ RunAt(r, "dead")
  /\ snap' = [snap EXCEPT ![r] = NoSnap]
  /\ inRun' = [inRun EXCEPT ![r] = FALSE]
  /\ UNCHANGED <<planningOnly, request, plan, exec, work, calls, choice, outcome, history>>

-----------------------------------------------------------------------------
CallStep(c) ==
  \/ LookForPlan(c) \/ Compile(c) \/ PersistPlan(c) \/ LinkPlan(c)
  \/ ReserveStart(c) \/ StartWorkflow(c) \/ LinkExecution(c)

RunStep(r) ==
  \/ BeginRun(r) \/ Reject(r) \/ SaveExecution(r)
  \/ ReadApproved(r) \/ UpsertTasks(r) \/ SaveRequest(r) \/ SavePlan(r)

Next ==
  \/ \E c \in Caller : FindOrCreateRequest(c) \/ CallStep(c) \/ CrashCall(c)
  \/ \E a \in Approver : Decide(a) \/ DecideLate(a) \/ TellExecution(a)
  \/ \E r \in Runner : RunStep(r) \/ CrashRun(r)
  \/ CompleteTasks

Spec == Init /\ [][Next]_vars

\* A call or a run that has begun goes on, and the worker ticks.  Nobody is
\* obliged to call or to decide.
Fairness ==
  /\ \A c \in Caller : WF_vars(CallStep(c))
  /\ \A a \in Approver : WF_vars(TellExecution(a))
  /\ \A r \in Runner : WF_vars(RunStep(r))
  /\ WF_vars(CompleteTasks)

FairSpec == Spec /\ Fairness

-----------------------------------------------------------------------------
(* Properties                                                               *)

RequestOK ==
  /\ planningOnly \in BOOLEAN
  /\ approval \in {"NONE", "PENDING", "NOT_REQUIRED", "APPROVED", "REJECTED"}
  /\ reqStatus \in Requests
  /\ meta \in Meta

WorkOK ==
  /\ planHash \in Hash \union {NoHash}
  /\ planStatus \in PlanStatuses
  /\ materialized \in BOOLEAN
  /\ execStatus \in {"NONE", "RUNNING", "WAITING", "COMPLETED", "FAILED"}
  /\ decision \in Decisions \union {"NONE"}
  /\ tasks \in SUBSET (Hash \union {NoHash})
  /\ taskExec \in BOOLEAN /\ tasksDone \in BOOLEAN

CallsOK ==
  /\ cpc \in [Caller -> CallPoints]
  /\ chash \in [Caller -> Hash \union {NoHash}]
  /\ cexec \in [Caller -> BOOLEAN] /\ cplanId \in [Caller -> BOOLEAN]

RunsOK ==
  /\ pc \in [Runner -> RunPoints]
  /\ choice \in [Approver -> Decisions \union {"NONE"}]
  /\ snap \in [Runner -> Snaps]
  /\ inRun \in [Runner -> BOOLEAN]
  /\ outcome \in [Runner -> {"NONE", "WAITING", "COMPLETED", "FAILED"}]

HistoryOK ==
  /\ verdict \in Decisions \union {"NONE"}
  /\ early \in BOOLEAN
  /\ starts \in Nat
  /\ faults \in 0 .. MaxFaults

\* Type invariant.
TypeOK == RequestOK /\ WorkOK /\ CallsOK /\ RunsOK /\ HistoryOK

\* "Rejection cancels without creating an executable task": tasks exist only
\* for a request that an approver has approved, and never for a planning-only
\* one, however calls, decisions, runs and crashes interleave.
TasksNeedApproval == tasks # {} => verdict = "APPROVED" /\ ~planningOnly

\* Concurrent and retried orchestration calls start one workflow execution
\* between them.
OneExecution == starts <= 1

\* What the workflow acts on is the decision that won the request.
DecisionAgrees == decision # "NONE" => decision = verdict

\* An approval given once the plan is linked takes effect: the plan is turned
\* into tasks, whether or not the workflow had been started by then.
ApprovalTakesEffect == (verdict = "APPROVED" /\ ~early) ~> tasks # {}

\* A decision is final: only one concurrent approval or rejection wins, and
\* nothing turns it over.
DecisionIsFinal ==
  [][(approval \in Decisions) => (approval' = approval)]_vars
=============================================================================
