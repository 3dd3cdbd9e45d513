-------------------------- MODULE PlanApprovalProofs --------------------------
(* Theorems about PlanApproval, for any number of orchestration calls,       *)
(* approvers, plan contents and crashes.                                     *)
EXTENDS PlanApproval, TLAPS

-----------------------------------------------------------------------------
(* Type correctness                                                         *)

LEMMA NoSnapTyped == NoSnap \in Snaps
<1>1. NoMeta \in Meta
  BY DEF NoMeta, Meta
<1> QED
  BY <1>1 DEF NoSnap, Snaps, Requests, PlanStatuses

LEMMA TypeInit == Init => TypeOK
<1> SUFFICES ASSUME Init PROVE TypeOK
  OBVIOUS
<1>1. NoMeta \in Meta
  BY DEF NoMeta, Meta
<1>2. RequestOK
  BY <1>1 DEF Init, RequestOK, Requests
<1>3. WorkOK
  BY DEF Init, WorkOK, PlanStatuses
<1>4. CallsOK
  BY DEF Init, CallsOK, CallPoints
<1>5. pc \in [Runner -> RunPoints] /\ choice \in [Approver -> Decisions \union {"NONE"}]
  BY DEF Init, RunPoints
<1>6. snap \in [Runner -> Snaps]
  BY NoSnapTyped DEF Init
<1>7. inRun \in [Runner -> BOOLEAN]
  BY DEF Init
<1>8. outcome \in [Runner -> {"NONE", "WAITING", "COMPLETED", "FAILED"}]
  BY DEF Init
<1>9. HistoryOK
  <2>1. faults \in 0 .. MaxFaults /\ starts \in Nat
    BY FaultAssumption DEF Init
  <2>2. verdict \in Decisions \union {"NONE"} /\ early \in BOOLEAN
    BY DEF Init
  <2> QED
    BY <2>1, <2>2 DEF HistoryOK
<1> QED
  BY <1>2, <1>3, <1>4, <1>5, <1>6, <1>7, <1>8, <1>9 DEF TypeOK, RunsOK

LEMMA TypeStep == TypeOK /\ [Next]_vars => TypeOK'
<1> SUFFICES ASSUME TypeOK, [Next]_vars PROVE TypeOK'
  OBVIOUS
<1> USE DEF TypeOK, request, plan, exec, work, calls, runs, history
<1>1. ASSUME NEW c \in Caller, FindOrCreateRequest(c) PROVE TypeOK'
  BY <1>1 DEF FindOrCreateRequest, InitialApproval, RequestOK, Meta,
     Requests, OpenRequest, Decisions, WorkOK, CallsOK, CallPoints, CallAt,
     RunsOK, HistoryOK
<1>2. ASSUME NEW c \in Caller, LookForPlan(c) PROVE TypeOK'
  BY <1>2 DEF LookForPlan, RequestOK, Meta, Requests, OpenRequest,
     Decisions, WorkOK, CallsOK, CallPoints, CallAt, RunsOK, HistoryOK
<1>3. ASSUME NEW c \in Caller, Compile(c) PROVE TypeOK'
  BY <1>3 DEF Compile, RequestOK, Meta, Requests, OpenRequest, Decisions,
     WorkOK, CallsOK, CallPoints, CallAt, RunsOK, HistoryOK
<1>4. ASSUME NEW c \in Caller, PersistPlan(c) PROVE TypeOK'
  <2> USE <1>4 DEF PersistPlan
  <2>1. RequestOK'
    BY DEF RequestOK, Meta, Requests, OpenRequest, Decisions
  <2>2. WorkOK'
    BY DEF WorkOK, CallsOK, PlanStatuses
  <2>3. CallsOK'
    BY DEF CallsOK, CallPoints, CallAt
  <2>4. RunsOK' /\ HistoryOK'
    BY DEF RunsOK, HistoryOK
  <2> QED
    BY <2>1, <2>2, <2>3, <2>4
<1>5. ASSUME NEW c \in Caller, LinkPlan(c) PROVE TypeOK'
  <2> USE <1>5 DEF LinkPlan
  <2>1. RequestOK'
    BY DEF RequestOK, Meta, Requests, OpenRequest, Decisions
  <2>2. WorkOK'
    BY DEF WorkOK
  <2>3. CallsOK'
    BY DEF CallsOK, CallPoints, CallAt
  <2>4. RunsOK' /\ HistoryOK'
    BY DEF RunsOK, HistoryOK
  <2> QED
    BY <2>1, <2>2, <2>3, <2>4
<1>6. ASSUME NEW c \in Caller, ReserveStart(c) PROVE TypeOK'
  <2> USE <1>6 DEF ReserveStart
  <2>1. RequestOK'
    BY DEF RequestOK, Meta, Requests, OpenRequest, Decisions
  <2>2. WorkOK'
    BY DEF WorkOK
  <2>3. CallsOK'
    BY DEF CallsOK, CallPoints, CallAt
  <2>4. RunsOK' /\ HistoryOK'
    BY DEF RunsOK, HistoryOK
  <2> QED
    BY <2>1, <2>2, <2>3, <2>4
<1>7. ASSUME NEW c \in Caller, StartWorkflow(c) PROVE TypeOK'
  <2> USE <1>7 DEF StartWorkflow
  <2>1. RequestOK'
    BY DEF RequestOK, Meta, Requests, OpenRequest, Decisions
  <2>2. WorkOK'
    BY DEF WorkOK
  <2>3. CallsOK'
    BY DEF CallsOK, CallPoints, CallAt
  <2>4. RunsOK'
    BY DEF RunsOK, RunPoints, RunAt, Runner
  <2>5. HistoryOK'
    BY DEF HistoryOK
  <2> QED
    BY <2>1, <2>2, <2>3, <2>4, <2>5
<1>8. ASSUME NEW c \in Caller, LinkExecution(c) PROVE TypeOK'
  <2> USE <1>8 DEF LinkExecution
  <2>1. RequestOK'
    BY DEF RequestOK, Meta, Requests, OpenRequest, Decisions
  <2>2. WorkOK'
    BY DEF WorkOK
  <2>3. CallsOK'
    BY DEF CallsOK, CallPoints, CallAt
  <2>4. RunsOK' /\ HistoryOK'
    BY DEF RunsOK, HistoryOK
  <2> QED
    BY <2>1, <2>2, <2>3, <2>4
<1>9. ASSUME NEW c \in Caller, CrashCall(c) PROVE TypeOK'
  BY <1>9, FaultAssumption DEF CrashCall, Fault, RequestOK, Meta, Requests,
     OpenRequest, Decisions, WorkOK, CallsOK, CallPoints, CallAt, RunsOK,
     HistoryOK
<1>10. ASSUME NEW a \in Approver, Decide(a) PROVE TypeOK'
  BY <1>10 DEF Decide, AfterDecision, RequestOK, Meta, Requests,
     OpenRequest, Decisions, WorkOK, CallsOK, RunsOK, RunPoints, RunAt,
     Runner, HistoryOK
<1>11. ASSUME NEW a \in Approver, DecideLate(a) PROVE TypeOK'
  BY <1>11 DEF DecideLate, RequestOK, Meta, Requests, OpenRequest,
     Decisions, WorkOK, CallsOK, RunsOK, RunPoints, RunAt, Runner, HistoryOK
<1>12. ASSUME NEW a \in Approver, TellExecution(a) PROVE TypeOK'
  BY <1>12 DEF TellExecution, RequestOK, Meta, Requests, OpenRequest,
     Decisions, WorkOK, RunsOK, CallsOK, RunPoints, RunAt, Runner, HistoryOK
<1>13. ASSUME NEW r \in Runner, BeginRun(r) PROVE TypeOK'
  BY <1>13 DEF BeginRun, EndOfRun, RequestOK, Meta, Requests, OpenRequest,
     Decisions, WorkOK, CallsOK, RunsOK, RunPoints, RunAt, HistoryOK
<1>14. ASSUME NEW r \in Runner, Reject(r) PROVE TypeOK'
  BY <1>14 DEF Reject, RequestOK, Meta, Requests, OpenRequest, Decisions,
     WorkOK, CallsOK, RunsOK, RunPoints, RunAt, HistoryOK
<1>15. ASSUME NEW r \in Runner, SaveExecution(r) PROVE TypeOK'
  BY <1>15 DEF SaveExecution, RequestOK, Meta, Requests, OpenRequest,
     Decisions, WorkOK, RunsOK, CallsOK, RunPoints, RunAt, HistoryOK
<1>16. ASSUME NEW r \in Runner, ReadApproved(r) PROVE TypeOK'
  <2> USE <1>16 DEF ReadApproved, AfterMaterializing
  <2>1. RequestOK'
    BY DEF RequestOK, Meta, Requests, OpenRequest, Decisions
  <2>2. WorkOK'
    BY DEF WorkOK
  <2>3. CallsOK'
    BY DEF CallsOK
  <2>4. RunsOK'
    <3>1. pc' \in [Runner -> RunPoints]
      BY DEF RunsOK, RunPoints, RunAt
    <3>2. [status |-> reqStatus, meta |-> meta, hash |-> planHash, plan |-> planStatus]
            \in Snaps
      BY DEF Snaps, RequestOK, WorkOK
    <3>3. snap' \in [Runner -> Snaps]
      BY <3>2, NoSnapTyped DEF RunsOK
    <3> QED
      BY <3>1, <3>3 DEF RunsOK
  <2>5. HistoryOK'
    BY DEF HistoryOK
  <2> QED
    BY <2>1, <2>2, <2>3, <2>4, <2>5
<1>17. ASSUME NEW r \in Runner, UpsertTasks(r) PROVE TypeOK'
  <2> USE <1>17 DEF UpsertTasks
  <2>1. RequestOK'
    BY DEF RequestOK, Meta, Requests, OpenRequest, Decisions
  <2>2. WorkOK'
    BY DEF WorkOK, RunsOK, RequestOK, Snaps, Meta
  <2>3. CallsOK'
    BY DEF CallsOK
  <2>4. RunsOK'
    BY DEF RunsOK, RunPoints, RunAt
  <2>5. HistoryOK'
    BY DEF HistoryOK
  <2> QED
    BY <2>1, <2>2, <2>3, <2>4, <2>5
<1>18. ASSUME NEW r \in Runner, SaveRequest(r) PROVE TypeOK'
  <2> USE <1>18 DEF SaveRequest
  <2>1. RequestOK'
    BY DEF RequestOK, Meta, Requests, OpenRequest, Decisions, RunsOK, Snaps
  <2>2. WorkOK'
    BY DEF WorkOK
  <2>3. CallsOK'
    BY DEF CallsOK
  <2>4. RunsOK'
    BY DEF RunsOK, RunPoints, RunAt
  <2>5. HistoryOK'
    BY DEF HistoryOK
  <2> QED
    BY <2>1, <2>2, <2>3, <2>4, <2>5
<1>19. ASSUME NEW r \in Runner, SavePlan(r) PROVE TypeOK'
  BY <1>19, NoSnapTyped DEF SavePlan, AfterMaterializing, RequestOK, Meta,
     Requests, OpenRequest, Decisions, WorkOK, PlanStatuses, CallsOK,
     RunsOK, RunPoints, RunAt, HistoryOK
<1>20. ASSUME NEW r \in Runner, CrashRun(r) PROVE TypeOK'
  BY <1>20, NoSnapTyped, FaultAssumption DEF CrashRun, Fault, RequestOK,
     Meta, Requests, OpenRequest, Decisions, WorkOK, CallsOK, RunsOK,
     RunPoints, RunAt, HistoryOK
<1>21. CASE CompleteTasks
  <2> USE <1>21 DEF CompleteTasks
  <2>1. RequestOK'
    BY DEF RequestOK, Meta, Requests
  <2>2. WorkOK'
    BY DEF WorkOK, PlanStatuses
  <2>3. RunsOK'
    <3>1. \/ UNCHANGED <<pc, inRun>>
          \/ /\ pc' = [pc EXCEPT ![Again] = "run"]
             /\ inRun' = [inRun EXCEPT ![Again] = TRUE]
      OBVIOUS
    <3> HIDE <1>21 DEF CompleteTasks
    <3>2. UNCHANGED <<choice, snap, outcome>>
      BY <1>21 DEF CompleteTasks
    <3> QED
      BY <3>1, <3>2 DEF RunsOK, RunPoints
  <2>4. CallsOK' /\ HistoryOK'
    BY DEF CallsOK, HistoryOK
  <2> QED
    BY <2>1, <2>2, <2>3, <2>4
<1>22. CASE UNCHANGED vars
  BY <1>22 DEF vars, RequestOK, WorkOK, CallsOK, RunsOK, HistoryOK
<1> QED
  BY <1>1, <1>2, <1>3, <1>4, <1>5, <1>6, <1>7, <1>8, <1>9, <1>10, <1>11, <1>12, <1>13, <1>14, <1>15, <1>16, <1>17, <1>18, <1>19, <1>20, <1>21, <1>22
     DEF Next, CallStep, RunStep

\* The state of requests, plans, executions, calls and runs stays within its
\* types, for any number of callers, approvers and crashes.
THEOREM TypeCorrect == Spec => []TypeOK
<1> QED
  BY TypeInit, TypeStep, PTL DEF Spec

-----------------------------------------------------------------------------
(* Tasks need an approval                                                   *)

\* What each value of approvalStatus says of the decision, and of what has been
\* handed on to executions and runs.
Approved ==
  /\ approval \in {"NONE", "PENDING", "NOT_REQUIRED"} => verdict = "NONE"
  /\ approval = "APPROVED" => verdict = "APPROVED"
  /\ approval = "PENDING" => ~planningOnly
  /\ verdict # "NONE" => ~planningOnly
  /\ decision # "NONE" => decision = verdict
  /\ \A a \in Approver : pc[a] = "tell" => choice[a] = verdict /\ verdict # "NONE"
  /\ \A r \in Runner : pc[r] \in {"materialize", "upsert"} => verdict = "APPROVED"
  /\ tasks # {} => verdict = "APPROVED"

LEMMA ApprovedInit == Init => Approved
BY DEF Init, Approved, Runner

LEMMA ApprovedStep == TypeOK /\ Approved /\ [Next]_vars => Approved'
<1> SUFFICES ASSUME TypeOK, Approved, [Next]_vars PROVE Approved'
  OBVIOUS
<1> USE DEF Approved, request, plan, exec, work, calls, runs, history
<1>1. ASSUME NEW c \in Caller, FindOrCreateRequest(c) PROVE Approved'
  BY <1>1 DEF FindOrCreateRequest, InitialApproval
<1>2. ASSUME NEW c \in Caller,
             \/ LookForPlan(c) \/ Compile(c) \/ PersistPlan(c) \/ LinkPlan(c)
             \/ ReserveStart(c) \/ LinkExecution(c) \/ CrashCall(c)
      PROVE Approved'
  BY <1>2 DEF LookForPlan, Compile, PersistPlan, LinkPlan, ReserveStart, LinkExecution,
              CrashCall
<1>3. ASSUME NEW c \in Caller, StartWorkflow(c) PROVE Approved'
  BY <1>3, ProcessAssumption DEF StartWorkflow, TypeOK, RunsOK, Runner
<1>4. ASSUME NEW a \in Approver, Decide(a) PROVE Approved'
  BY <1>4 DEF Decide, Undecided, AfterDecision, RunAt, Decisions, TypeOK, RunsOK, Runner
<1>5. ASSUME NEW a \in Approver, DecideLate(a) \/ TellExecution(a) PROVE Approved'
  BY <1>5 DEF DecideLate, TellExecution, RunAt, TypeOK, RunsOK, Runner
<1>6. ASSUME NEW r \in Runner, BeginRun(r) PROVE Approved'
  BY <1>6 DEF BeginRun, RunAt, TypeOK, RunsOK, Runner
<1>7. ASSUME NEW r \in Runner,
             \/ Reject(r) \/ SaveExecution(r) \/ ReadApproved(r)
             \/ SaveRequest(r) \/ SavePlan(r) \/ CrashRun(r)
      PROVE Approved'
  BY <1>7 DEF Reject, SaveExecution, ReadApproved, SaveRequest, SavePlan, CrashRun,
              AfterMaterializing, RunAt, TypeOK, RunsOK, Runner
<1>8. ASSUME NEW r \in Runner, UpsertTasks(r) PROVE Approved'
  BY <1>8 DEF UpsertTasks, RunAt, TypeOK, RunsOK, Runner
<1>9. CASE CompleteTasks
  BY <1>9, ProcessAssumption DEF CompleteTasks, TypeOK, RunsOK, Runner
<1>10. CASE UNCHANGED vars
  BY <1>10 DEF vars
<1> QED
  BY <1>1, <1>2, <1>3, <1>4, <1>5, <1>6, <1>7, <1>8, <1>9, <1>10 DEF Next, CallStep, RunStep

\* Tasks are never made without the approval of an approver, nor for a request
\* that only plans.
THEOREM NoTasksWithoutApproval == Spec => []TasksNeedApproval
<1>1. TypeOK /\ Approved => TasksNeedApproval
  BY DEF Approved, TasksNeedApproval
<1> QED
  BY <1>1, TypeCorrect, ApprovedInit, ApprovedStep, PTL DEF Spec

\* A workflow acts on nothing but the decision that won, however many approvers
\* decide at once.
THEOREM WorkflowFollowsDecision == Spec => []DecisionAgrees
<1>1. TypeOK /\ Approved => DecisionAgrees
  BY DEF Approved, DecisionAgrees
<1> QED
  BY <1>1, TypeCorrect, ApprovedInit, ApprovedStep, PTL DEF Spec

-----------------------------------------------------------------------------
(* One workflow execution                                                   *)

\* Until the request is decided its reservation stands, because nobody has yet
\* read the metadata that a materialization will write back.
Reserved ==
  /\ starts <= 1
  /\ \A c \in Caller : cpc[c] = "start" => starts = 0
  /\ \A c, d \in Caller : cpc[c] = "start" /\ cpc[d] = "start" => c = d
  /\ approval \in {"NONE", "PENDING"} =>
       /\ starts > 0 \/ (\E c \in Caller : cpc[c] = "start") => meta.reserved
       /\ \A r \in Runner : pc[r] \notin {"upsert", "saveRequest"}

LEMMA ReservedInit == Init => Reserved
BY DEF Init, Reserved

LEMMA ReservedStep == TypeOK /\ Reserved /\ [Next]_vars => Reserved'
<1> SUFFICES ASSUME TypeOK, Reserved, [Next]_vars PROVE Reserved'
  OBVIOUS
<1> USE DEF Reserved, request, plan, exec, work, calls, runs, history
<1>1. ASSUME NEW c \in Caller, FindOrCreateRequest(c) PROVE Reserved'
  BY <1>1 DEF FindOrCreateRequest, CallAt, TypeOK, CallsOK
<1>2. ASSUME NEW c \in Caller, LookForPlan(c) \/ Compile(c) \/ PersistPlan(c) \/ CrashCall(c)
      PROVE Reserved'
  BY <1>2 DEF LookForPlan, Compile, PersistPlan, CrashCall, CallAt, TypeOK, CallsOK
<1>3. ASSUME NEW c \in Caller, LinkPlan(c) \/ LinkExecution(c) PROVE Reserved'
  <2>1. meta'.reserved = meta.reserved
    BY <1>3 DEF LinkPlan, LinkExecution, TypeOK, RequestOK, Meta
  <2>2. \A d \in Caller : cpc'[d] = "start" => cpc[d] = "start"
    BY <1>3 DEF LinkPlan, LinkExecution, CallAt, TypeOK, CallsOK
  <2>3. UNCHANGED <<approval, starts, pc>>
    BY <1>3 DEF LinkPlan, LinkExecution
  <2> QED
    BY <2>1, <2>2, <2>3
<1>4. ASSUME NEW c \in Caller, ReserveStart(c) PROVE Reserved'
  <2>1. UNCHANGED <<approval, starts, pc>>
    BY <1>4 DEF ReserveStart
  <2>2. CASE Unreserved /\ execStatus = "NONE"
    <3>1. meta'.reserved /\ ~meta.reserved /\ approval = "PENDING"
      BY <1>4, <2>2 DEF ReserveStart, Unreserved, TypeOK, RequestOK, Meta
    <3>2. starts = 0 /\ \A d \in Caller : cpc[d] # "start"
      BY <3>1 DEF TypeOK, HistoryOK
    <3>3. \A d \in Caller : cpc'[d] = "start" => d = c
      BY <1>4, <2>2, <3>2 DEF ReserveStart, CallAt, TypeOK, CallsOK
    <3> QED
      BY <2>1, <3>1, <3>2, <3>3
  <2>3. CASE ~(Unreserved /\ execStatus = "NONE")
    BY <1>4, <2>1, <2>3 DEF ReserveStart, CallAt, TypeOK, CallsOK
  <2> QED
    BY <2>2, <2>3
<1>5. ASSUME NEW c \in Caller, StartWorkflow(c) PROVE Reserved'
  BY <1>5 DEF StartWorkflow, CallAt, TypeOK, CallsOK, RunsOK, HistoryOK
<1>6. ASSUME NEW a \in Approver, Decide(a) \/ DecideLate(a) \/ TellExecution(a)
      PROVE Reserved'
  BY <1>6 DEF Decide, DecideLate, TellExecution, RunAt, Decisions, TypeOK, RunsOK, Runner
<1>7. ASSUME NEW r \in Runner,
             \/ BeginRun(r) \/ Reject(r) \/ SaveExecution(r) \/ ReadApproved(r)
             \/ UpsertTasks(r) \/ SavePlan(r) \/ CrashRun(r)
      PROVE Reserved'
  BY <1>7 DEF BeginRun, Reject, SaveExecution, ReadApproved, UpsertTasks, SavePlan,
              CrashRun, AfterMaterializing, RunAt, TypeOK, RunsOK
<1>8. ASSUME NEW r \in Runner, SaveRequest(r) PROVE Reserved'
  BY <1>8 DEF SaveRequest, RunAt, TypeOK, RunsOK
<1>9. CASE CompleteTasks
  BY <1>9 DEF CompleteTasks, TypeOK, RunsOK, RequestOK, Meta
<1>10. CASE UNCHANGED vars
  BY <1>10 DEF vars
<1> QED
  BY <1>1, <1>2, <1>3, <1>4, <1>5, <1>6, <1>7, <1>8, <1>9, <1>10 DEF Next, CallStep, RunStep

\* However many calls orchestrate the same event, one workflow execution is
\* started between them.
THEOREM WorkflowStartedOnce == Spec => []OneExecution
<1>1. Reserved => OneExecution
  BY DEF Reserved, OneExecution
<1> QED
  BY <1>1, TypeCorrect, ReservedInit, ReservedStep, PTL DEF Spec
=============================================================================
