---------------------------- MODULE RevokeWorkflow ----------------------------
(***************************************************************************)
(* One execution of the certification revoke workflow.  Its first run, the *)
(* verification scheduler and the provisioning worker that finished a      *)
(* revocation all run it: a run loads the execution, marks it RUNNING,     *)
(* looks whether the access is still there, and parks the execution with a *)
(* provisioning request and a ticket, or ends it (workflowDispatcher,      *)
(* remediationVerifyScheduler, certRevokeProvisioningService, the template *)
(* cert-revoke-flow and the executor's walk of it).                        *)
(*                                                                         *)
(* Documents are saved as mongoose saves them: only changed fields, and a  *)
(* save that replaces an array only if no other such save came since the   *)
(* load.  Only a run's last save replaces arrays (runIds, stepStatuses).   *)
(* The version counter is abstracted to whether such a save came since.    *)
(*                                                                         *)
(* Not modelled: the review item's copy of the status, tickets, and the    *)
(* ITSM worker, which acts on executions with a ticketEventId; no step of  *)
(* the workflow gives an execution one.                                    *)
(***************************************************************************)
EXTENDS Naturals, FiniteSets

CONSTANTS
  Proc,      \* whoever runs the execution: ticks of any server, workers
  Initial,   \* the run that enqueueRevokeExecution starts
  Request,   \* provisioning requests, used again when they are closed
  Polling,   \* LEGACY_REMEDIATION_ENABLED: the verification scheduler is started
  MaxFaults  \* bound on crashes and failed calls

ASSUME InitialAssumption == Initial \in Proc /\ Polling \in BOOLEAN
ASSUME BoundAssumption == Request # {} /\ MaxFaults \in Nat

VARIABLES
  status,     \* status of the execution
  due,        \* its nextPollAt has passed
  found,      \* the identity's account is found, and the trigger names it
  present,    \* its entitlement view shows the access
  request,    \* each provisioning request and its task
  pc, cur,    \* where a process is, and the request it works on
  wasRunning, \* the execution was RUNNING when the run loaded it
  stale,      \* another run's last save came after this one's load
  outcome,    \* what the run is going to save
  completed,  \* history: the execution has been COMPLETED
  overlapped, \* history: a run loaded the execution during another
  faults

world   == <<found, present, request>>
locals  == <<pc, cur, wasRunning, stale, outcome>>
history == <<completed, overlapped>>
vars    == <<status, due, world, locals, history, faults>>

Terminal == {"COMPLETED", "FAILED", "SKIPPED"}
Statuses == Terminal \union {"PENDING", "RUNNING", "WAITING_ITSM"}
\* A request that is "BARE" has no task yet; the task is "QUEUED", "DONE" or
\* "GIVENUP" while the request is open.
Open     == {"BARE", "QUEUED", "DONE", "GIVENUP"}
\* What a run is going to save; a run that could not verify has a failure code of
\* its own.
Outcomes == {"COMPLETED", "FAILED", "WAITING_ITSM", "UNVERIFIED"}
Loaded   == {"begin", "verify", "find", "create", "task", "save"}
Points   == Loaded \union {"idle", "rollup", "load"}
AnyRequest == CHOOSE q \in Request : TRUE

Init ==
  /\ status = "PENDING" /\ due = FALSE
  /\ found \in BOOLEAN /\ present \in BOOLEAN /\ (present => found)
  /\ request = [q \in Request |-> "ABSENT"]
  /\ pc = [p \in Proc |-> IF p = Initial THEN "load" ELSE "idle"]
  /\ cur = [p \in Proc |-> AnyRequest]
  /\ wasRunning = [p \in Proc |-> FALSE]
  /\ stale = [p \in Proc |-> FALSE]
  /\ outcome = [p \in Proc |-> "FAILED"]
  /\ completed = FALSE /\ overlapped = FALSE
  /\ faults = 0

Goto(p, l) == pc' = [pc EXCEPT ![p] = l]

\* A process is through; it forgets what it loaded.
Forget(p) ==
  /\ Goto(p, "idle")
  /\ cur' = [cur EXCEPT ![p] = AnyRequest]
  /\ wasRunning' = [wasRunning EXCEPT ![p] = FALSE]
  /\ stale' = [stale EXCEPT ![p] = FALSE]
  /\ outcome' = [outcome EXCEPT ![p] = "FAILED"]

Fault == faults < MaxFaults /\ faults' = faults + 1

-----------------------------------------------------------------------------
(* What starts a run                                                         *)

\* remediationVerifyScheduler's find; runExecution loads the execution later.
Poll(p) ==
  /\ Polling /\ pc[p] = "idle"
  /\ status = "WAITING_ITSM" /\ due
  /\ Goto(p, "load")
  /\ UNCHANGED <<status, due, world, cur, wasRunning, stale, outcome, history, faults>>

\* The worker's task of q has succeeded: it closes the request, and runs the
\* execution whatever its status is.
TaskSucceeds(p, q) ==
  /\ pc[p] = "idle" /\ request[q] = "QUEUED"
  /\ request' = [request EXCEPT ![q] = "DONE"]
  /\ Goto(p, "rollup")
  /\ cur' = [cur EXCEPT ![p] = q]
  /\ UNCHANGED <<status, due, found, present, wasRunning, stale, outcome, history, faults>>

CloseRequest(p) ==
  /\ pc[p] = "rollup"
  /\ request' = [request EXCEPT ![cur[p]] = "ABSENT"]
  /\ Goto(p, "load")
  /\ UNCHANGED <<status, due, found, present, cur, wasRunning, stale, outcome, history, faults>>

\* A task that is given up leaves its request open.
TaskFails(q) ==
  /\ request[q] = "QUEUED"
  /\ request' = [request EXCEPT ![q] = "GIVENUP"]
  /\ UNCHANGED <<status, due, found, present, locals, history, faults>>

-----------------------------------------------------------------------------
(* runExecution                                                              *)

Load(p) ==
  /\ pc[p] = "load"
  /\ wasRunning' = [wasRunning EXCEPT ![p] = status = "RUNNING"]
  /\ overlapped' = (overlapped \/ \E o \in Proc \ {p} : pc[o] \in Loaded)
  /\ Goto(p, "begin")
  /\ UNCHANGED <<status, due, world, cur, stale, outcome, completed, faults>>

\* A save that replaces an array: refused if another came since the load, else it
\* makes the other loaded copies stale.
CanSave(p) == ~stale[p]
Supersede(p) ==
  stale' = [o \in Proc |-> IF o = p THEN FALSE ELSE stale[o] \/ pc[o] \in Loaded]

\* The save of RUNNING, which replaces no array and changes nothing if the
\* execution was RUNNING already.
Begin(p) ==
  /\ pc[p] = "begin"
  /\ status' = IF wasRunning[p] THEN status ELSE "RUNNING"
  /\ Goto(p, "verify")
  /\ UNCHANGED <<due, world, cur, wasRunning, stale, outcome, history, faults>>

\* The workflow's definition is gone.
WorkflowMissingCancelled(p) ==  \* bug: a status the execution's model does not have
  /\ pc[p] = "begin"
  /\ status' = "CANCELLED"
  /\ Forget(p)
  /\ UNCHANGED <<due, world, history, faults>>

WorkflowMissing(p) ==
  /\ pc[p] = "begin"
  /\ status' = "FAILED"
  /\ Forget(p)
  /\ UNCHANGED <<due, world, history, faults>>

\* The workflow is disabled; stepStatuses is replaced.
WorkflowDisabled(p) ==
  /\ pc[p] = "begin"
  /\ IF CanSave(p) THEN status' = "SKIPPED" /\ Supersede(p)
     ELSE UNCHANGED status /\ stale' = [stale EXCEPT ![p] = FALSE]
  /\ Goto(p, "idle")
  /\ cur' = [cur EXCEPT ![p] = AnyRequest]
  /\ wasRunning' = [wasRunning EXCEPT ![p] = FALSE]
  /\ UNCHANGED <<due, world, outcome, history, faults>>

\* The account is not found, every time, or looking it up fails, this time.
CannotVerify ==
  /\ ~found \/ faults < MaxFaults
  /\ faults' = IF found THEN faults + 1 ELSE faults

\* VerifyAccessRemoved: still present; removed, and the mails are sent or a mail
\* fails and the run with it; or verification has failed.
VerifyPresumed(p) ==  \* bug: a failed verification takes the branch "removed"
  /\ pc[p] = "verify"
  /\ \/ present /\ Goto(p, "find") /\ UNCHANGED <<outcome, faults>>
     \/ /\ (found /\ ~present /\ UNCHANGED faults) \/ CannotVerify
        /\ Goto(p, "save")
        /\ \E o \in {"COMPLETED", "FAILED"} : outcome' = [outcome EXCEPT ![p] = o]
  /\ UNCHANGED <<status, due, world, cur, wasRunning, stale, history>>

Verify(p) ==
  /\ pc[p] = "verify"
  /\ \/ present /\ Goto(p, "find") /\ UNCHANGED <<outcome, faults>>
     \/ /\ found /\ ~present
        /\ Goto(p, "save")
        /\ \E o \in {"COMPLETED", "FAILED"} : outcome' = [outcome EXCEPT ![p] = o]
        /\ UNCHANGED faults
     \/ /\ CannotVerify
        /\ Goto(p, "save") /\ outcome' = [outcome EXCEPT ![p] = "UNVERIFIED"]
  /\ UNCHANGED <<status, due, world, cur, wasRunning, stale, history>>

\* enqueueCertRevokeProvisioning looks for an open request of the execution; when
\* there is one, or the step fails, the run goes on and parks.
IsOpenStarted(q) == request[q] \in Open \ {"BARE", "QUEUED"}  \* bug: PENDING forgotten

IsOpen(q) == request[q] \in Open

FindRequest(p) ==
  /\ pc[p] = "find"
  /\ \/ /\ \E q \in Request : IsOpen(q)
        /\ Goto(p, "save") /\ outcome' = [outcome EXCEPT ![p] = "WAITING_ITSM"]
        /\ UNCHANGED faults
     \/ /\ \A q \in Request : ~IsOpen(q)
        /\ Goto(p, "create")
        /\ UNCHANGED <<outcome, faults>>
     \/ /\ Fault
        /\ Goto(p, "save") /\ outcome' = [outcome EXCEPT ![p] = "WAITING_ITSM"]
  /\ UNCHANGED <<status, due, world, cur, wasRunning, stale, history>>

CreateRequest(p) ==
  /\ pc[p] = "create"
  /\ \E q \in Request :
       /\ request[q] = "ABSENT"
       /\ request' = [request EXCEPT ![q] = "BARE"]
       /\ cur' = [cur EXCEPT ![p] = q]
  /\ Goto(p, "task")
  /\ UNCHANGED <<status, due, found, present, wasRunning, stale, outcome, history, faults>>

\* The request's plan and task are created, or that fails and the step with it.
CreateTask(p) ==
  /\ pc[p] = "task"
  /\ \/ request' = [request EXCEPT ![cur[p]] = "QUEUED"] /\ UNCHANGED faults
     \/ Fault /\ UNCHANGED request
  /\ Goto(p, "save")
  /\ outcome' = [outcome EXCEPT ![p] = "WAITING_ITSM"]
  /\ UNCHANGED <<status, due, found, present, cur, wasRunning, stale, history>>

\* The run's last save.  A version error leaves the execution as it is, and so does
\* its validation when the run could not verify: VERIFY_FAILED is no value of the
\* model's failureReasonCode, and the save throws.
SaveAnyVersion(p) ==  \* bug: the save does not ask for the version it loaded
  /\ pc[p] = "save"
  /\ IF outcome[p] # "UNVERIFIED"
     THEN /\ status' = outcome[p] /\ due' = FALSE
          /\ completed' = (completed \/ outcome[p] = "COMPLETED")
     ELSE UNCHANGED <<status, due, completed>>
  /\ Forget(p)
  /\ UNCHANGED <<world, overlapped, faults>>

Save(p) ==
  /\ pc[p] = "save"
  /\ IF CanSave(p) /\ outcome[p] # "UNVERIFIED"
     THEN /\ status' = outcome[p] /\ due' = FALSE
          /\ completed' = (completed \/ outcome[p] = "COMPLETED")
          /\ Supersede(p)
     ELSE /\ stale' = [stale EXCEPT ![p] = FALSE]
          /\ UNCHANGED <<status, due, completed>>
  /\ Goto(p, "idle")
  /\ cur' = [cur EXCEPT ![p] = AnyRequest]
  /\ wasRunning' = [wasRunning EXCEPT ![p] = FALSE]
  /\ outcome' = [outcome EXCEPT ![p] = "FAILED"]
  /\ UNCHANGED <<world, overlapped, faults>>

\* The process dies, or a call of the run throws.
Crash(p) ==
  /\ pc[p] # "idle"
  /\ Fault
  /\ Forget(p)
  /\ UNCHANGED <<status, due, world, history>>

\* Outside: a parked execution's nextPollAt passes; the access is removed, by a
\* task's connector or by hand, and an aggregation brings it into the view; or the
\* whole account goes.
BecomeDueNever ==  \* bug: parking does not set nextPollAt
  status = "WAITING_ITSM" /\ due /\ UNCHANGED vars

BecomeDue ==
  /\ status = "WAITING_ITSM" /\ ~due
  /\ due' = TRUE
  /\ UNCHANGED <<status, world, locals, history, faults>>

AccessRemoved ==
  /\ present /\ present' = FALSE
  /\ UNCHANGED <<status, due, found, request, locals, history, faults>>

AccountRemoved ==
  /\ found /\ found' = FALSE
  /\ present' = FALSE
  /\ UNCHANGED <<status, due, request, locals, history, faults>>

-----------------------------------------------------------------------------
Step(p) ==
  \/ CloseRequest(p) \/ Load(p) \/ Begin(p) \/ WorkflowMissing(p) \/ WorkflowDisabled(p)
  \/ Verify(p) \/ FindRequest(p) \/ CreateRequest(p) \/ CreateTask(p) \/ Save(p)

Next ==
  \/ \E p \in Proc : Poll(p) \/ Step(p) \/ Crash(p) \/ \E q \in Request : TaskSucceeds(p, q)
  \/ \E q \in Request : TaskFails(q)
  \/ BecomeDue \/ AccessRemoved \/ AccountRemoved

Spec == Init /\ [][Next]_vars

\* Time passes, the scheduler polls if it is started at all (Polling), and a run
\* that has begun goes on.
Fairness ==
  /\ \A p \in Proc : WF_vars(Poll(p)) /\ WF_vars(Step(p))
  /\ WF_vars(BecomeDue)

FairSpec == Spec /\ Fairness

-----------------------------------------------------------------------------
(* Properties                                                                *)

TypeOK ==
  /\ status \in Statuses
  /\ due \in BOOLEAN /\ found \in BOOLEAN /\ present \in BOOLEAN
  /\ request \in [Request -> Open \union {"ABSENT"}]
  /\ pc \in [Proc -> Points]
  /\ cur \in [Proc -> Request]
  /\ wasRunning \in [Proc -> BOOLEAN]
  /\ stale \in [Proc -> BOOLEAN]
  /\ outcome \in [Proc -> Outcomes]
  /\ completed \in BOOLEAN /\ overlapped \in BOOLEAN
  /\ faults \in 0..MaxFaults

\* An execution is COMPLETED only when the access is gone, whatever runs overlap
\* and whatever fails (the branches after VerifyAccessRemoved).
CompletedMeansRemoved == completed => ~present

\* An execution that has been completed, its user told, is never parked again by a
\* run that looked before the removal and saves after it (the version condition of
\* runExecution's last save).
NotParkedAgain == completed => status # "WAITING_ITSM"

\* Unless runs overlap, an execution has one open provisioning request at a time,
\* through crashes between the request and its task
\* (enqueueCertRevokeProvisioning: "Idempotent per execution").
OneOpenRequest ==
  overlapped \/ Cardinality({q \in Request : request[q] \in Open}) <= 1

\* Once the access is gone the execution ends, if the scheduler is started, the
\* account is still found, and no run failed or overlapped another
\* (remediationVerifyScheduler).  Where the account is not found no run verifies
\* and none is saved: the execution is left RUNNING.
RemovalSettles ==
  []found => (~present ~> (status \in Terminal \/ faults > 0 \/ overlapped))

\* remediationVerifyScheduler: "access now removed: the run completes", for an
\* account that is found.
RemovalIsNoticed == []found => (~present ~> status \in Terminal)
=============================================================================
