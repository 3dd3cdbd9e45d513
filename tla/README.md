# Verification of the lifecycle, provisioning and revocation pipeline of ICM / ADShield

This directory holds TLA+ models of the part of the backend that must be right
while several servers, timers and people act at once: the path a joiner, mover
or leaver takes from a change in the source to *tasks carried out on target
systems*, and the path of a reviewer's decision to access that is *revoked*.
Paths below are relative to `icm-backend/src/`.

    source rows --refresh--> identity --detect--> events   (LifecycleDetection)
                                                    |
                                lifecycle_events, worker   (LifecycleQueue)
                                                    | handler
                                                    v
                               request, plan, approval     (PlanApproval)
                                                    | approved
                                                    v
                               provisioning tasks, worker  (ProvisioningTasks)
                                                    | all done
                                                    v
                               resumed workflow run -----> PlanApproval again

    reviewers' decisions on a campaign                     (CertificationCampaign)
        | revoked
        v
    revocation tasks, scheduler's runs, operators          (WorkflowTaskQueue)
        | starts
        v
    execution of the revoke workflow, re-verification      (RevokeWorkflow)
        | request with one task
        v
    the worker of ProvisioningTasks

All of it is Node.js over MongoDB: within a process only `await` interleaves,
and between processes only single-document writes are atomic. Hence the grain
of every model: **one database write (with the read that is atomic with it) is
one action**; what a function read before an `await` and uses after it is a
variable of its own.

## Components

| component | state | operations | hard behaviour | correct means |
|---|---|---|---|---|
| Event queue and worker (`services/lifecycle`) | `lifecycle_events` rows, one `DistributedLock` | enqueue, claim, recover stale, promote scheduled, defer, complete, fail | two servers, lock and claim expiry, crash between claim and completion | one tick at a time; nothing closed unhandled; every event settles |
| Orchestration, approval, run (`services/provisioning/{genericLifecycleOrchestration,provisioningPlanCompiler,lifecycleWorkflow,taskMaterialization}Service.js`, `workflows/`) | request, plan, workflow execution | find/create, compile, persist, link, reserve, start, decide, run, materialize, reject, resume | duplicate orchestration, approval racing the start, runs that are not awaited | no task without approval; one workflow; the decision stands and takes effect |
| Task worker (`provisioningWorker.js`, `taskMaterializationService.js`) | tasks, results, request and plan rollup, resume gate | examine, claim, execute, retry, complete, count, roll up, resume, materialize | overlapping ticks and API calls, counts that go stale, whole-document saves | each operation once; prerequisites first; bounded retries; one resume |
| Lifecycle detection, identity refresh (`lifecycleDetectionService.js`, `identityProfileRefreshService.js`, `hrmsIdentitySyncService.js`) | identities | prefetch, write in bulk or row by row, compare, enqueue, write a leaver back | overlapping refreshes, a swallowed enqueue failure, the leaver handler between read and write | every transition reported; access follows the source |
| Revocation task queue, job scheduler (`services/workflowTaskQueue`, `services/scheduler`) | tasks, lock with time to live, configuration | create, pick up, start, launch, retry, complete, cancel; lock, run, reschedule | a crashed run's lock, operators beside the scheduler, copies read long ago | one run at a time; a task started once; every task started |
| Dispatcher, verification scheduler, certification requests (`services/workflow`, `certRevokeProvisioningService.js`) | execution, request, task | run, verify, request, park, complete, poll | runs that overlap on versioned and unversioned saves | COMPLETED only when removed; stays so; one open request |
| Workflow engine (`workflows/engine`) | executions, what each node returned | start, walk, wait, resume | resume racing a run | every node once per visit |
| Access certification (`services/access-certification`) | campaigns, review items | decide, sweep, override, recount, extend, close, expire | recounts and saves that overlap, sweeps over copies | locked means decided; what is revoked, and only that, is queued |
| Remediation events, remediation queue | queue rows | ingest, trigger, assign, close | duplicated ingestion | each item handled once |
| Reconciliation, AD and CSV sync | snapshots, accounts | capture, compare, promote | a second run during the first | delta is exact |
| Sessions, MFA, API keys; licensing | sessions, licence state | issue, refresh, revoke; load, verify | refresh racing revoke | revoked stays revoked |
| Security, posture, graph, hygiene, discovery, governance, SoD, reports | derived documents | aggregate | none of their own | pure computation |
| Connectors, mail, HRMS, tickets; HTTP layer; ADShield (C#); frontend, installer, scripts | – | input and output | failing calls | – |

The first eight are modelled, wholly or in part; `PROJECT.json` says what each
model leaves out and gives the reason for every component without one.

## Plan

1. `LifecycleQueue`, its abstract specification `EventLedger`, proofs. *Done.*
2. `PlanApproval`, proofs. *Done.*
3. `ProvisioningTasks`, its abstract specification `OperationLedger`, proofs.
   *Done.*
4. `LifecycleDetection`: refreshes, transition rules, events, the leaver handler
   and promotion over one identity; proofs. *Done.*
5. `WorkflowTaskQueue`: the job scheduler's lock and the revocation tasks;
   proofs. *Done.*
6. `RevokeWorkflow`: executions that are parked and verified again; proofs. *Done.*
7. `CertificationCampaign`: decisions and what they complete and queue; proofs.
   *Done.*
8. Left: `ProvisioningTasks` shown to implement the step `CompleteTasks` that
   stands for it in `PlanApproval`; the walk of an arbitrary workflow graph;
   sessions.

## Modules

### LifecycleQueue, EventLedger

`status`, `retry`, `due`, `claimed`, `stale` are the fields of the rows
(`eventStatus`, `retryCount`, `nextAttemptAt` passed, `claimedAt` set and older
than the stale limit); `lockBy`, `lockExpired` the lock document; `pc`, `cur`,
`rows`, ... the local variables of each *tick*. A tick belongs to a process,
because the lock names the process (`lifecycleEventWorker.js:21-57`), not the
tick. A tick runs `AcquireLock`, `RecoverRead`/`RecoverWrite`,
`PromoteRead`/`PromoteEnqueue`/`PromoteClose`, `FindClaimable`, then for each
row `Claim`, `CheckBlocking`, `Defer` or `Handle`, `MarkCompleted` or
`MarkFailedRead`/`MarkFailedSave`, and `ReleaseLock`. `CallFails` is any
database call that throws, `Crash` the death of a process. Time is abstracted to
"due", "stale" and "expired"; while `MaxOverruns = 0` a claim does not go stale
nor a lock expire under a tick that is still at work, which is what the 5 minute
and 55 second limits intend; the overruns lift that. What a handler does is the
single step `Handle`, which may fail; the branch that waits for a joiner request
(`lifecycleEventProcessor.js:146-165`) is never taken for a claimed row and is
left out.

`EventLedger` is what the queue promises: an event arrives, is taken, and is
finished, given back with one try more, or buried when its tries are used up; a
scheduled termination may instead be closed by promotion. The refinement maps
rows to ledger entries.

### PlanApproval

One lifecycle event's request: `approval`, `reqStatus`, `meta` are the
`ProvisioningRequest`; `planHash`, `planStatus`, `materialized` the
`ProvisioningPlan`; `execStatus`, `decision` the workflow execution. Callers are
calls of `startGenericPlanOrchestration` (the queue retries handlers, so there
can be several), approvers are calls of `decideLifecycleApproval`, and *runners*
are whoever materializes: the first run, started without `await` at
`lifecycleWorkflowService.js:148`, the run an approver resumes, and the run the
task worker resumes. A plan is its compilation hash. Abstractions, none of which
hides a write: the lookup of the execution is merged with the read of the plan;
the reservation's lookup with the reservation; `decideLifecycleApproval`'s first
read (used for its error message) with its claim; of the joiner approval graph
only the trigger, the wait, the check, materialization and rejection remain; the
task worker is the one step `CompleteTasks`. A rejected request would be followed
by a new one, which is another instance. The single-task path taken by requests
without a generic plan is not modelled; the locked plan states PARTIAL and
FAILED cannot arise here.

### ProvisioningTasks, OperationLedger

The tasks of one approved request. `task`, `retry`, `due` are the row,
`succeeded` says that a successful `ProvisioningResult` exists, `resumed` is the
resume gate in the request's metadata. Workers are any callers of `processTask`.
`Execute` is the connector call with its verification; what a call that is
reported failed has done to the target is the connector's business. The two
counts of the rollup are one step, as are an update and the read of its result.
A resumed run materializes the plan again before it ends. Not modelled: tasks
SKIPPED because their request was cancelled later, the missing connector (no
state changes), certification revokes, and post-create reconciliation.
`InOrder = TRUE` says that the server applies the `{ordered: false}` bulk write
in plan order, as a single server does; the code does not ask for it.

`OperationLedger` is what an approved request promises of its operations: each is
asked for once, started when those it requires are done, called for, and done or
given up for good; a refused call costs a try. The refinement splits a RUNNING
task by what its row does not show: whether the call is still to come
(`started`), was answered (`carriedOut`) or failed (`refused`). Workers, due
times, results, rollups, the resume gate and repeated materialization are hidden.
What an operation requires is `DependsOn` if `InOrder`, else nothing.

### LifecycleDetection

One identity. `Sync` are processes that refresh it; a run takes the *bulk*, the
*sequential* or the *HRMS* path of the code, and its locals are the source's
`row`, the copies `before`, `existing`, `after` and the events it has still to
store, `todo`. `Detect` translates `detectIdentityLifecycleChanges`; the end
dates are set by `PipelineEnd` (evaluated by the server on the document it
updates) and `DerivedEnd` (decided on a copy). `open` and `scheduled` are the
stored events: `Promote` is one step here, because `LifecycleQueue` has its
steps, and an event is handled only if no open one has a higher priority. The
leaver handler is two steps, `LeaverRead` and `LeaverWrite`; `JOINER`, `REHIRE`
and `MOVER` handlers are one. `UpdateIdentity` is an edit through the API.

The remaining variables are history: `hr`, what the source last said; `owed`,
the event that a change of it calls for; `access`, what the handled events ask
for; `clean`, that so far no call failed, nobody edited and no run wrote beside
another run or between the leaver handler's read and write; `crossed`, that a
run wrote over unhandled events or an end date it kept unseen. They are reset
when `clean` ends.

Left out: mapping and matching of rows, a row that fails twice in the fallback,
and attribute facts, which are stored as COMPLETED and never handled.

### WorkflowTaskQueue

The revocation tasks of a tenant. `status` and `started` (`executionStartedAt`)
are the task, `revoked` the review item it is for, `lock` the scheduler's lock
document, `enabled` and `due` its configuration. `Run` are runs of the
scheduler, triggered by a poll or by `runNow`; `Operator` are requests that
create, launch, retry, complete or cancel a task beside it. The lock is created
with a time to live and deleted by name of the tenant alone, so a run that has
outlived it would delete another's; `MaxOverruns` bounds such runs. What a
workflow does is the outcome it ends with, which is written over whatever the
task has become. Completion is two writes: `Close` of the task, and `Certify`,
which marks the review item, or finds it gone, without the entitlement or decided
otherwise and marks nothing, or is refused by the item's version and throws
(`Thrown`: a run then records the task as FAILED). `closed` is history. Left out: tasks that review orphan accounts, the log of
executions, queries.

### RevokeWorkflow

One execution of the certification revoke workflow. `status`, `due` are the
execution, `found` says that the identity's account is found at all and that the
trigger names it, `present` that it still shows the access, `request` are the
provisioning requests, each with its task. A process loads the
execution, marks it RUNNING, verifies, finds or creates a request and its task,
and saves. Mongoose saves only changed fields, and asks for the loaded version
only when an array is replaced; `stale` abstracts the version. Only a run's last
save replaces arrays (`runIds`, `stepStatuses`), so `Begin`'s is unconditional and
`Save`'s is refused when `stale`. It is refused as well when the run could not
verify: the dispatcher then sets `failureReasonCode` to VERIFY_FAILED
(`workflowDispatcher.js:36-44, 369-372`), which the schema's enum
(`RemediationWorkflowExecution.js:69-79`) does not know. A verification fails
whenever the account is not found, and may fail otherwise (a bounded fault).
`Polling` says whether the verification scheduler is started. The runs of a finished task
(`provisioningWorker.js`) load the execution whatever its status. Left out: the
review item's copy of the status, tickets, and `itsmWaitWorker`, which acts on
executions with a `ticketEventId`: no step of the workflow sets one.

### CertificationCampaign

One campaign from Active (or Draft, for every earlier status) on. `item`, `ent`
are the review items and the entitlements decided on their own; `status`,
`mailed`, `listed` the campaign; `reviewer` whose each item is; `queued` the
entitlements for which a task exists in `WorkflowTaskQueue`. A request is a decision of a reviewer on
items or one entitlement, a sweep (bulk, finalize, close, the expiry job), or an
extension; its locals are the job, the items it has still to write, the
entitlements it found pending, the campaign as loaded (`seen`) and whether its
version has moved (`stale`). An item's decision is a single conditional update;
sweeps write back copies. Decisions on items, overrides and the roll-up of
entitlements make whoever decides the item's reviewer (`Hand`); a bulk finds its
items by reviewer, and looks for them again by reviewer when it queues
(`Find`, `Queue`). A revocation gets a task only if a workflow is mapped to it
(`Enqueue`). The due date may pass at any time. Saving the campaign writes changed fields; pushing to
its history moves the version without asking for it, saving the reviewers'
counts or closing asks for it, expiry writes by id. REVOKED counts as
REVOKE_IN_PROGRESS, DELEGATED and EXCEPTION as APPROVED. `ForceLocked` is an
administrator's status change. Left out: creation, activation and the filling
with items, reassignment, tasks for whole items, counters, reminders,
escalation, mails, audit, and what `updateCampaignProgress`
(`certificationDecisionService.js:228-249`) ingests into the two remediation
queues, and launches, when it has completed a campaign.

## Runs

| run | instance | checks |
|---|---|---|
| `queue_exclusive` | 2 servers with one tick each, one identity with a joiner, a scheduled termination and the leaver it becomes; 1 retry, batches of 2, 2 faults | `TypeOK`, `OneTickAtATime`, `ClaimHeld`, `CompletedWasHandled`, `PromotionNotLost`, `NoOvertaking`, `ImplementsLedger`, `EveryEventSettles`, `ScheduledTerminationSettles` |
| `approval_safety` | 2 callers, 2 approvers, 2 plan contents, 1 crash | `TypeOK`, `TasksNeedApproval`, `OneExecution`, `DecisionAgrees` |
| `approval_live` | 2 callers, 1 approver, no crash | `ApprovalTakesEffect` |
| `approval_reversal` | 1 caller, 1 approver | `DecisionIsFinal` is violated |
| `tasks` | 2 tasks, one depending on the other, 2 workers, 1 retry, 1 fault | `TypeOK`, `PerformedOnce`, `GivenUpAfterRetries`, `DependenciesFirst`, `ImplementsOperations`, `EveryTaskSettles` |
| `tasks_resume` | the same without faults | `ResumedOnce` is violated |
| `detection_notice` | 2 processes, 3 runs over all paths, lives ACTIVE and TERMINATED, 2 departments, dates up to 1, 1 failure or edit | `TypeOK`, `TransitionsNoticed`, `AccessFollowsSource`, `PromotionYieldsLeaver` |
| `taskqueue_scheduler` | 2 tasks of 2 items, 2 runs, 1 operator, batches of 1, 3 requests, 1 fault | `TypeOK`, `OneRunAtATime`, `StartedOnceByScheduler`, `EveryTaskStarts`, `CertifiedWasClosed` |
| `revoke_verify` | 2 processes, 2 requests, 2 faults, the scheduler started | `TypeOK`, `CompletedMeansRemoved`, `NotParkedAgain`, `OneOpenRequest`, `RemovalSettles` |
| `revoke_stuck` | the same without faults | `RemovalIsNoticed` is violated |
| `cert_review` | 2 items of 2 reviewers, one with 2 entitlements; 2 requests at a time and altogether, 1 fault | `TypeOK`, `LockedMeansDecided`, `QueuedIsRevoked`, `AllDecidedCompletes`, `RevocationIsQueued` |
| `cert_endphase` | the same items; 2 requests, one after the other, no fault | `EndPhaseNeedsOwner` is violated |

**Bounds.** Two of everything that competes (servers, ticks, callers,
approvers, workers, processes, requests) is the least at which a race exists, and
the code has no rule that tells a third from a second. Three events give one that
blocks, one that is blocked and one that turns into another; a batch of 2 leaves
one event out of a batch. One retry makes first attempt, retry and giving up
distinct (the code has 5 and 3). One fault separates every pair of adjacent
steps by a crash; two let a recovery fail as well. Three refreshes are a joiner,
a departure and a return; a date of 1 is in the future and then past. Three
requests of an operator create two tasks and act on one. Two requests on a
campaign overlap at every point. `MaxFaults`, `MaxTroubles` and
`MaxOverruns` bound the environment, never the program; `MaxRuns` and
`MaxRequests` bound how often it is called. `MaxOverruns` is 0 in the runs: that
`CompletedWasHandled` and `PromotionNotLost` survive ticks that outlive their
lock is what the theorems show. The theorems below hold without any of these
bounds.

**Symmetry** is used for callers, approvers, plan contents and refreshing
processes, in runs without liveness properties only.

**Deadlock** is checked for the queue, which polls for ever. Everything else
comes to an end: a request and its tasks are settled, an execution has ended,
all refreshes are done, the scheduler is disabled and nobody asks for more.

**Fairness.** The queue's timer fires for ever (`setInterval`,
`lifecycleEventWorker.js:87-104`), an `await` that does not fail returns, locks
expire by their time to live, dates come. So each tick's next step, expiry and
due dates are weakly fair; faults are not. For requests, every call and run that
has begun goes on; nobody is obliged to decide. For tasks, a tick visits every due
task it finds, also when other workers make it due and not due in between, hence
strong fairness of examining a due task; failures of a connector are bounded by
the retries, not by fairness. For the scheduler and the verification scheduler:
polls, the steps of what has begun, the passing of time and the lock's expiry;
nobody has to call, change the configuration or remove an access. The
verification scheduler polls only where `LEGACY_REMEDIATION_ENABLED` is set
(`Polling = TRUE` in the runs); its default is false (`config/env.js:240-241`,
`server.js:464-481`), and then only the first run and the runs of the provisioning
worker, which is started either way, look at an execution: with `Polling = FALSE`
an access that is removed by hand is noticed only if a task of the execution
succeeds later. For a campaign
only the steps of a request that has begun. Detection has no liveness: what it
loses it loses for good. Liveness of requests, tasks and decisions is claimed
where nothing crashes, because the code has no recovery there (see the hazards).

## What the runs showed

Four statements in comments of the repository do not hold of the code in every
interleaving. Each is a finding with a run whose counterexample is a schedule:

1. **A decision can be reversed** (`approval_reversal`;
   `lifecycleWorkflowService.js:240`). An approver decides after the workflow has
   been started and before the request is linked to it, so the workflow is not
   told: the approver materializes the plan, the task worker carries it out and
   resumes the workflow, and that run, which finds no decision, takes it for a
   rejection and saves REJECTED over the completed request, without a guard.
2. **The workflow can be resumed twice** (`tasks_resume`;
   `provisioningWorker.js:134,161`). The gate is part of metadata that
   materialization writes back whole.
3. **An execution can stay RUNNING for ever** (`revoke_stuck`;
   `remediationVerifyScheduler.js:9`). One run's save of RUNNING overwrites the
   end that the other has saved, and its own last save is then refused.
4. **A campaign in its end phase completes without its owner** (`cert_endphase`;
   `jobs/certificationScheduler.js:513`). Reviewers may still decide, and the
   recount after the last decision completes a campaign whatever its status.

Other behaviour that the models reach, recorded under the hazards:

* *Queue.* When a tick outlives its claim, its late completion, failure or
  deferral, written by `_id` alone, reopens a settled event.
* *Requests and tasks.* A plan can be overwritten although it was locked in
  between; an approval that comes before the plan is linked has no effect; a
  request can be rolled up before all its tasks exist, or be moved back to
  IN_PROGRESS by materialization's save; with `InOrder = FALSE` a dependent task
  can run before its prerequisite's row exists.
* *Detection.* A failed enqueue is swallowed and the transition lost; a failed
  prefetch makes every identity a JOINER; overlapping refreshes lose transitions,
  and so does a return from QUARANTINE during a leaver's handling. HRMS keeps an
  end date that has passed, so a return is a REHIRE and a LEAVER at once, and
  priority decides. A person first seen as TERMINATED is a JOINER only. An edit
  through the API enqueues nothing.
* *Task queue.* A cancellation that races the pickup is overwritten by the
  workflow's end; a task launched by an operator while a run holds its copy is
  started by both.
* *Revocation.* Each re-verification of an access that is still there opens
  another ticket (`handlers.js:837`); a request completed before the access is
  aggregated is followed by a second one; a task that was given up leaves its
  request open, to be found again for ever. A mail that fails ends the execution FAILED;
  a crash leaves it RUNNING, and so does a failed verification, whose code
  VERIFY_FAILED is missing from the schema's enum: for an account that is not
  found, or a trigger without the identity's mail, that is every run.
* *Certification.* A sweep overwrites decisions made since its find; a refused
  save of the reviewers' counts fails the request before it queues the
  revocation; a bulk that revokes items somebody else decides before its last step
  queues nothing for them (remove `ItemOf[e] \in moved` from `RevocationIsQueued`
  and TLC shows it, without fault, refusal or overwrite); without a mapped workflow
  a revocation has no task; expiry and extension, which save what they read, reopen a completed
  campaign; the roll-up of entitlements makes an item APPROVED that was
  REVOKE_IN_PROGRESS.

## Proofs

Checked by TLAPS for all values of the constants that satisfy the named
assumptions of each module (non-empty sets, event kinds of the source and a
leaver for every scheduled termination, process names that differ, natural
bounds, prerequisites that precede their dependents in plan order). Each
invariant is shown to hold initially, to be kept by every step, and to imply the
property; the step lemmas have a case for every action.

* `LifecycleQueueProofs`
  - `TypeCorrect`.
  - `NothingClosedUnhandled`, `PromotionsAreKept`: `CompletedWasHandled` and
    `PromotionNotLost`, overruns included. The invariant `ClosedInv` adds what a
    tick at each point knows: whoever is about to complete an event has handled
    it, and whoever is about to close a scheduled termination has its leaver's
    row in existence.
  - `TicksAreExclusive`, `ClaimsAreHeld`: `OneTickAtATime` and `ClaimHeld` when
    `MaxOverruns = 0`. `ExclusiveInv` adds that every tick at work belongs to the
    process that holds an unexpired lock. The assumption is needed: with overruns
    TLC finds two ticks at work.
  - `QueueImplementsLedger`, `NobodyOvertakes`: `ImplementsLedger` and
    `NoOvertaking`, when `MaxOverruns = 0` (an overrun's late write reopens a
    settled event, which the ledger forbids). `LedgerInv` adds to the two invariants
    above that what a tick has read is still so when it writes (`Fresh`: retry
    counts, statuses, and, while a handler runs, that every event outranking it
    arrived after the look) and that retries are used up by FAILED events only
    (`Within`). `OneMove` shows that a step of the queue moves one event or none,
    in one of five ways, and `MoveInLedger` that each of them is an action of the
    ledger.
* `PlanApprovalProofs`
  - `TypeCorrect`.
  - `NoTasksWithoutApproval`, `WorkflowFollowsDecision`: `TasksNeedApproval` and
    `DecisionAgrees`. The invariant `Approved` says what each value of
    `approvalStatus` implies of the decision, and that nobody reaches
    materialization without an approval.
  - `WorkflowStartedOnce`: `OneExecution`. The reservation is metadata and could be
    written back by a stale materialization; `Reserved` says that until the request
    is decided nobody holds such a copy, and that afterwards nobody can reserve.
* `ProvisioningTasksProofs`
  - `TypeCorrect`.
  - `OperationsOnce`, `RetriesAreBounded`: `PerformedOnce` and
    `GivenUpAfterRetries`. `Owned` says that a RUNNING task has at most one owner,
    and relates `retryCount` to the calls made at each status and each point of the
    owner.
  - `PrerequisitesFirst`: `DependenciesFirst` when `InOrder`. `Ordered` says that a
    row has its prerequisites' rows beside it and that whoever is past the test
    found them COMPLETED, which is stable.
  - `TasksImplementLedger`: `ImplementsOperations`, from `Owned` and, if `InOrder`,
    `Ordered`. One lemma for each step that the ledger sees (claim, call, retry or
    giving up, close, upsert); all others stutter, the look at a task with a
    successful result among them, because that task is COMPLETED already.
* `LifecycleDetectionProofs`
  - `TypeCorrect`, strengthened by what a run knows of its copies at each point.
  - `ChangesAreReported`: `TransitionsNoticed` where every life is plainly in or out
    (`PlainStates`: not QUARANTINE, which is neither, nor LEAVER, which alone makes
    no leaver). `Noticing` says that while `clean` the document shows what the
    source said, that runs and the handler hold its present life, and that what is
    owed will be found by the comparison of a run or is among what it stores.
  - `AccessFollows`: `AccessFollowsSource`, under the same assumption. `Following`
    says where access is on its way: while the source says "in" no departure is
    open, scheduled, to be stored or being handled, and access is on or an arrival
    is coming (`Welcome`); while it says "out" nothing but departures is left, and
    access is off or a departure is coming (`Farewell`).
  - `PromotionsLeave`: `PromotionYieldsLeaver`, if no life is LEAVER or nothing goes
    wrong (`MaxTroubles = 0`). `Numbered` says that no event or run has the number
    of another run's departure, so that the promoted event cannot fold into one
    that is open; `DateChanged` that a departure is scheduled only with a new end
    date, so that the promotion sees a difference. In the state LEAVER an edit can
    make somebody active again without touching the date, and it sees none.
* `WorkflowTaskQueueProofs`
  - `TypeCorrect`.
  - `RunsAreExclusive`, `SchedulerStartsOnce`: `OneRunAtATime` and
    `StartedOnceByScheduler` when `MaxOverruns = 0`. `StartsInv` says that
    what the scheduler has started is marked so, that what a run has found and not
    executed it has never started, and that only a run inside the lock holds any.
  - `CertifiedOnlyClosed`: `CertifiedWasClosed`, overruns included. `CertifyInv`
    says that whoever is about to mark an item has closed its task.
* `RevokeWorkflowProofs`
  - `TypeCorrect`.
  - `CompletionIsTrue`: `CompletedMeansRemoved`. `DecisionInv`: only a run that has
    verified the removal holds COMPLETED as its outcome, and a removed access does
    not come back.
  - `CompletionSticks`: `NotParkedAgain`. `ParkingIsStale`: once the execution has
    been completed, every run that is about to park it loaded an older version.
  - `RequestsAreSingle`: `OneOpenRequest`. `RequestInv`: without overlap one process
    at a time is past its load, and it creates a request only when none is open.
* `CertificationCampaignProofs`
  - `TypeCorrect`.
  - `LockIsJustified`: `LockedMeansDecided`. `LockInv` ties each operation to the
    points it can be at (`Route`) and says what a request has covered there
    (`Covered`): whoever is about to lock the campaign counted nothing pending, or
    has decided whatever was; a decided item stays decided.
  - `QueueIsRevoked`: `QueuedIsRevoked`. `RevokeInv` says that a request on its way
    to the queue carries an entitlement that is still revoked, or that a sweep has
    overwritten (`Carried`).

Every invariant and action property that the passing runs check is the subject
of a theorem, and so are both refinements. Only model-checked are the properties under
fairness (`EveryEventSettles`, `ScheduledTerminationSettles`,
`ApprovalTakesEffect`, `EveryTaskSettles`, `EveryTaskStarts`,
`RemovalSettles`, `AllDecidedCompletes`,
`RevocationIsQueued`): liveness and ENABLED are out of the prover's reach, as are
induction over data and RECURSIVE operators, of which the modules have none.

## Not modelled

`PROJECT.json` gives the reason for every component. Nearly all of the
repository is outside a state machine of its own: the user interface, LDAP and
CSV input and output, queries, aggregations, reports, the directory analysis in
C#, cryptography, parsing and mail. The models cover the code in which several
actors write the same documents, which is small beside it. Of that, sessions and
refresh tokens, the promotion of reconciliation snapshots and the guard of the
background sync job are left; the walk of an arbitrary workflow graph is
modelled only by the effects of the two graphs that the pipeline uses.
