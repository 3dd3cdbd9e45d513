---------------------------- MODULE LifecycleQueue ----------------------------
(***************************************************************************)
(* The durable joiner/mover/leaver event queue (services/lifecycle): HR    *)
(* syncs enqueue events, and the ticks of one or more worker processes     *)
(* recover stale claims, promote due terminations, claim events in         *)
(* priority order and run their handlers.                                  *)
(*                                                                         *)
(* Every database call is one step, so a decision taken on a value that    *)
(* was read is separated from the write that acts on it.  Time is          *)
(* abstracted to the comparisons the code makes: nextAttemptAt <= now      *)
(* (due), claimedAt < now - 5 min (stale), expiresAt <= now (lockExpired). *)
(***************************************************************************)
EXTENDS Naturals, FiniteSets

CONSTANTS
  Event,          \* the event documents, one per idempotency key
  IdentityOf,     \* the identity an event is about
  KindOf,         \* its eventType
  LeaverOf,       \* the LEAVER event the promotion of a scheduled one creates
  Proc,           \* worker processes (host:pid)
  Tick,           \* ticks that may be in flight, of all processes
  ProcOf,         \* the process a tick runs in
  NoProc,         \* "the lock document does not exist"
  MaxRetries,     \* maxRetries of an event (5 in the code)
  Limit,          \* batch size of a tick (25 in the code)
  MaxFaults,      \* bound on crashes and failed database calls
  MaxOverruns     \* bound on ticks that outlive the lock's 55 s, or the 5 min
                  \* stale threshold, while still running

PrimaryKinds == {"JOINER", "MOVER", "LEAVER", "REHIRE", "CONTRACTOR_EXTEND"}
Kinds == PrimaryKinds \union {"TERMINATION_SCHEDULED", "IDENTITY_UPDATED"}

\* LIFECYCLE_PRIORITY
PriorityFor ==
  [LEAVER |-> 100, TERMINATION_SCHEDULED |-> 90, REHIRE |-> 70, MOVER |-> 50,
   CONTRACTOR_EXTEND |-> 40, JOINER |-> 30, IDENTITY_UPDATED |-> 10]

Priority(e) == PriorityFor[KindOf[e]]
IsPrimary(e) == KindOf[e] \in PrimaryKinds
Scheduled == {e \in Event : KindOf[e] = "TERMINATION_SCHEDULED"}

ASSUME EventAssumption ==
  /\ IsFiniteSet(Event) /\ Event # {}
  /\ KindOf \in [Event -> Kinds]
  /\ LeaverOf \in [Event -> Event]
  /\ \A s \in Scheduled : KindOf[LeaverOf[s]] = "LEAVER"
ASSUME WorkerAssumption ==
  /\ ProcOf \in [Tick -> Proc]
  /\ NoProc \notin Proc
ASSUME BoundAssumption ==
  /\ MaxRetries \in Nat
  /\ Limit \in Nat \ {0}
  /\ MaxFaults \in Nat
  /\ MaxOverruns \in Nat

VARIABLES
  status,       \* eventStatus; "ABSENT" before the document is created
  retry,        \* retryCount
  due,          \* nextAttemptAt has passed
  claimed,      \* claimedAt is set
  stale,        \* claimedAt is older than the stale threshold
  handled,      \* the handler has run to success at least once
  lockBy,       \* lockedBy of the DistributedLock document, or NoProc
  lockExpired,  \* its expiresAt has passed
  pc,           \* where each tick is
  cur,          \* the event a tick is working on
  rows,         \* the rows a tick has read and not yet visited
  rowRetry,     \* retryCount of those rows, as read
  snap,         \* status, retryCount and claimedAt of cur, as markFailed read them
  unseen,       \* history: events created since a tick looked for a blocker
  faults,       \* crashes and failed calls so far
  overruns      \* overruns of the lock or of the stale threshold so far

docs   == <<status, retry, due, claimed, stale>>
locks  == <<lockBy, lockExpired>>
locals == <<pc, cur, rows, rowRetry, snap, unseen>>
bounds == <<faults, overruns>>
vars   == <<docs, handled, locks, locals, bounds>>

Statuses  == {"ABSENT", "DETECTED", "PENDING", "IN_PROGRESS", "COMPLETED", "FAILED"}
Claimable == {"DETECTED", "PENDING"}
OpenStatuses == {"DETECTED", "PENDING", "IN_PROGRESS"}
Terminal == {"COMPLETED", "FAILED"}

\* Points of a tick between a successful claim and the write that ends it.
Working == {"check", "defer", "handle", "complete", "failRead", "failSave"}
Points  == {"idle", "recoverRead", "recover", "promoteRead", "promote",
            "promoteClose", "find", "claim", "release"} \union Working

NoEvent == CHOOSE e \in Event : TRUE
Snaps   == [status : Statuses, retry : Nat, claimed : BOOLEAN]
NoSnap  == [status |-> "ABSENT", retry |-> 0, claimed |-> FALSE]
NoRetry == [e \in Event |-> 0]
Reset(t) ==
  /\ cur' = [cur EXCEPT ![t] = NoEvent]
  /\ rows' = [rows EXCEPT ![t] = {}]
  /\ rowRetry' = [rowRetry EXCEPT ![t] = NoRetry]
  /\ snap' = [snap EXCEPT ![t] = NoSnap]
  /\ unseen' = [unseen EXCEPT ![t] = {}]

Unclaim(e) ==
  /\ claimed' = [claimed EXCEPT ![e] = FALSE]
  /\ stale' = [stale EXCEPT ![e] = FALSE]

Goto(t, p) == pc' = [pc EXCEPT ![t] = p]

\* find(...).limit(n): n rows of S, or all of them.
Batches(S) ==
  {B \in SUBSET S : Cardinality(B) = IF Cardinality(S) < Limit THEN Cardinality(S) ELSE Limit}

Init ==
  /\ status = [e \in Event |-> "ABSENT"]
  /\ retry = NoRetry
  /\ due = [e \in Event |-> FALSE]
  /\ claimed = [e \in Event |-> FALSE]
  /\ stale = [e \in Event |-> FALSE]
  /\ handled = [e \in Event |-> FALSE]
  /\ lockBy = NoProc
  /\ lockExpired = FALSE
  /\ pc = [t \in Tick |-> "idle"]
  /\ cur = [t \in Tick |-> NoEvent]
  /\ rows = [t \in Tick |-> {}]
  /\ rowRetry = [t \in Tick |-> NoRetry]
  /\ snap = [t \in Tick |-> NoSnap]
  /\ unseen = [t \in Tick |-> {}]
  /\ faults = 0
  /\ overruns = 0

-----------------------------------------------------------------------------
(* Enqueue                                                                  *)

InitialStatusScheduled(e) ==  \* bug: a status the schema does not know
  IF e \in Scheduled THEN "SCHEDULED" ELSE "DETECTED"
InitialStatusUnscheduled(e) ==  \* bug: only scheduled events wait for the worker
  IF e \in Scheduled THEN "PENDING" ELSE "COMPLETED"

InitialStatus(e) ==
  IF IsPrimary(e) THEN "DETECTED"
  ELSE IF e \in Scheduled THEN "PENDING" ELSE "COMPLETED"

\* Create the document of e unless its idempotency key is taken.  The unique
\* index turns the read-then-create race into the reuse of the other's row.
CreateOrReuse(e) ==
  IF status[e] = "ABSENT"
  THEN /\ status' = [status EXCEPT ![e] = InitialStatus(e)]
       /\ due' = [due EXCEPT ![e] = e \notin Scheduled]
       /\ unseen' = [t \in Tick |-> unseen[t] \union
                       (IF pc[t] \in Working THEN {e} ELSE {})]
  ELSE UNCHANGED <<status, due, unseen>>

\* An HR sync, a connector or the API persists a detected event.
Enqueue(e) ==
  /\ status[e] = "ABSENT"
  /\ CreateOrReuse(e)
  /\ UNCHANGED <<retry, claimed, stale, handled, locks, pc, cur, rows, rowRetry,
                 snap, bounds>>

-----------------------------------------------------------------------------
(* The tick lock                                                            *)

AcquireLockAlways(t) ==  \* bug: the lock document of another tick is overwritten
  /\ pc[t] = "idle"
  /\ lockBy' = ProcOf[t] /\ lockExpired' = FALSE
  /\ Goto(t, "recoverRead")
  /\ UNCHANGED <<docs, handled, cur, rows, rowRetry, snap, unseen, bounds>>
AcquireFreeLock(t) == lockBy = NoProc /\ AcquireLockAlways(t)  \* bug: no takeover

\* acquireLock: create the lock document, or take over an expired one.
AcquireLock(t) ==
  /\ pc[t] = "idle"
  /\ lockBy = NoProc \/ lockExpired
  /\ lockBy' = ProcOf[t]
  /\ lockExpired' = FALSE
  /\ Goto(t, "recoverRead")
  /\ UNCHANGED <<docs, handled, cur, rows, rowRetry, snap, unseen, bounds>>

\* releaseLock deletes the lock if its own process holds it, whichever tick
\* of that process took it.
ReleaseLock(t) ==
  /\ pc[t] = "release"
  /\ IF lockBy = ProcOf[t]
     THEN lockBy' = NoProc /\ lockExpired' = FALSE
     ELSE UNCHANGED locks
  /\ Goto(t, "idle")
  /\ Reset(t)
  /\ UNCHANGED <<docs, handled, bounds>>

-----------------------------------------------------------------------------
(* recoverStaleLifecycleEvents                                              *)

RecoverRead(t) ==
  /\ pc[t] = "recoverRead"
  /\ LET found == {e \in Event : status[e] = "IN_PROGRESS" /\ claimed[e] /\ stale[e]} IN
       /\ rows' = [rows EXCEPT ![t] = found]
       /\ rowRetry' = [rowRetry EXCEPT ![t] =
                         [e \in Event |-> IF e \in found THEN retry[e] ELSE 0]]
       /\ Goto(t, IF found = {} THEN "promoteRead" ELSE "recover")
  /\ UNCHANGED <<docs, handled, locks, cur, snap, unseen, bounds>>

AgainTooSoon(n) == n < MaxRetries  \* bug: off by one

\* With its n-th failed attempt an event is tried again, or FAILED.
Again(n) == n <= MaxRetries

\* One row: its new retryCount comes from the value read, and the write asks
\* only that the event still be IN_PROGRESS, not that the claim be the one read.
RecoverRow(t, e) ==
  LET next == rowRetry[t][e] + 1
      again == Again(next) IN
    /\ IF status[e] = "IN_PROGRESS"
       THEN /\ status' = [status EXCEPT ![e] = IF again THEN "PENDING" ELSE "FAILED"]
            /\ retry' = [retry EXCEPT ![e] = next]
            /\ due' = IF again THEN [due EXCEPT ![e] = FALSE] ELSE due
            /\ Unclaim(e)
       ELSE UNCHANGED docs
    /\ rows' = [rows EXCEPT ![t] = @ \ {e}]
    /\ rowRetry' = [rowRetry EXCEPT ![t][e] = 0]
    /\ Goto(t, IF rows[t] = {e} THEN "promoteRead" ELSE "recover")

RecoverWrite(t) ==
  /\ pc[t] = "recover"
  /\ \E e \in rows[t] : RecoverRow(t, e)
  /\ UNCHANGED <<handled, locks, cur, snap, unseen, bounds>>

-----------------------------------------------------------------------------
(* promoteDueTerminationScheduled                                           *)

DueScheduledDetected == {e \in Scheduled : status[e] = "DETECTED" /\ due[e]}  \* bug

DueScheduled == {e \in Scheduled : status[e] \in Claimable /\ due[e]}

PromoteRead(t) ==
  /\ pc[t] = "promoteRead"
  /\ \E B \in Batches(DueScheduled) :
       /\ rows' = [rows EXCEPT ![t] = B]
       /\ Goto(t, IF B = {} THEN "find" ELSE "promote")
  /\ UNCHANGED <<docs, handled, locks, cur, rowRetry, snap, unseen, bounds>>

PromoteNothing(t) ==  \* bug: an enqueue that failed is not noticed
  /\ pc[t] = "promote"
  /\ \E s \in rows[t] : cur' = [cur EXCEPT ![t] = s] /\ rows' = [rows EXCEPT ![t] = @ \ {s}]
  /\ Goto(t, "promoteClose")
  /\ UNCHANGED <<docs, handled, locks, rowRetry, snap, unseen, bounds>>

PromoteEnqueue(t) ==
  /\ pc[t] = "promote"
  /\ \E s \in rows[t] :
       /\ CreateOrReuse(LeaverOf[s])
       /\ cur' = [cur EXCEPT ![t] = s]
       /\ rows' = [rows EXCEPT ![t] = @ \ {s}]
  /\ Goto(t, "promoteClose")
  /\ UNCHANGED <<retry, claimed, stale, handled, locks, rowRetry, snap, bounds>>

PromoteClose(t) ==
  /\ pc[t] = "promoteClose"
  /\ status' = [status EXCEPT ![cur[t]] = "COMPLETED"]
  /\ cur' = [cur EXCEPT ![t] = NoEvent]
  /\ Goto(t, IF rows[t] = {} THEN "find" ELSE "promote")
  /\ UNCHANGED <<retry, due, claimed, stale, handled, locks, rows, rowRetry, snap,
                 unseen, bounds>>

-----------------------------------------------------------------------------
(* Claiming                                                                 *)

\* findClaimableLifecycleEvents: highest priority first, at most Limit.
FindClaimable(t) ==
  /\ pc[t] = "find"
  /\ LET ready == {e \in Event : IsPrimary(e) /\ status[e] \in Claimable /\ due[e]} IN
       \E B \in Batches(ready) :
         /\ \A e \in B, f \in ready \ B : Priority(e) >= Priority(f)
         /\ rows' = [rows EXCEPT ![t] = B]
         /\ Goto(t, IF B = {} THEN "release" ELSE "claim")
  /\ UNCHANGED <<docs, handled, locks, cur, rowRetry, snap, unseen, bounds>>

\* The next row of the batch; ties in priority are broken by detectedAt, which
\* is left open here.
NextRow(t) == {e \in rows[t] : \A f \in rows[t] : Priority(e) >= Priority(f)}

ClaimRowUnstamped(t, e) ==  \* bug: claimedAt is not set
  /\ rows' = [rows EXCEPT ![t] = @ \ {e}]
  /\ status' = [status EXCEPT ![e] = "IN_PROGRESS"]
  /\ cur' = [cur EXCEPT ![t] = e]
  /\ Goto(t, "check")
  /\ UNCHANGED <<claimed, stale>>

\* claimLifecycleEvent: the filter is evaluated again, atomically with the claim.
ClaimRow(t, e) ==
  /\ rows' = [rows EXCEPT ![t] = @ \ {e}]
  /\ IF status[e] \in Claimable /\ due[e]
     THEN /\ status' = [status EXCEPT ![e] = "IN_PROGRESS"]
          /\ claimed' = [claimed EXCEPT ![e] = TRUE]
          /\ stale' = [stale EXCEPT ![e] = FALSE]
          /\ cur' = [cur EXCEPT ![t] = e]
          /\ Goto(t, "check")
     ELSE /\ Goto(t, IF rows[t] = {e} THEN "release" ELSE "claim")
          /\ UNCHANGED <<status, claimed, stale, cur>>

Claim(t) ==
  /\ pc[t] = "claim"
  /\ \E e \in NextRow(t) : ClaimRow(t, e)
  /\ UNCHANGED <<retry, due, handled, locks, rowRetry, snap, unseen, bounds>>

-----------------------------------------------------------------------------
(* processLifecycleEvent                                                    *)

\* After an event, the next row of the batch, or the end of the tick.
NextEvent(t) ==
  /\ Goto(t, IF rows[t] = {} THEN "release" ELSE "claim")
  /\ cur' = [cur EXCEPT ![t] = NoEvent]
  /\ snap' = [snap EXCEPT ![t] = NoSnap]
  /\ unseen' = [unseen EXCEPT ![t] = {}]

\* findBlockingHigherPriorityEvent
Blockers(e) ==
  {h \in Event \ {e} : /\ IsPrimary(h)
                       /\ IdentityOf[h] = IdentityOf[e]
                       /\ status[h] \in OpenStatuses
                       /\ Priority(h) > Priority(e)}

CheckNothing(t) ==  \* bug: handlers run in claim order alone
  /\ pc[t] = "check"
  /\ Goto(t, "handle")
  /\ unseen' = [unseen EXCEPT ![t] = {}]
  /\ UNCHANGED <<docs, handled, locks, cur, rows, rowRetry, snap, bounds>>

CheckBlocking(t) ==
  /\ pc[t] = "check"
  /\ Goto(t, IF Blockers(cur[t]) = {} THEN "handle" ELSE "defer")
  /\ unseen' = [unseen EXCEPT ![t] = {}]
  /\ UNCHANGED <<docs, handled, locks, cur, rows, rowRetry, snap, bounds>>

\* Back to PENDING for a minute; retryCount is not charged.
Defer(t) ==
  /\ pc[t] = "defer"
  /\ status' = [status EXCEPT ![cur[t]] = "PENDING"]
  /\ due' = [due EXCEPT ![cur[t]] = FALSE]
  /\ Unclaim(cur[t])
  /\ NextEvent(t)
  /\ UNCHANGED <<retry, handled, locks, rows, rowRetry, bounds>>

\* The handler of the event's type (orchestration, legacy evaluator, leaver)
\* returns, or throws.
Handle(t) ==
  /\ pc[t] = "handle"
  /\ \/ /\ handled' = [handled EXCEPT ![cur[t]] = TRUE]
        /\ Goto(t, "complete")
     \/ /\ Goto(t, "failRead")
        /\ UNCHANGED handled
  /\ UNCHANGED <<docs, locks, cur, rows, rowRetry, snap, unseen, bounds>>

\* markLifecycleEventCompleted: by _id alone, whatever the status by now.
MarkCompleted(t) ==
  /\ pc[t] = "complete"
  /\ status' = [status EXCEPT ![cur[t]] = "COMPLETED"]
  /\ Unclaim(cur[t])
  /\ NextEvent(t)
  /\ UNCHANGED <<retry, due, handled, locks, rows, rowRetry, bounds>>

\* markLifecycleEventFailed reads the document, claimed or not ...
MarkFailedRead(t) ==
  /\ pc[t] = "failRead"
  /\ snap' = [snap EXCEPT ![t] = [status |-> status[cur[t]], retry |-> retry[cur[t]],
                                  claimed |-> claimed[cur[t]]]]
  /\ Goto(t, "failSave")
  /\ UNCHANGED <<docs, handled, locks, cur, rows, rowRetry, unseen, bounds>>

\* ... and markFailedDoc saves the paths it changed of the copy it read.
MarkFailedSave(t) ==
  LET e == cur[t]
      next == snap[t].retry + 1
      target == IF Again(next) THEN "PENDING" ELSE "FAILED" IN
    /\ pc[t] = "failSave"
    /\ status' = IF snap[t].status = target THEN status ELSE [status EXCEPT ![e] = target]
    /\ retry' = [retry EXCEPT ![e] = next]
    /\ due' = IF target = "PENDING" THEN [due EXCEPT ![e] = FALSE] ELSE due
    /\ IF snap[t].claimed THEN Unclaim(e) ELSE UNCHANGED <<claimed, stale>>
    /\ NextEvent(t)
    /\ UNCHANGED <<handled, locks, rows, rowRetry, bounds>>

-----------------------------------------------------------------------------
(* Faults                                                                   *)

Fault == faults < MaxFaults /\ faults' = faults + 1 /\ UNCHANGED overruns

\* A database call throws.  Recovery and promotion are abandoned for this tick;
\* markCompleted is inside the try, so its failure counts as a failed attempt;
\* any other failure ends the tick, which still releases the lock.
CallFails(t) ==
  /\ Fault
  /\ pc[t] \notin {"idle", "handle", "release"}
  /\ \/ /\ pc[t] \in {"recoverRead", "recover"}
        /\ Goto(t, "promoteRead")
     \/ /\ pc[t] \in {"promoteRead", "promote", "promoteClose"}
        /\ Goto(t, "find")
     \/ /\ pc[t] = "complete"
        /\ Goto(t, "failRead")
     \/ /\ pc[t] \in {"find", "claim", "check", "defer", "failRead", "failSave"}
        /\ Goto(t, "release")
  /\ IF pc[t] = "complete" THEN UNCHANGED <<cur, rows, rowRetry, snap, unseen>> ELSE Reset(t)
  /\ UNCHANGED <<docs, handled, locks>>

\* A worker process dies: its ticks are gone, its lock and claims stay.
Crash(p) ==
  LET lost == {t \in Tick : ProcOf[t] = p} IN
    /\ Fault
    /\ \E t \in lost : pc[t] # "idle"
    /\ pc' = [t \in Tick |-> IF t \in lost THEN "idle" ELSE pc[t]]
    /\ cur' = [t \in Tick |-> IF t \in lost THEN NoEvent ELSE cur[t]]
    /\ rows' = [t \in Tick |-> IF t \in lost THEN {} ELSE rows[t]]
    /\ rowRetry' = [t \in Tick |-> IF t \in lost THEN NoRetry ELSE rowRetry[t]]
    /\ snap' = [t \in Tick |-> IF t \in lost THEN NoSnap ELSE snap[t]]
    /\ unseen' = [t \in Tick |-> IF t \in lost THEN {} ELSE unseen[t]]
    /\ UNCHANGED <<docs, handled, locks>>

-----------------------------------------------------------------------------
(* The passage of time                                                      *)

BecomeDue(e) ==
  /\ status[e] \in Claimable
  /\ ~due[e]
  /\ due' = [due EXCEPT ![e] = TRUE]
  /\ UNCHANGED <<status, retry, claimed, stale, handled, locks, locals, bounds>>

\* Time runs out for something a live tick still counts on.
Overrun == overruns < MaxOverruns /\ overruns' = overruns + 1

Owners(e) == {t \in Tick : pc[t] \in Working /\ cur[t] = e}

BecomeStale(e) ==
  /\ claimed[e] /\ ~stale[e]
  /\ IF Owners(e) = {} THEN UNCHANGED overruns ELSE Overrun
  /\ stale' = [stale EXCEPT ![e] = TRUE]
  /\ UNCHANGED <<status, retry, due, claimed, handled, locks, locals, faults>>

Holders == {t \in Tick : ProcOf[t] = lockBy /\ pc[t] # "idle"}

LockExpires ==
  /\ lockBy # NoProc /\ ~lockExpired
  /\ IF Holders = {} THEN UNCHANGED overruns ELSE Overrun
  /\ lockExpired' = TRUE
  /\ UNCHANGED <<docs, handled, lockBy, locals, faults>>

-----------------------------------------------------------------------------
TickStep(t) ==
  \/ RecoverRead(t) \/ RecoverWrite(t)
  \/ PromoteRead(t) \/ PromoteEnqueue(t) \/ PromoteClose(t)
  \/ FindClaimable(t) \/ Claim(t) \/ CheckBlocking(t) \/ Defer(t)
  \/ Handle(t) \/ MarkCompleted(t) \/ MarkFailedRead(t) \/ MarkFailedSave(t)
  \/ ReleaseLock(t)

Next ==
  \/ \E e \in Event : Enqueue(e) \/ BecomeDue(e) \/ BecomeStale(e)
  \/ LockExpires
  \/ \E t \in Tick : AcquireLock(t) \/ TickStep(t) \/ CallFails(t)
  \/ \E p \in Proc : Crash(p)

Spec == Init /\ [][Next]_vars

\* A tick that runs makes progress, each process ticks every 15 s, and time
\* passes.  Nothing obliges a sync to enqueue or a process to crash.
Fairness ==
  /\ \A t \in Tick : WF_vars(TickStep(t)) /\ WF_vars(AcquireLock(t))
  /\ \A e \in Event : WF_vars(BecomeDue(e)) /\ WF_vars(BecomeStale(e))
  /\ WF_vars(LockExpires)

FairSpec == Spec /\ Fairness

-----------------------------------------------------------------------------
(* Properties                                                               *)

\* Type invariant.
TypeOK ==
  /\ status \in [Event -> Statuses]
  /\ retry \in [Event -> Nat]
  /\ due \in [Event -> BOOLEAN]
  /\ claimed \in [Event -> BOOLEAN]
  /\ stale \in [Event -> BOOLEAN]
  /\ handled \in [Event -> BOOLEAN]
  /\ lockBy \in Proc \union {NoProc}
  /\ lockExpired \in BOOLEAN
  /\ pc \in [Tick -> Points]
  /\ cur \in [Tick -> Event]
  /\ rows \in [Tick -> SUBSET Event]
  /\ rowRetry \in [Tick -> [Event -> Nat]]
  /\ snap \in [Tick -> Snaps]
  /\ unseen \in [Tick -> SUBSET Event]
  /\ faults \in 0 .. MaxFaults
  /\ overruns \in 0 .. MaxOverruns

\* "DistributedLock for multi-instance tick safety": the body of at most one
\* tick runs at any time, over all worker processes.
OneTickAtATime ==
  \A t, u \in Tick : pc[t] # "idle" /\ pc[u] # "idle" => t = u

\* A tick working on an event still holds its claim: nobody has completed,
\* failed, deferred or re-queued the event behind its back, and stale recovery
\* is not about to.
ClaimHeld ==
  \A t \in Tick : pc[t] \in Working =>
    /\ status[cur[t]] = "IN_PROGRESS"
    /\ claimed[cur[t]]
    /\ ~stale[cur[t]]

\* An actionable event is COMPLETED only if its handler ran to success: no path
\* through deferral, recovery, retries or promotion closes it unhandled.
CompletedWasHandled ==
  \A e \in Event : IsPrimary(e) /\ status[e] = "COMPLETED" => handled[e]

\* A scheduled termination that has been closed has its LEAVER event, even
\* when the worker died between the two writes of the promotion.
PromotionNotLost ==
  \A s \in Scheduled : status[s] = "COMPLETED" => status[LeaverOf[s]] # "ABSENT"

\* A handler never runs ahead of an open higher-priority event of the same
\* identity, unless that event was created after the handler's tick looked.
NoOvertaking ==
  [][\A t \in Tick : pc[t] = "handle" /\ pc'[t] = "complete" =>
       Blockers(cur[t]) \subseteq unseen[t]]_vars

\* The ledger an administrator sees: claims and clocks hidden.
LedgerState ==
  [ABSENT |-> "absent", DETECTED |-> "open", PENDING |-> "open",
   IN_PROGRESS |-> "held", COMPLETED |-> "done", FAILED |-> "dead"]

Ledger == INSTANCE EventLedger WITH
  Primary <- {e \in Event : IsPrimary(e)},
  state <- [e \in Event |-> LedgerState[status[e]]],
  tries <- retry

\* The queue implements the ledger: one owner at a time, settled for good, and
\* retried exactly maxRetries times before it is given up.
ImplementsLedger == Ledger!Spec

\* Every enqueued actionable event is settled: handled, or given up after its
\* retries, whatever crashes, failed calls and deferrals come in between.
EveryEventSettles ==
  \A e \in Event :
    (IsPrimary(e) /\ status[e] # "ABSENT") ~> status[e] \in Terminal

\* A scheduled termination that has been enqueued brings about its LEAVER
\* event, and that event is settled.
ScheduledTerminationSettles ==
  \A s \in Scheduled : status[s] # "ABSENT" ~> status[LeaverOf[s]] \in Terminal
=============================================================================
