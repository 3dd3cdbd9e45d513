------------------------ MODULE CertificationCampaign ------------------------
(***************************************************************************)
(* One certification campaign: reviewers decide its review items, whole or *)
(* entitlement by entitlement, one by one or in bulk; the owner finalizes, *)
(* extends or closes it; a job expires it.  Every decision ends in a       *)
(* recount that may complete the campaign, and a revocation in a task of   *)
(* the queue that WorkflowTaskQueue models (certificationDecisionService,  *)
(* campaignOwnerActionService, certificationScheduler, the controllers of  *)
(* access-certification).                                                  *)
(*                                                                         *)
(* Review items are written by single updates, the campaign by saves: only *)
(* changed fields, and some saves ask for the version they loaded.  The    *)
(* version counter is abstracted to whether it has moved since the load.   *)
(*                                                                         *)
(* Not modelled: how a campaign gets its items, reassignment, tasks for    *)
(* whole items, what a completed campaign's updateCampaignProgress ingests *)
(* into the remediation queues, counters, mails and audit records.         *)
(***************************************************************************)
EXTENDS Naturals, FiniteSets

CONSTANTS
  Item,                 \* the review items
  Entitlement, ItemOf,  \* the entitlements decided on their own, and their items
  Reviewer, ReviewerOf, \* who may decide, and to whom each item is assigned at first
  Request,              \* requests and jobs at work at a time
  MaxRequests,          \* bound on requests and jobs altogether
  MaxFaults             \* bound on crashes and failed calls

ASSUME SetAssumption ==
  /\ Item # {}
  /\ ItemOf \in [Entitlement -> Item]
  /\ ReviewerOf \in [Item -> Reviewer]
ASSUME BoundAssumption == MaxRequests \in Nat /\ MaxFaults \in Nat

VARIABLES
  item,      \* status of each review item
  ent,       \* status of each entitlement decision
  status,    \* status of the campaign
  mailed,    \* its ownerActionEmailSentAt is set
  listed,    \* its reviewersAssigned has entries with counts to update
  reviewer,  \* the reviewerEmail of each review item
  queued,    \* entitlements with a revocation task
  pc,        \* where a request is
  job,       \* what it does: operation, who asked, decision, the items it may touch
  batch,     \* items it has still to write
  pend,      \* entitlements it found pending
  seen,      \* the campaign as it loaded it
  stale,     \* the campaign's version has moved since it did
  forced,    \* history: the status was set without looking at the items
  reopened,  \* history: a campaign with nothing pending was made open again
  replaced,  \* history: entitlements whose decision a sweep overwrote
  promised,  \* history: entitlements revoked by a request that queues tasks
  refused,   \* history: a save of reviewers' progress was refused
  unmapped,  \* history: entitlements no workflow was mapped for when one was asked for
  moved,     \* history: items handed to somebody else after a bulk had found them
  requests, faults

items    == <<item, ent>>
campaign == <<status, mailed, listed>>
locals   == <<pc, job, batch, pend, seen, stale>>
noted    == <<forced, reopened>>
assigned == <<reviewer, moved>>
history  == <<replaced, promised, refused, unmapped>>
bounds   == <<requests, faults>>
vars     == <<items, campaign, assigned, queued, locals, noted, history, bounds>>

\* DELEGATED and EXCEPTION count as APPROVED: decided, and nothing to revoke;
\* REVOKED, which an override writes, as REVOKE_IN_PROGRESS.
Decisions == {"APPROVED", "REVOKE_IN_PROGRESS"}
Outcomes  == Decisions \union {"PENDING"}
Locked    == {"Completed", "Closed"}
\* Draft stands for every status before Active.
CampaignStatuses == Locked \union {"Draft", "Active", "EndPhase"}

\* Points at which a save that asks for its version is still to come.
Versioned == {"syncSave", "closeSave", "extendSave"}
\* Points at which an item is to be saved that has all its entitlements decided:
\* what differs from the copy that is saved, its status, its reviewer or both.
RollUps == {"rollup", "rollupStatus", "rollupReviewer"}
Points == Versioned \union RollUps \union
  {"idle", "decide", "entitlement", "find", "sweep", "history", "load", "count",
   "saveDone", "saveOpen", "syncLoad", "queue", "closeLoad", "expire", "heal"}
Operations == {"none", "items", "entitlement", "bulk", "finalize", "close", "extend", "job"}
Jobs  == [op: Operations, by: Reviewer, decision: Decisions, scope: SUBSET Item]
Somebody == CHOOSE p \in Reviewer : TRUE
NoJob == [op |-> "none", by |-> Somebody, decision |-> "APPROVED", scope |-> {}]
Copies == [status: CampaignStatuses, mailed: BOOLEAN]
NoCopy == [status |-> "Draft", mailed |-> FALSE]

Pending    == {i \in Item : item[i] = "PENDING"}
AllDecided == Pending = {}

Init ==
  /\ item = [i \in Item |-> "PENDING"]
  /\ ent = [e \in Entitlement |-> "PENDING"]
  /\ status \in {"Draft", "Active"} /\ mailed = FALSE
  /\ listed \in BOOLEAN
  /\ reviewer = ReviewerOf
  /\ queued = {}
  /\ pc = [a \in Request |-> "idle"]
  /\ job = [a \in Request |-> NoJob]
  /\ batch = [a \in Request |-> {}]
  /\ pend = [a \in Request |-> {}]
  /\ seen = [a \in Request |-> NoCopy]
  /\ stale = [a \in Request |-> FALSE]
  /\ forced = FALSE /\ reopened = FALSE
  /\ replaced = {} /\ promised = {} /\ refused = FALSE
  /\ unmapped = {} /\ moved = {}
  /\ requests = 0 /\ faults = 0

Goto(a, l) == pc' = [pc EXCEPT ![a] = l]

\* A request is answered; its locals are gone.
Done(a) ==
  /\ Goto(a, "idle")
  /\ job' = [job EXCEPT ![a] = NoJob]
  /\ batch' = [batch EXCEPT ![a] = {}]
  /\ pend' = [pend EXCEPT ![a] = {}]
  /\ seen' = [seen EXCEPT ![a] = NoCopy]

\* The campaign's version moves on: copies that are still to be saved go stale.
Bump(a)  == stale' = [r \in Request |-> r # a /\ (stale[r] \/ pc[r] \in Versioned)]
Fresh(a) == stale' = [stale EXCEPT ![a] = FALSE]

SetStatus(s) ==
  /\ status' = s
  /\ forced' = (forced /\ s \in Locked)
  /\ reopened' = (reopened \/ (AllDecided /\ status \in Locked /\ s \notin Locked))

\* An item gets the reviewer who decided it.
Taken(i) == \E a \in Request : job[a].op = "bulk" /\ i \in job[a].scope
Hand(i, p) ==
  /\ reviewer' = [reviewer EXCEPT ![i] = p]
  /\ moved' = IF reviewer[i] # p /\ Taken(i) THEN moved \union {i} ELSE moved

Begin(a, l, op, p, d, scope) ==
  /\ pc[a] = "idle"
  /\ requests < MaxRequests /\ requests' = requests + 1
  /\ Goto(a, l)
  /\ job' = [job EXCEPT ![a] = [op |-> op, by |-> p, decision |-> d, scope |-> scope]]

-----------------------------------------------------------------------------
(* Decisions on whole items                                                  *)

\* applyDecisionToCampaign, applyDecisionToReviewItem and
\* applyBulkDecisionToReviewItems: the campaign is open, and the items pending;
\* in the console an administrator decides for any reviewer.
BeginItems(a) ==
  /\ status \notin Locked
  /\ \E S \in SUBSET Pending \ {{}}, p \in Reviewer, d \in Decisions :
       Begin(a, "decide", "items", p, d, S) /\ batch' = [batch EXCEPT ![a] = S]
  /\ UNCHANGED <<items, campaign, assigned, queued, pend, seen, stale, noted, history, faults>>

NextItem(a, i, l) ==
  /\ batch' = [batch EXCEPT ![a] = @ \ {i}]
  /\ IF batch[a] = {i} THEN Goto(a, l) ELSE UNCHANGED pc

\* Each update asks that the item be pending still, and names who decided as its
\* reviewer; the portal gives up when its item is not pending, the others go on.
DecideItem(a) ==
  /\ pc[a] = "decide"
  /\ \E i \in batch[a] :
       \/ /\ item[i] = "PENDING"
          /\ item' = [item EXCEPT ![i] = job[a].decision]
          /\ Hand(i, job[a].by)
          /\ NextItem(a, i, "history")
          /\ UNCHANGED <<job, pend, seen>>
       \/ /\ item[i] # "PENDING" /\ UNCHANGED <<item, assigned>>
          /\ NextItem(a, i, "history")
          /\ UNCHANGED <<job, pend, seen>>
       \/ /\ item[i] # "PENDING" /\ UNCHANGED <<item, assigned>>
          /\ job[a].scope = {i}
          /\ Done(a)
  /\ UNCHANGED <<ent, campaign, queued, stale, noted, history, bounds>>

\* overrideDecision asks for nothing, and makes the item its caller's.
Override(a) ==
  /\ \E i \in Item, p \in Reviewer, d \in Decisions :
       /\ Begin(a, "history", "items", Somebody, d, {i})
       /\ item' = [item EXCEPT ![i] = d]
       /\ Hand(i, p)
  /\ UNCHANGED <<ent, campaign, queued, batch, pend, seen, stale, noted, history, faults>>

-----------------------------------------------------------------------------
(* applyEntitlementDecision                                                  *)

\* By the item's reviewer, or by one of reviewersAssigned.
BeginEntitlement(a) ==
  /\ status \notin Locked
  /\ \E e \in Entitlement, p \in Reviewer, d \in Decisions :
       /\ ent[e] = "PENDING"
       /\ p = reviewer[ItemOf[e]] \/ listed
       /\ Begin(a, "entitlement", "entitlement", p, d, {ItemOf[e]})
       /\ pend' = [pend EXCEPT ![a] = {e}]
  /\ UNCHANGED <<items, campaign, assigned, queued, batch, seen, stale, noted, history, faults>>

\* Where a request goes with the item its update on e has returned: if no entry is
\* pending then, the item is made APPROVED and the request's own, and saved.
AfterEntitlement(a, e) ==
  LET i == ItemOf[e]
      mine == reviewer[i] = job[a].by
  IN CASE \E f \in Entitlement \ {e} : ItemOf[f] = i /\ ent[f] = "PENDING" -> "history"
       [] item[i] = "APPROVED" -> IF mine THEN "history" ELSE "rollupReviewer"
       [] OTHER -> IF mine THEN "rollupStatus" ELSE "rollup"

Revoking(a, E) == IF job[a].decision = "APPROVED" THEN promised ELSE promised \union E

DecideEntitlementUnasked(a) ==  \* bug: the entry's status is not asked for again (before WIS-020)
  /\ pc[a] = "entitlement"
  /\ \E e \in pend[a] :
       /\ ent' = [ent EXCEPT ![e] = job[a].decision]
       /\ promised' = Revoking(a, {e})
       /\ Goto(a, AfterEntitlement(a, e))
  /\ UNCHANGED <<item, campaign, assigned, queued, job, batch, pend, seen, stale, noted,
                 replaced, refused, unmapped, bounds>>

\* The update asks that the entry be pending still.
DecideEntitlement(a) ==
  /\ pc[a] = "entitlement"
  /\ \E e \in pend[a] :
       IF ent[e] = "PENDING"
       THEN /\ ent' = [ent EXCEPT ![e] = job[a].decision]
            /\ promised' = Revoking(a, {e})
            /\ Goto(a, AfterEntitlement(a, e))
            /\ UNCHANGED <<job, batch, pend, seen>>
       ELSE Done(a) /\ UNCHANGED <<ent, promised>>
  /\ UNCHANGED <<item, campaign, assigned, queued, stale, noted, replaced, refused,
                 unmapped, bounds>>

RollUp(a) ==
  /\ pc[a] \in RollUps
  /\ \E e \in pend[a] :
       /\ item' = IF pc[a] = "rollupReviewer" THEN item
                  ELSE [item EXCEPT ![ItemOf[e]] = "APPROVED"]
       /\ IF pc[a] = "rollupStatus" THEN UNCHANGED assigned ELSE Hand(ItemOf[e], job[a].by)
  /\ Goto(a, "history")
  /\ UNCHANGED <<ent, campaign, queued, job, batch, pend, seen, stale, noted, history, bounds>>

-----------------------------------------------------------------------------
(* Sweeps: applyBulkEntitlementDecision of a reviewer,                       *)
(* finalizeAllPendingForCampaign of an owner, alone or before a close        *)

BeginSweep(a) ==
  /\ status \notin Locked
  /\ \/ \E p \in Reviewer, d \in Decisions : Begin(a, "find", "bulk", p, d, {})
     \/ \E d \in Decisions : Begin(a, "find", "finalize", Somebody, d, Item)
     \/ Begin(a, "find", "close", Somebody, "APPROVED", Item)
  /\ UNCHANGED <<items, campaign, assigned, queued, batch, pend, seen, stale, noted, history, faults>>

\* A campaign that is locked with nothing pending may be closed as it is.
CloseLocked(a) ==
  /\ status \in Locked /\ AllDecided
  /\ Begin(a, "closeLoad", "close", Somebody, "APPROVED", Item)
  /\ UNCHANGED <<items, campaign, assigned, queued, batch, pend, seen, stale, noted, history, faults>>

\* A bulk finds the pending items its reviewer has by now, the others all that are
\* pending; with nothing pending a sweep is only a recount.
Find(a) ==
  /\ pc[a] = "find"
  /\ LET S == IF job[a].op = "bulk" THEN {i \in Pending : reviewer[i] = job[a].by} ELSE Pending
     IN /\ batch' = [batch EXCEPT ![a] = S]
        /\ pend' = [pend EXCEPT ![a] = {e \in Entitlement : ItemOf[e] \in S /\ ent[e] = "PENDING"}]
        /\ job' = IF job[a].op # "bulk" THEN job
                  ELSE [job EXCEPT ![a] = [@ EXCEPT !.scope = S,
                                                     !.op = IF S = {} THEN "items" ELSE "bulk"]]
        /\ Goto(a, IF S = {} THEN "load" ELSE "sweep")
  /\ UNCHANGED <<items, campaign, assigned, queued, seen, stale, noted, history, bounds>>

\* The items are saved one by one as they were found: every entry that was pending
\* then gets the decision, whatever it has become.  The reviewer that a bulk sets is
\* the one it found, so the save does not write it.
Sweep(a) ==
  /\ pc[a] = "sweep"
  /\ \E i \in batch[a] :
       LET mine == {e \in pend[a] : ItemOf[e] = i} IN
       /\ ent' = [e \in Entitlement |-> IF e \in mine THEN job[a].decision ELSE ent[e]]
       /\ item' = [item EXCEPT ![i] =
            IF job[a].op = "bulk" /\ \E e \in Entitlement : ItemOf[e] = i
            THEN "APPROVED" ELSE job[a].decision]
       /\ replaced' = replaced \union {e \in mine : ent[e] # "PENDING"}
       /\ promised' = IF job[a].op = "bulk" THEN Revoking(a, mine) ELSE promised
       /\ pend' = [pend EXCEPT ![a] = @ \ mine]
       /\ NextItem(a, i, "history")
  /\ UNCHANGED <<campaign, assigned, queued, job, seen, stale, noted, refused, unmapped, bounds>>

-----------------------------------------------------------------------------
(* After a decision: history, updateCampaignProgress, tasks                  *)

SaveHistoryOnly(a) ==  \* bug: an owner's sweep ends without updateCampaignProgress
  /\ pc[a] = "history"
  /\ Bump(a)
  /\ IF job[a].op = "finalize" THEN Done(a)
     ELSE Goto(a, "load") /\ UNCHANGED <<job, batch, pend, seen>>
  /\ UNCHANGED <<items, campaign, assigned, queued, noted, history, bounds>>

\* The push to history is never refused and moves the version.
SaveHistory(a) ==
  /\ pc[a] = "history"
  /\ Bump(a)
  /\ Goto(a, "load")
  /\ UNCHANGED <<items, campaign, assigned, queued, job, batch, pend, seen, noted, history, bounds>>

LoadCampaign(a) ==
  /\ pc[a] = "load"
  /\ seen' = [seen EXCEPT ![a].status = status]
  /\ Goto(a, "count")
  /\ UNCHANGED <<items, campaign, assigned, queued, job, batch, pend, stale, noted, history, bounds>>

CountScope(a) ==  \* bug: only the items of the request are counted
  /\ pc[a] = "count"
  /\ Goto(a, IF job[a].scope \intersect Pending = {} THEN "saveDone" ELSE "saveOpen")
  /\ UNCHANGED <<items, campaign, assigned, queued, job, batch, pend, seen, stale, noted, history, bounds>>

\* getProgress.
CountPending(a) ==
  /\ pc[a] = "count"
  /\ Goto(a, IF AllDecided THEN "saveDone" ELSE "saveOpen")
  /\ UNCHANGED <<items, campaign, assigned, queued, job, batch, pend, seen, stale, noted, history, bounds>>

\* The status is written if it differs from the one that was loaded.
SaveProgress(a) ==
  /\ pc[a] \in {"saveDone", "saveOpen"}
  /\ CASE pc[a] = "saveDone" /\ seen[a].status # "Completed" -> SetStatus("Completed")
       [] pc[a] = "saveOpen" /\ seen[a].status \notin {"Active", "EndPhase"} -> SetStatus("Active")
       [] OTHER -> UNCHANGED <<status, noted>>
  /\ seen' = [seen EXCEPT ![a] = NoCopy]
  /\ Goto(a, "syncLoad")
  /\ UNCHANGED <<items, mailed, listed, assigned, queued, job, batch, pend, stale, history, bounds>>

\* syncReviewerProgress.
SyncLoad(a) ==
  /\ pc[a] = "syncLoad"
  /\ Fresh(a)
  /\ Goto(a, "syncSave")
  /\ UNCHANGED <<items, campaign, assigned, queued, job, batch, pend, seen, noted, history, bounds>>

\* A decision that revokes entitlements goes on to queue tasks, a close to close.
Proceed(a) ==
  CASE job[a].op = "close" -> Goto(a, "closeLoad") /\ UNCHANGED <<job, batch, pend, seen>>
    [] job[a].op \in {"entitlement", "bulk"} /\ job[a].decision # "APPROVED" ->
         Goto(a, "queue") /\ UNCHANGED <<job, batch, pend, seen>>
    [] OTHER -> Done(a)

\* The reviewers' counts are saved on the version that was loaded; a refusal fails
\* the request, its decision stored.  Whether the save moves the version in turn
\* depends on how the array is found to have changed.
SyncSave(a) ==
  /\ pc[a] = "syncSave"
  /\ IF listed /\ stale[a]
     THEN refused' = TRUE /\ Done(a) /\ Fresh(a)
     ELSE /\ UNCHANGED refused
          /\ Proceed(a)
          /\ Fresh(a) \/ (listed /\ Bump(a))
  /\ UNCHANGED <<items, campaign, queued, assigned, noted, replaced, promised, unmapped, bounds>>

\* createRevokeAccessTask for each of E: the tenant's rule set maps a workflow to the
\* revocation, or there is no task.
Enqueue(a, E) ==
  /\ \E M \in SUBSET E : queued' = queued \union M /\ unmapped' = unmapped \union (E \ M)
  /\ Done(a)
  /\ UNCHANGED <<items, campaign, assigned, stale, noted, replaced, promised, refused, bounds>>

QueueRevoked(a) ==  \* bug: the bulk looks for the status of a removal that is done
  /\ pc[a] = "queue"
  /\ Enqueue(a, IF job[a].op = "entitlement" THEN pend[a]
                ELSE {e \in Entitlement : reviewer[ItemOf[e]] = job[a].by /\ ent[e] = "REVOKED"})

\* Of the one entitlement, or of all that are revoked by now on the items that are the
\* reviewer's by now (enqueueBulkPortalRevokeRemediations looks for them anew).
Queue(a) ==
  /\ pc[a] = "queue"
  /\ Enqueue(a, IF job[a].op = "entitlement" THEN pend[a]
                ELSE {e \in Entitlement : reviewer[ItemOf[e]] = job[a].by
                                          /\ ent[e] = "REVOKE_IN_PROGRESS"})

-----------------------------------------------------------------------------
(* The owner's actions on the campaign, expiry, and others                   *)

Load(a) ==
  /\ seen' = [seen EXCEPT ![a] = [status |-> status, mailed |-> mailed]]
  /\ Fresh(a)

\* closeCampaignApproveRemaining loads the campaign anew ...
CloseLoad(a) ==
  /\ pc[a] = "closeLoad"
  /\ Load(a)
  /\ Goto(a, "closeSave")
  /\ UNCHANGED <<items, campaign, assigned, queued, job, batch, pend, noted, history, bounds>>

\* ... and replaces its history, which asks for the version.
CloseSave(a) ==
  /\ pc[a] = "closeSave"
  /\ IF stale[a] THEN Fresh(a) /\ UNCHANGED <<status, noted>>
     ELSE /\ Bump(a)
          /\ IF seen[a].status = "Closed" THEN UNCHANGED <<status, noted>> ELSE SetStatus("Closed")
  /\ Done(a)
  /\ UNCHANGED <<items, mailed, listed, assigned, queued, history, bounds>>

\* extendCampaign, which moves the due date.
ExtendLoad(a) ==
  /\ Begin(a, "extendSave", "extend", Somebody, "APPROVED", {})
  /\ Load(a)
  /\ UNCHANGED <<items, campaign, assigned, queued, batch, pend, noted, history, faults>>

ExtendSave(a) ==
  /\ pc[a] = "extendSave"
  /\ IF stale[a] THEN Fresh(a) /\ UNCHANGED <<status, mailed, noted>>
     ELSE /\ Bump(a)
          /\ mailed' = (mailed /\ ~seen[a].mailed)
          /\ IF seen[a].status \in {"EndPhase", "Closed"}
             THEN SetStatus("Active") ELSE UNCHANGED <<status, noted>>
  /\ Done(a)
  /\ UNCHANGED <<items, listed, assigned, queued, history, bounds>>

\* notifyExpiredCampaigns finds the campaign past its due date, which passes at any
\* time, mails its owner, and writes by the campaign's id.
ExpireFind(a) ==
  /\ status \notin Locked \union {"EndPhase"} /\ ~mailed
  /\ Begin(a, "expire", "job", Somebody, "APPROVED", {})
  /\ UNCHANGED <<items, campaign, assigned, queued, batch, pend, seen, stale, noted, history, faults>>

ExpireUnknown(a) ==  \* bug: a status the campaign's model does not know
  /\ pc[a] = "expire"
  /\ SetStatus("Expired")
  /\ mailed' = TRUE
  /\ Done(a)
  /\ UNCHANGED <<items, listed, assigned, queued, stale, history, bounds>>

Expire(a) ==
  /\ pc[a] = "expire"
  /\ SetStatus("EndPhase")
  /\ mailed' = TRUE
  /\ Done(a)
  /\ UNCHANGED <<items, listed, assigned, queued, stale, history, bounds>>

\* getCampaign completes a campaign that is Active with nothing pending.
HealRead(a) ==
  /\ status = "Active" /\ AllDecided
  /\ Begin(a, "heal", "job", Somebody, "APPROVED", {})
  /\ UNCHANGED <<items, campaign, assigned, queued, batch, pend, seen, stale, noted, history, faults>>

Heal(a) ==
  /\ pc[a] = "heal"
  /\ SetStatus("Completed")
  /\ Done(a)
  /\ UNCHANGED <<items, mailed, listed, assigned, queued, stale, history, bounds>>

\* completeCampaign and closeCampaign do not look at the items.
ForceLocked ==
  /\ requests < MaxRequests /\ requests' = requests + 1
  /\ status' \in Locked
  /\ forced' = TRUE
  /\ UNCHANGED <<items, mailed, listed, assigned, queued, locals, reopened, history, faults>>

\* A call throws, or the server dies.
Fail(a) ==
  /\ pc[a] # "idle"
  /\ faults < MaxFaults /\ faults' = faults + 1
  /\ Done(a) /\ Fresh(a)
  /\ UNCHANGED <<items, campaign, assigned, queued, noted, history, requests>>

-----------------------------------------------------------------------------
Start(a) ==
  \/ BeginItems(a) \/ Override(a) \/ BeginEntitlement(a) \/ BeginSweep(a) \/ CloseLocked(a)
  \/ ExtendLoad(a) \/ ExpireFind(a) \/ HealRead(a)

Step(a) ==
  \/ DecideItem(a) \/ DecideEntitlement(a) \/ RollUp(a) \/ Find(a) \/ Sweep(a)
  \/ SaveHistory(a) \/ LoadCampaign(a) \/ CountPending(a) \/ SaveProgress(a)
  \/ SyncLoad(a) \/ SyncSave(a) \/ Queue(a)
  \/ CloseLoad(a) \/ CloseSave(a) \/ ExtendSave(a) \/ Expire(a) \/ Heal(a)

Next ==
  \/ \E a \in Request : Start(a) \/ Step(a) \/ Fail(a)
  \/ ForceLocked

Spec == Init /\ [][Next]_vars

\* A request that has begun goes on; nobody has to begin one.
Fairness == \A a \in Request : WF_vars(Step(a))

FairSpec == Spec /\ Fairness

-----------------------------------------------------------------------------
(* Properties                                                                *)

TypeOK ==
  /\ item \in [Item -> Outcomes] /\ ent \in [Entitlement -> Outcomes]
  /\ status \in CampaignStatuses
  /\ mailed \in BOOLEAN /\ listed \in BOOLEAN
  /\ reviewer \in [Item -> Reviewer] /\ moved \subseteq Item
  /\ queued \subseteq Entitlement /\ unmapped \subseteq Entitlement
  /\ pc \in [Request -> Points]
  /\ job \in [Request -> Jobs]
  /\ batch \in [Request -> SUBSET Item]
  /\ pend \in [Request -> SUBSET Entitlement]
  /\ seen \in [Request -> Copies]
  /\ stale \in [Request -> BOOLEAN]
  /\ forced \in BOOLEAN /\ reopened \in BOOLEAN /\ refused \in BOOLEAN
  /\ replaced \subseteq Entitlement /\ promised \subseteq Entitlement
  /\ requests \in 0..MaxRequests /\ faults \in 0..MaxFaults

\* A campaign is locked only when every item has been decided, unless somebody
\* forced it: recounts that overlap decisions, sweeps that miss nothing, a close
\* that approves the rest (updateCampaignProgress, closeCampaignApproveRemaining).
LockedMeansDecided == status \in Locked => forced \/ AllDecided

\* What is queued for revocation was revoked, and is still, unless a sweep has
\* overwritten the decision: no two decisions on an entitlement both succeed
\* (applyEntitlementDecision: "re-verifies the entry is still PENDING").
QueuedIsRevoked == \A e \in queued \ replaced : ent[e] = "REVOKE_IN_PROGRESS"

\* When the last item has been decided the campaign is completed, if the request
\* that decided it does not fail, whichever requests overlap it; only a reopening
\* later can leave it open (updateCampaignProgress: "Complete when every ReviewItem
\* is non-PENDING").
AllDecidedCompletes == AllDecided ~> (status \in Locked \/ reopened \/ faults > 0)

\* A recount that has loaded a campaign past its end completes it only for the owner's
\* actions (certificationScheduler.js:513, "owner must Extend or Close before campaign
\* can complete").
EndPhaseNeedsOwner ==
  [][\A a \in Request :
       SaveProgress(a) /\ seen[a].status = "EndPhase" /\ status' = "Completed"
         => job[a].op \in {"finalize", "close"}]_vars

\* An entitlement that a reviewer has revoked gets its task, unless no workflow was
\* mapped when the task was to be created, a sweep overwrote the decision, the item
\* was handed to somebody else while a bulk worked on it (its last step then does not
\* find the item), a save was refused or a call failed
\* (certificationPortalWorkflowService: "Enqueue workflow tasks for revoked
\* entitlements").
RevocationIsQueued ==
  \A e \in Entitlement :
    e \in promised ~> (\/ e \in queued \union unmapped \union replaced
                       \/ ItemOf[e] \in moved \/ refused \/ faults > 0)
=============================================================================
