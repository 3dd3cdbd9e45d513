--------------------- MODULE CertificationCampaignProofs ---------------------
(* Theorems about CertificationCampaign, for any items, entitlements,       *)
(* reviewers, requests at work, and bounds.                                  *)
EXTENDS CertificationCampaign, TLAPS

-----------------------------------------------------------------------------
(* Type correctness                                                          *)

\* What a step does to the request that takes it, typed.
LocalsTyped ==
  /\ pc \in [Request -> Points]
  /\ job \in [Request -> Jobs]
  /\ batch \in [Request -> SUBSET Item]
  /\ pend \in [Request -> SUBSET Entitlement]
  /\ seen \in [Request -> Copies]

LEMMA SomebodyDecides == Somebody \in Reviewer
BY SetAssumption DEF Somebody

LEMMA NoJobTyped == NoJob \in Jobs /\ NoCopy \in Copies
BY SomebodyDecides DEF NoJob, NoCopy, Jobs, Copies, Operations, Decisions, CampaignStatuses

LEMMA HandTyped ==
  ASSUME TypeOK, NEW i \in Item, NEW p \in Reviewer, Hand(i, p)
  PROVE  reviewer' \in [Item -> Reviewer] /\ moved' \subseteq Item
BY DEF Hand, TypeOK

LEMMA DoneTyped ==
  ASSUME TypeOK, NEW a \in Request, Done(a)
  PROVE  LocalsTyped'
<1>1. pc' \in [Request -> Points] /\ batch' \in [Request -> SUBSET Item]
      /\ pend' \in [Request -> SUBSET Entitlement]
  BY DEF Done, Goto, Points, TypeOK
<1>2. job' \in [Request -> Jobs] /\ seen' \in [Request -> Copies]
  BY NoJobTyped DEF Done, TypeOK
<1> QED
  BY <1>1, <1>2 DEF LocalsTyped

LEMMA BeginTyped ==
  ASSUME TypeOK, NEW a \in Request, NEW l \in Points, NEW op \in Operations,
         NEW p \in Reviewer, NEW d \in Decisions, NEW S \in SUBSET Item,
         Begin(a, l, op, p, d, S)
  PROVE  /\ pc' \in [Request -> Points] /\ job' \in [Request -> Jobs]
         /\ requests' \in 0 .. MaxRequests
<1>1. pc' \in [Request -> Points] /\ job' \in [Request -> Jobs]
  BY DEF Begin, Goto, Jobs, TypeOK
<1>2. requests' \in 0 .. MaxRequests
  BY BoundAssumption DEF Begin, TypeOK
<1> QED
  BY <1>1, <1>2

LEMMA StaleTyped ==
  ASSUME TypeOK, NEW a \in Request, Bump(a) \/ Fresh(a)
  PROVE  stale' \in [Request -> BOOLEAN]
BY DEF Bump, Fresh, Versioned, TypeOK

LEMMA StatusTyped ==
  ASSUME TypeOK, NEW s \in CampaignStatuses, SetStatus(s)
  PROVE  status' \in CampaignStatuses /\ forced' \in BOOLEAN /\ reopened' \in BOOLEAN
BY DEF SetStatus, TypeOK

LEMMA TypeInit == Init => TypeOK
<1> SUFFICES ASSUME Init PROVE TypeOK
  OBVIOUS
<1>1. LocalsTyped
  BY NoJobTyped DEF Init, LocalsTyped, Points
<1>2. item \in [Item -> Outcomes] /\ ent \in [Entitlement -> Outcomes]
      /\ status \in CampaignStatuses
  BY DEF Init, Outcomes, Decisions, CampaignStatuses
<1>3. requests \in 0 .. MaxRequests /\ faults \in 0 .. MaxFaults
  BY BoundAssumption DEF Init
<1>4. reviewer \in [Item -> Reviewer] /\ moved \subseteq Item
  BY SetAssumption DEF Init
<1> QED
  BY <1>1, <1>2, <1>3, <1>4 DEF Init, TypeOK, LocalsTyped

LEMMA TypeStart ==
  ASSUME TypeOK, NEW a \in Request, Start(a)
  PROVE  TypeOK'
<1> USE DEF items, campaign, assigned, locals, noted, history
<1>d. "APPROVED" \in Decisions /\ Pending \in SUBSET Item /\ Somebody \in Reviewer
  BY SomebodyDecides DEF Decisions, Pending
<1>1. ASSUME BeginItems(a) PROVE TypeOK'
  <2> PICK S \in SUBSET Pending \ {{}}, p \in Reviewer, d \in Decisions :
         /\ Begin(a, "decide", "items", p, d, S)
         /\ batch' = [batch EXCEPT ![a] = S]
    BY <1>1 DEF BeginItems
  <2>1. S \in SUBSET Item
    BY <1>d
  <2>2. /\ pc' \in [Request -> Points] /\ job' \in [Request -> Jobs]
        /\ requests' \in 0 .. MaxRequests
    BY <2>1, BeginTyped DEF Points, Operations
  <2> QED
    BY <1>1, <2>1, <2>2 DEF BeginItems, TypeOK
<1>2. ASSUME Override(a) PROVE TypeOK'
  <2> PICK i \in Item, p \in Reviewer, d \in Decisions :
         /\ Begin(a, "history", "items", Somebody, d, {i})
         /\ item' = [item EXCEPT ![i] = d]
         /\ Hand(i, p)
    BY <1>2 DEF Override
  <2>1. {i} \in SUBSET Item
    OBVIOUS
  <2>2. /\ pc' \in [Request -> Points] /\ job' \in [Request -> Jobs]
        /\ requests' \in 0 .. MaxRequests
    BY <1>d, <2>1, BeginTyped DEF Points, Operations
  <2>3. item' \in [Item -> Outcomes]
    BY DEF TypeOK, Outcomes
  <2> QED
    BY <1>2, <2>2, <2>3, HandTyped DEF Override, TypeOK
<1>3. ASSUME BeginEntitlement(a) PROVE TypeOK'
  <2> PICK e \in Entitlement, p \in Reviewer, d \in Decisions :
         /\ Begin(a, "entitlement", "entitlement", p, d, {ItemOf[e]})
         /\ pend' = [pend EXCEPT ![a] = {e}]
    BY <1>3 DEF BeginEntitlement
  <2>1. {ItemOf[e]} \in SUBSET Item
    BY SetAssumption
  <2>2. /\ pc' \in [Request -> Points] /\ job' \in [Request -> Jobs]
        /\ requests' \in 0 .. MaxRequests
    BY <2>1, BeginTyped DEF Points, Operations
  <2> QED
    BY <1>3, <2>2 DEF BeginEntitlement, TypeOK
<1>4. ASSUME BeginSweep(a) PROVE TypeOK'
  <2> PICK op \in {"bulk", "finalize", "close"}, p \in Reviewer, d \in Decisions,
           S \in SUBSET Item :
         Begin(a, "find", op, p, d, S)
    BY <1>4, <1>d DEF BeginSweep
  <2>2. /\ pc' \in [Request -> Points] /\ job' \in [Request -> Jobs]
        /\ requests' \in 0 .. MaxRequests
    BY BeginTyped DEF Points, Operations
  <2> QED
    BY <1>4, <2>2 DEF BeginSweep, TypeOK
<1>5. ASSUME CloseLocked(a) PROVE TypeOK'
  <2>2. /\ pc' \in [Request -> Points] /\ job' \in [Request -> Jobs]
        /\ requests' \in 0 .. MaxRequests
    BY <1>5, <1>d, BeginTyped DEF CloseLocked, Points, Operations
  <2> QED
    BY <1>5, <2>2 DEF CloseLocked, TypeOK
<1>6. ASSUME ExtendLoad(a) PROVE TypeOK'
  <2>1. seen' \in [Request -> Copies] /\ stale' \in [Request -> BOOLEAN]
    BY <1>6, StaleTyped DEF ExtendLoad, Load, Copies, TypeOK
  <2>2. /\ pc' \in [Request -> Points] /\ job' \in [Request -> Jobs]
        /\ requests' \in 0 .. MaxRequests
    BY <1>6, <1>d, BeginTyped DEF ExtendLoad, Points, Versioned, Operations
  <2> QED
    BY <1>6, <2>1, <2>2 DEF ExtendLoad, TypeOK
<1>7. ASSUME ExpireFind(a) PROVE TypeOK'
  <2>2. /\ pc' \in [Request -> Points] /\ job' \in [Request -> Jobs]
        /\ requests' \in 0 .. MaxRequests
    <3>1. Begin(a, "expire", "job", Somebody, "APPROVED", {})
      BY <1>7 DEF ExpireFind
    <3>2. "expire" \in Points /\ "job" \in Operations /\ {} \in SUBSET Item
      BY DEF Points, Operations
    <3> QED
      BY <1>d, <3>1, <3>2, BeginTyped
  <2> QED
    BY <1>7, <2>2 DEF ExpireFind, TypeOK
<1>8. ASSUME HealRead(a) PROVE TypeOK'
  <2>2. /\ pc' \in [Request -> Points] /\ job' \in [Request -> Jobs]
        /\ requests' \in 0 .. MaxRequests
    BY <1>8, <1>d, BeginTyped DEF HealRead, Points, Operations
  <2> QED
    BY <1>8, <2>2 DEF HealRead, TypeOK
<1> QED
  BY <1>1, <1>2, <1>3, <1>4, <1>5, <1>6, <1>7, <1>8 DEF Start

LEMMA TypeStep ==
  ASSUME TypeOK, NEW a \in Request, Step(a)
  PROVE  TypeOK'
<1> USE DEF items, campaign, assigned, locals, noted, history, bounds
<1>d. Decisions \subseteq Outcomes /\ job[a].decision \in Decisions
      /\ job[a].scope \in SUBSET Item /\ job[a].by \in Reviewer
  BY DEF Outcomes, TypeOK, Jobs
<1>1. ASSUME DecideItem(a) PROVE TypeOK'
  <2> PICK i \in batch[a] :
         \/ /\ item' = [item EXCEPT ![i] = job[a].decision]
            /\ Hand(i, job[a].by)
            /\ NextItem(a, i, "history")
            /\ UNCHANGED <<job, pend, seen>>
         \/ /\ UNCHANGED <<item, assigned>>
            /\ NextItem(a, i, "history")
            /\ UNCHANGED <<job, pend, seen>>
         \/ /\ UNCHANGED <<item, assigned>>
            /\ Done(a)
    BY <1>1 DEF DecideItem
  <2>1. i \in Item
    BY DEF TypeOK
  <2>2. item' \in [Item -> Outcomes]
    BY <1>d, <2>1 DEF TypeOK
  <2>3. LocalsTyped'
    <3>1. CASE NextItem(a, i, "history") /\ UNCHANGED <<job, pend, seen>>
      BY <3>1 DEF NextItem, Goto, Points, TypeOK, LocalsTyped
    <3>2. CASE Done(a)
      BY <3>2, DoneTyped
    <3> QED
      BY <3>1, <3>2
  <2>4. reviewer' \in [Item -> Reviewer] /\ moved' \subseteq Item
    <3>1. CASE Hand(i, job[a].by)
      BY <1>d, <2>1, <3>1, HandTyped
    <3>2. CASE UNCHANGED assigned
      BY <3>2 DEF TypeOK
    <3> QED
      BY <3>1, <3>2
  <2> QED
    BY <1>1, <2>2, <2>3, <2>4 DEF DecideItem, TypeOK, LocalsTyped
<1>2. ASSUME DecideEntitlement(a) PROVE TypeOK'
  <2> PICK e \in pend[a] :
       IF ent[e] = "PENDING"
       THEN /\ ent' = [ent EXCEPT ![e] = job[a].decision]
            /\ promised' = Revoking(a, {e})
            /\ Goto(a, AfterEntitlement(a, e))
            /\ UNCHANGED <<job, batch, pend, seen>>
       ELSE Done(a) /\ UNCHANGED <<ent, promised>>
    BY <1>2 DEF DecideEntitlement
  <2>1. e \in Entitlement
    BY DEF TypeOK
  <2>2. ent' \in [Entitlement -> Outcomes] /\ promised' \subseteq Entitlement
    BY <1>d, <2>1 DEF TypeOK, Revoking
  <2>3. LocalsTyped'
    <3>1. CASE ent[e] = "PENDING"
      <4>1. AfterEntitlement(a, e) \in Points
        BY DEF AfterEntitlement, Points, RollUps
      <4> QED
        BY <3>1, <4>1 DEF Goto, TypeOK, LocalsTyped
    <3>2. CASE ent[e] # "PENDING"
      BY <3>2, DoneTyped
    <3> QED
      BY <3>1, <3>2
  <2> QED
    BY <1>2, <2>2, <2>3 DEF DecideEntitlement, TypeOK, LocalsTyped
<1>3. ASSUME RollUp(a) PROVE TypeOK'
  <2> PICK e \in pend[a] :
       /\ item' = IF pc[a] = "rollupReviewer" THEN item
                  ELSE [item EXCEPT ![ItemOf[e]] = "APPROVED"]
       /\ IF pc[a] = "rollupStatus" THEN UNCHANGED assigned ELSE Hand(ItemOf[e], job[a].by)
    BY <1>3 DEF RollUp
  <2>1. item' \in [Item -> Outcomes]
    BY DEF TypeOK, Outcomes, Decisions
  <2>2. ItemOf[e] \in Item
    BY SetAssumption DEF TypeOK
  <2>3. reviewer' \in [Item -> Reviewer] /\ moved' \subseteq Item
    <3>1. CASE Hand(ItemOf[e], job[a].by)
      BY <1>d, <2>2, <3>1, HandTyped
    <3>2. CASE UNCHANGED assigned
      BY <3>2 DEF TypeOK
    <3> QED
      BY <3>1, <3>2
  <2> QED
    BY <1>3, <2>1, <2>3 DEF RollUp, TypeOK, Goto, Points
<1>4. ASSUME Find(a) PROVE TypeOK'
  <2>1. pc' \in [Request -> Points]
    BY <1>4 DEF Find, Goto, Points, TypeOK
  <2>2. job' \in [Request -> Jobs]
    <3>1. job' = job \/ \E S \in SUBSET Item, op \in {"items", "bulk"} :
                          job' = [job EXCEPT ![a] = [@ EXCEPT !.scope = S, !.op = op]]
      <4> DEFINE S == {i \in Pending : reviewer[i] = job[a].by}
      <4>1. S \in SUBSET Item
        BY DEF Pending
      <4>2. job' = job \/ job' = [job EXCEPT ![a] =
                                   [@ EXCEPT !.scope = S, !.op = IF S = {} THEN "items" ELSE "bulk"]]
        BY <1>4 DEF Find
      <4> QED
        BY <4>1, <4>2
    <3>2. job[a] \in Jobs
      BY DEF TypeOK
    <3>3. \A S \in SUBSET Item, op \in {"items", "bulk"} :
            [job[a] EXCEPT !.scope = S, !.op = op] \in Jobs
      BY <3>2 DEF Jobs, Operations
    <3> QED
      BY <3>1, <3>3 DEF TypeOK
  <2>3. batch' \in [Request -> SUBSET Item] /\ pend' \in [Request -> SUBSET Entitlement]
    BY <1>4 DEF Find, Pending, TypeOK
  <2> QED
    BY <1>4, <2>1, <2>2, <2>3 DEF Find, TypeOK
<1>5. ASSUME Sweep(a) PROVE TypeOK'
  <2> PICK i \in batch[a] :
       LET mine == {e \in pend[a] : ItemOf[e] = i} IN
       /\ ent' = [e \in Entitlement |-> IF e \in mine THEN job[a].decision ELSE ent[e]]
       /\ item' = [item EXCEPT ![i] =
            IF job[a].op = "bulk" /\ \E e \in Entitlement : ItemOf[e] = i
            THEN "APPROVED" ELSE job[a].decision]
       /\ replaced' = replaced \union {e \in mine : ent[e] # "PENDING"}
       /\ promised' = IF job[a].op = "bulk" THEN Revoking(a, mine) ELSE promised
       /\ pend' = [pend EXCEPT ![a] = @ \ mine]
       /\ NextItem(a, i, "history")
    BY <1>5 DEF Sweep
  <2>1. ent' \in [Entitlement -> Outcomes]
    BY <1>d DEF TypeOK
  <2>2. item' \in [Item -> Outcomes]
    BY <1>d DEF TypeOK, Decisions
  <2>3. /\ replaced' \subseteq Entitlement /\ promised' \subseteq Entitlement
        /\ pend' \in [Request -> SUBSET Entitlement]
    BY DEF TypeOK, Revoking
  <2>4. pc' \in [Request -> Points] /\ batch' \in [Request -> SUBSET Item]
    BY DEF NextItem, Goto, Points, TypeOK
  <2> QED
    BY <1>5, <2>1, <2>2, <2>3, <2>4 DEF Sweep, TypeOK
<1>6. ASSUME SaveHistory(a) PROVE TypeOK'
  BY <1>6, StaleTyped DEF SaveHistory, Goto, Points, TypeOK
<1>7. ASSUME LoadCampaign(a) PROVE TypeOK'
  BY <1>7 DEF LoadCampaign, Goto, Points, Copies, TypeOK
<1>8. ASSUME CountPending(a) PROVE TypeOK'
  BY <1>8 DEF CountPending, Goto, Points, TypeOK
<1>9. ASSUME SaveProgress(a) PROVE TypeOK'
  <2>1. status' \in CampaignStatuses /\ forced' \in BOOLEAN /\ reopened' \in BOOLEAN
    <3>1. \/ SetStatus("Completed") \/ SetStatus("Active") \/ UNCHANGED <<status, noted>>
      BY <1>9 DEF SaveProgress
    <3>2. "Completed" \in CampaignStatuses /\ "Active" \in CampaignStatuses
      BY DEF CampaignStatuses, Locked
    <3> QED
      BY <3>1, <3>2, StatusTyped DEF TypeOK
  <2> QED
    BY <1>9, <2>1, NoJobTyped DEF SaveProgress, Goto, Points, TypeOK
<1>10. ASSUME SyncLoad(a) PROVE TypeOK'
  BY <1>10, StaleTyped DEF SyncLoad, Goto, Points, Versioned, TypeOK
<1>11. ASSUME SyncSave(a) PROVE TypeOK'
  <2>1. stale' \in [Request -> BOOLEAN]
    BY <1>11, StaleTyped DEF SyncSave
  <2>2. LocalsTyped'
    <3>1. Done(a) \/ \E l \in {"closeLoad", "queue"} : Goto(a, l) /\ UNCHANGED <<job, batch, pend, seen>>
      BY <1>11 DEF SyncSave, Proceed
    <3> QED
      BY <3>1, DoneTyped DEF Goto, Points, TypeOK, LocalsTyped
  <2>3. refused' \in BOOLEAN
    BY <1>11 DEF SyncSave, TypeOK
  <2> QED
    BY <1>11, <2>1, <2>2, <2>3 DEF SyncSave, TypeOK, LocalsTyped
<1>12. ASSUME Queue(a) PROVE TypeOK'
  <2> DEFINE Found == IF job[a].op = "entitlement" THEN pend[a]
                      ELSE {e \in Entitlement : reviewer[ItemOf[e]] = job[a].by
                                                /\ ent[e] = "REVOKE_IN_PROGRESS"}
  <2>1. Enqueue(a, Found)
    BY <1>12 DEF Queue
  <2>2. Found \subseteq Entitlement
    BY DEF TypeOK
  <2>3. queued' \subseteq Entitlement /\ unmapped' \subseteq Entitlement
    <3> HIDE DEF Found
    <3> QED
      BY <2>1, <2>2 DEF Enqueue, TypeOK
  <2> QED
    BY <2>1, <2>3, DoneTyped DEF Enqueue, TypeOK, LocalsTyped
<1>13. ASSUME CloseLoad(a) PROVE TypeOK'
  BY <1>13, StaleTyped DEF CloseLoad, Load, Goto, Points, Versioned, Copies, TypeOK
<1>14. ASSUME CloseSave(a) PROVE TypeOK'
  <2>1. status' \in CampaignStatuses /\ forced' \in BOOLEAN /\ reopened' \in BOOLEAN
    <3>1. SetStatus("Closed") \/ UNCHANGED <<status, noted>>
      BY <1>14 DEF CloseSave
    <3> QED
      BY <3>1, StatusTyped DEF TypeOK, CampaignStatuses, Locked
  <2>2. stale' \in [Request -> BOOLEAN]
    BY <1>14, StaleTyped DEF CloseSave
  <2> QED
    BY <1>14, <2>1, <2>2, DoneTyped DEF CloseSave, TypeOK, LocalsTyped
<1>15. ASSUME ExtendSave(a) PROVE TypeOK'
  <2>1. status' \in CampaignStatuses /\ forced' \in BOOLEAN /\ reopened' \in BOOLEAN
    <3>1. SetStatus("Active") \/ UNCHANGED <<status, noted>>
      BY <1>15 DEF ExtendSave
    <3> QED
      BY <3>1, StatusTyped DEF TypeOK, CampaignStatuses
  <2>2. stale' \in [Request -> BOOLEAN]
    BY <1>15, StaleTyped DEF ExtendSave
  <2>3. mailed' \in BOOLEAN
    BY <1>15 DEF ExtendSave, TypeOK
  <2> QED
    BY <1>15, <2>1, <2>2, <2>3, DoneTyped DEF ExtendSave, TypeOK, LocalsTyped
<1>16. ASSUME Expire(a) PROVE TypeOK'
  <2>1. status' \in CampaignStatuses /\ forced' \in BOOLEAN /\ reopened' \in BOOLEAN
    BY <1>16, StatusTyped DEF Expire, CampaignStatuses
  <2> QED
    BY <1>16, <2>1, DoneTyped DEF Expire, TypeOK, LocalsTyped
<1>17. ASSUME Heal(a) PROVE TypeOK'
  <2>1. status' \in CampaignStatuses /\ forced' \in BOOLEAN /\ reopened' \in BOOLEAN
    BY <1>17, StatusTyped DEF Heal, CampaignStatuses, Locked
  <2> QED
    BY <1>17, <2>1, DoneTyped DEF Heal, TypeOK, LocalsTyped
<1> QED
  BY <1>1, <1>2, <1>3, <1>4, <1>5, <1>6, <1>7, <1>8, <1>9, <1>10, <1>11, <1>12, <1>13,
     <1>14, <1>15, <1>16, <1>17 DEF Step

LEMMA TypeNext == TypeOK /\ [Next]_vars => TypeOK'
<1> SUFFICES ASSUME TypeOK, [Next]_vars PROVE TypeOK'
  OBVIOUS
<1> USE DEF items, campaign, assigned, locals, noted, history, bounds
<1>1. ASSUME NEW a \in Request, Fail(a) PROVE TypeOK'
  <2>1. faults' \in 0 .. MaxFaults
    BY <1>1, BoundAssumption DEF Fail, TypeOK
  <2> QED
    BY <1>1, <2>1, DoneTyped, StaleTyped DEF Fail, TypeOK, LocalsTyped
<1>2. ASSUME ForceLocked PROVE TypeOK'
  <2>1. requests' \in 0 .. MaxRequests
    BY <1>2, BoundAssumption DEF ForceLocked, TypeOK
  <2> QED
    BY <1>2, <2>1 DEF ForceLocked, TypeOK, CampaignStatuses
<1>3. ASSUME UNCHANGED vars PROVE TypeOK'
  BY <1>3 DEF vars, TypeOK
<1> QED
  BY <1>1, <1>2, <1>3, TypeStart, TypeStep DEF Next

\* Every reachable state is well typed: items, entitlements and the campaign take
\* their models' statuses, whatever the requests in progress (Campaign, ReviewItem).
THEOREM TypeCorrect == Spec => []TypeOK
<1>1. Init => TypeOK
  BY TypeInit
<1>2. TypeOK /\ [Next]_vars => TypeOK'
  BY TypeNext
<1> QED
  BY <1>1, <1>2, PTL DEF Spec

-----------------------------------------------------------------------------
(* What a step leaves alone: the other requests' locals; an item that is     *)
(* decided; an entitlement's decision, unless a sweep notes that it replaced *)
(* it.                                                                       *)

LEMMA OthersKeep ==
  ASSUME TypeOK, NEW a \in Request, Start(a) \/ Step(a) \/ Fail(a), NEW b \in Request \ {a}
  PROVE  pc'[b] = pc[b] /\ job'[b] = job[b] /\ batch'[b] = batch[b] /\ pend'[b] = pend[b]
<1> USE DEF TypeOK, locals, Goto
<1>d. Done(a) => pc'[b] = pc[b] /\ job'[b] = job[b] /\ batch'[b] = batch[b] /\ pend'[b] = pend[b]
  BY DEF Done
<1>1. CASE BeginItems(a) \/ Override(a) \/ BeginEntitlement(a) \/ BeginSweep(a) \/ CloseLocked(a)
           \/ ExtendLoad(a) \/ ExpireFind(a) \/ HealRead(a)
  BY <1>1 DEF BeginItems, Override, BeginEntitlement, BeginSweep, CloseLocked, ExtendLoad,
              ExpireFind, HealRead, Begin
<1>2. CASE DecideItem(a) \/ DecideEntitlement(a) \/ RollUp(a) \/ Find(a) \/ Sweep(a)
  BY <1>2, <1>d DEF DecideItem, DecideEntitlement, RollUp, Find, Sweep, NextItem
<1>3. CASE SaveHistory(a) \/ LoadCampaign(a) \/ CountPending(a) \/ SaveProgress(a)
           \/ SyncLoad(a) \/ CloseLoad(a)
  BY <1>3 DEF SaveHistory, LoadCampaign, CountPending, SaveProgress, SyncLoad, CloseLoad
<1>4. CASE SyncSave(a) \/ Queue(a) \/ CloseSave(a) \/ ExtendSave(a) \/ Expire(a) \/ Heal(a)
           \/ Fail(a)
  BY <1>4, <1>d DEF SyncSave, Proceed, Queue, Enqueue, CloseSave, ExtendSave, Expire, Heal, Fail
<1> QED
  BY <1>1, <1>2, <1>3, <1>4 DEF Start, Step

LEMMA DecidedStays == TypeOK /\ [Next]_vars => Pending' \subseteq Pending
<1> SUFFICES ASSUME TypeOK, [Next]_vars, NEW i \in Item, item[i] # "PENDING"
             PROVE  item'[i] # "PENDING"
  BY DEF Pending
<1>u. CASE UNCHANGED item
  BY <1>u
<1>1. ASSUME NEW a \in Request, Override(a) PROVE item'[i] # "PENDING"
  BY <1>1 DEF Override, Decisions, TypeOK
<1>2. ASSUME NEW a \in Request, DecideItem(a) PROVE item'[i] # "PENDING"
  <2>1. job[a].decision \in Decisions
    BY DEF TypeOK, Jobs
  <2> QED
    BY <1>2, <2>1 DEF DecideItem, Decisions, TypeOK
<1>3. ASSUME NEW a \in Request, RollUp(a) PROVE item'[i] # "PENDING"
  BY <1>3 DEF RollUp
<1>4. ASSUME NEW a \in Request, Sweep(a) PROVE item'[i] # "PENDING"
  <2>1. job[a].decision \in Decisions
    BY DEF TypeOK, Jobs
  <2> QED
    BY <1>4, <2>1 DEF Sweep, Decisions, TypeOK
<1> QED
  BY <1>u, <1>1, <1>2, <1>3, <1>4
     DEF Next, vars, items, Start, Step, BeginItems, BeginEntitlement, BeginSweep, CloseLocked,
         ExtendLoad, ExpireFind, HealRead, DecideEntitlement, Find, SaveHistory, LoadCampaign,
         CountPending, SaveProgress, SyncLoad, SyncSave, Queue, Enqueue, CloseLoad, CloseSave,
         ExtendSave, Expire, Heal, ForceLocked, Fail

LEMMA DecisionStays ==
  ASSUME TypeOK, [Next]_vars, NEW e \in Entitlement, ent[e] # "PENDING"
  PROVE  ent'[e] = ent[e] \/ e \in replaced'
<1>u. CASE UNCHANGED ent
  BY <1>u
<1>1. ASSUME NEW a \in Request, DecideEntitlement(a) PROVE ent'[e] = ent[e]
  BY <1>1 DEF DecideEntitlement, TypeOK
<1>2. ASSUME NEW a \in Request, Sweep(a) PROVE ent'[e] = ent[e] \/ e \in replaced'
  BY <1>2 DEF Sweep, TypeOK
<1> QED
  BY <1>u, <1>1, <1>2
     DEF Next, vars, items, Start, Step, BeginItems, Override, BeginEntitlement, BeginSweep,
         CloseLocked, ExtendLoad, ExpireFind, HealRead, DecideItem, RollUp, Find, SaveHistory,
         LoadCampaign, CountPending, SaveProgress, SyncLoad, SyncSave, Queue, Enqueue, CloseLoad,
         CloseSave, ExtendSave, Expire, Heal, ForceLocked, Fail

LEMMA ReplacedGrows == [Next]_vars => replaced \subseteq replaced'
<1> SUFFICES ASSUME [Next]_vars PROVE replaced \subseteq replaced'
  OBVIOUS
<1> USE DEF history
<1>1. ASSUME NEW a \in Request, Sweep(a) PROVE replaced \subseteq replaced'
  BY <1>1 DEF Sweep
<1>2. ASSUME NEW a \in Request, Start(a) PROVE replaced' = replaced
  BY <1>2 DEF Start, BeginItems, Override, BeginEntitlement, BeginSweep, CloseLocked,
     ExtendLoad, ExpireFind, HealRead
<1>3. ASSUME NEW a \in Request, Step(a), ~Sweep(a) PROVE replaced' = replaced
  BY <1>3 DEF Step, DecideItem, DecideEntitlement, RollUp, Find, SaveHistory, LoadCampaign,
     CountPending, SaveProgress, SyncLoad, SyncSave, Queue, Enqueue, CloseLoad, CloseSave,
     ExtendSave, Expire, Heal
<1>4. ASSUME NEW a \in Request, Fail(a) PROVE replaced' = replaced
  BY <1>4 DEF Fail
<1>5. CASE ForceLocked \/ UNCHANGED vars
  BY <1>5 DEF ForceLocked, vars
<1> QED
  BY <1>1, <1>2, <1>3, <1>4, <1>5 DEF Next

-----------------------------------------------------------------------------
(* Locked means decided.  A request that is about to lock the campaign has   *)
(* seen every item decided, and items stay decided.  For a recount that is   *)
(* its last step; for a close, whose recount's result nobody looks at, it is *)
(* the sweep: until its last save, what is pending is what it has to write.  *)

\* The operations that pass a point.
Route(a) ==
  /\ pc[a] = "decide" => job[a].op = "items"
  /\ pc[a] \in RollUps \union {"entitlement"} => job[a].op = "entitlement"
  /\ pc[a] \in {"find", "sweep"} => job[a].op \in {"bulk", "finalize", "close"}
  /\ pc[a] \in {"closeLoad", "closeSave"} => job[a].op = "close"
  /\ pc[a] = "queue" => job[a].decision # "APPROVED"

AfterSweep == {"history", "load", "count", "saveDone", "saveOpen", "syncLoad", "syncSave",
               "closeLoad", "closeSave"}

\* What a request that will lock the campaign knows of the items.
Covered(a) ==
  /\ pc[a] \in {"saveDone", "heal"} => AllDecided
  /\ job[a].op = "close" /\ pc[a] \in AfterSweep => AllDecided
  /\ job[a].op = "close" /\ pc[a] = "sweep" => Pending \subseteq batch[a]

LockInv == /\ \A a \in Request : Route(a) /\ Covered(a)
           /\ LockedMeansDecided

LEMMA LockInit == Init => LockInv
BY DEF Init, LockInv, Route, RollUps, Covered, LockedMeansDecided, Locked, NoJob, AfterSweep

\* The request that takes a step keeps its route ...
LEMMA RouteKept ==
  ASSUME TypeOK, NEW a \in Request, Route(a), Start(a) \/ Step(a) \/ Fail(a)
  PROVE  Route(a)'
<1> USE DEF TypeOK, Goto, locals, Route, RollUps
<1>d. Done(a) => Route(a)'
  BY DEF Done, NoJob
<1>1. CASE BeginItems(a) \/ Override(a) \/ BeginEntitlement(a)
  BY <1>1 DEF BeginItems, Override, BeginEntitlement, Begin
<1>2. CASE BeginSweep(a) \/ CloseLocked(a)
  BY <1>2 DEF BeginSweep, CloseLocked, Begin
<1>3. CASE ExtendLoad(a) \/ ExpireFind(a) \/ HealRead(a)
  BY <1>3 DEF ExtendLoad, ExpireFind, HealRead, Begin
<1>4. CASE DecideItem(a)
  BY <1>4, <1>d DEF DecideItem, NextItem
<1>5. CASE DecideEntitlement(a) \/ RollUp(a)
  BY <1>5, <1>d DEF DecideEntitlement, AfterEntitlement, RollUp
<1>6. CASE Find(a)
  BY <1>6 DEF Find
<1>7. CASE Sweep(a)
  BY <1>7 DEF Sweep, NextItem
<1>8. CASE SaveHistory(a) \/ LoadCampaign(a) \/ CountPending(a) \/ SaveProgress(a)
           \/ SyncLoad(a) \/ CloseLoad(a)
  BY <1>8 DEF SaveHistory, LoadCampaign, CountPending, SaveProgress, SyncLoad, CloseLoad
<1>9. CASE SyncSave(a)
  BY <1>9, <1>d DEF SyncSave, Proceed
<1>10. CASE Queue(a) \/ CloseSave(a) \/ ExtendSave(a) \/ Expire(a) \/ Heal(a) \/ Fail(a)
  BY <1>10, <1>d DEF Queue, Enqueue, CloseSave, ExtendSave, Expire, Heal, Fail
<1> QED
  BY <1>1, <1>2, <1>3, <1>4, <1>5, <1>6, <1>7, <1>8, <1>9, <1>10 DEF Start, Step

\* ... and its knowledge.
LEMMA CoveredKept ==
  ASSUME TypeOK, NEW a \in Request, Route(a), Covered(a), Start(a) \/ Step(a) \/ Fail(a),
         Pending' \subseteq Pending
  PROVE  Covered(a)'
<1> USE DEF TypeOK, Goto, locals, AllDecided, AfterSweep, RollUps
<1>d. Done(a) => Covered(a)'
  BY DEF Done, NoJob, Covered
<1>1. CASE BeginItems(a) \/ Override(a) \/ BeginEntitlement(a) \/ BeginSweep(a)
  BY <1>1 DEF BeginItems, Override, BeginEntitlement, BeginSweep, Begin, Covered
<1>2. CASE CloseLocked(a) \/ HealRead(a)
  BY <1>2 DEF CloseLocked, HealRead, Begin, Covered
<1>3. CASE ExtendLoad(a) \/ ExpireFind(a)
  BY <1>3 DEF ExtendLoad, ExpireFind, Begin, Covered
<1>4. CASE DecideItem(a)
  BY <1>4, <1>d DEF DecideItem, NextItem, Covered, Route
<1>5. CASE DecideEntitlement(a) \/ RollUp(a)
  BY <1>5, <1>d DEF DecideEntitlement, AfterEntitlement, RollUp, Covered, Route
<1>6. CASE Find(a)
  <2>1. Pending' = Pending
    BY <1>6 DEF Find, items, Pending
  <2>2. CASE job[a].op = "bulk"
    <3>1. job'[a].op \in {"items", "bulk"}
      <4>1. job[a] \in Jobs
        OBVIOUS
      <4>2. \A S, op : [job[a] EXCEPT !.scope = S, !.op = op].op = op
        BY <4>1 DEF Jobs
      <4> QED
        BY <1>6, <2>2, <4>2 DEF Find
    <3>2. pc'[a] \in {"load", "sweep"}
      BY <1>6 DEF Find
    <3> QED
      BY <3>1, <3>2 DEF Covered
  <2>3. CASE job[a].op # "bulk"
    BY <1>6, <2>1, <2>3 DEF Find, Covered
  <2> QED
    BY <2>2, <2>3
<1>7. CASE Sweep(a)
  <2> PICK i \in batch[a] :
        /\ item' = [item EXCEPT ![i] =
             IF job[a].op = "bulk" /\ \E e \in Entitlement : ItemOf[e] = i
             THEN "APPROVED" ELSE job[a].decision]
        /\ NextItem(a, i, "history")
    BY <1>7 DEF Sweep
  <2>1. job[a].decision # "PENDING" /\ i \in Item
    BY DEF Jobs, Decisions
  <2>2. Pending' \subseteq Pending \ {i}
    BY <2>1 DEF Pending
  <2>3. batch'[a] = batch[a] \ {i} /\ job' = job
    BY <1>7 DEF NextItem, Sweep
  <2>4. pc'[a] \in {"sweep", "history"} /\ (pc'[a] = "history" => batch[a] = {i})
    BY <1>7 DEF NextItem, Sweep
  <2> QED
    BY <1>7, <2>2, <2>3, <2>4 DEF Covered, Sweep
<1>8. CASE SaveHistory(a) \/ LoadCampaign(a) \/ SaveProgress(a) \/ SyncLoad(a) \/ CloseLoad(a)
  BY <1>8 DEF SaveHistory, LoadCampaign, SaveProgress, SyncLoad, CloseLoad, Covered
<1>9. CASE CountPending(a)
  BY <1>9 DEF CountPending, Covered
<1>10. CASE SyncSave(a)
  BY <1>10, <1>d DEF SyncSave, Proceed, Covered
<1>11. CASE Queue(a) \/ CloseSave(a) \/ ExtendSave(a) \/ Expire(a) \/ Heal(a) \/ Fail(a)
  BY <1>11, <1>d DEF Queue, Enqueue, CloseSave, ExtendSave, Expire, Heal, Fail
<1> QED
  BY <1>1, <1>2, <1>3, <1>4, <1>5, <1>6, <1>7, <1>8, <1>9, <1>10, <1>11 DEF Start, Step

\* A step that sets no status keeps the campaign's lock justified.
LEMMA LockKept ==
  ASSUME TypeOK, LockInv, [Next]_vars
  PROVE  LockedMeansDecided'
<1>0. AllDecided => AllDecided'
  BY DecidedStays DEF AllDecided
<1>u. UNCHANGED <<status, forced>> => LockedMeansDecided'
  BY <1>0 DEF LockInv, LockedMeansDecided
<1>s. ASSUME NEW s, SetStatus(s), s \in Locked => AllDecided PROVE LockedMeansDecided'
  BY <1>0, <1>s DEF SetStatus, LockedMeansDecided
<1>1. ASSUME NEW a \in Request, SaveProgress(a) PROVE LockedMeansDecided'
  <2>1. pc[a] = "saveDone" => AllDecided
    BY DEF LockInv, Covered
  <2>2. \/ pc[a] = "saveDone" /\ SetStatus("Completed")
        \/ SetStatus("Active")
        \/ UNCHANGED <<status, noted>>
    BY <1>1 DEF SaveProgress
  <2>3. "Active" \notin Locked
    BY DEF Locked
  <2> QED
    BY <2>1, <2>2, <2>3, <1>s, <1>u DEF noted
<1>2. ASSUME NEW a \in Request, CloseSave(a) PROVE LockedMeansDecided'
  <2>1. AllDecided
    BY <1>2 DEF CloseSave, LockInv, Covered, Route, AfterSweep
  <2>2. SetStatus("Closed") \/ UNCHANGED <<status, noted>>
    BY <1>2 DEF CloseSave
  <2> QED
    BY <2>1, <2>2, <1>s, <1>u DEF noted
<1>3. ASSUME NEW a \in Request, ExtendSave(a) PROVE LockedMeansDecided'
  <2>1. SetStatus("Active") \/ UNCHANGED <<status, noted>>
    BY <1>3 DEF ExtendSave
  <2>2. "Active" \notin Locked
    BY DEF Locked
  <2> QED
    BY <2>1, <2>2, <1>s, <1>u DEF noted
<1>4. ASSUME NEW a \in Request, Expire(a) PROVE LockedMeansDecided'
  <2>1. SetStatus("EndPhase") /\ "EndPhase" \notin Locked
    BY <1>4 DEF Expire, Locked
  <2> QED
    BY <2>1, <1>s
<1>5. ASSUME NEW a \in Request, Heal(a) PROVE LockedMeansDecided'
  <2>1. SetStatus("Completed") /\ AllDecided
    BY <1>5 DEF Heal, LockInv, Covered
  <2> QED
    BY <2>1, <1>s
<1>6. CASE ForceLocked
  BY <1>6 DEF ForceLocked, LockedMeansDecided
<1> QED
  BY <1>u, <1>1, <1>2, <1>3, <1>4, <1>5, <1>6
     DEF Next, vars, items, campaign, noted, Start, Step, BeginItems, Override,
         BeginEntitlement, BeginSweep, CloseLocked, ExtendLoad, ExpireFind, HealRead,
         DecideItem, DecideEntitlement, RollUp, Find, Sweep, SaveHistory, LoadCampaign,
         CountPending, SyncLoad, SyncSave, Queue, Enqueue, CloseLoad, Fail

LEMMA LockStep == TypeOK /\ LockInv /\ [Next]_vars => LockInv'
<1> SUFFICES ASSUME TypeOK, LockInv, [Next]_vars PROVE LockInv'
  OBVIOUS
<1>0. Pending' \subseteq Pending
  BY DecidedStays
<1>1. LockedMeansDecided'
  BY LockKept
<1>2. ASSUME NEW b \in Request, pc'[b] = pc[b], job'[b] = job[b], batch'[b] = batch[b]
      PROVE  Route(b)' /\ Covered(b)'
  BY <1>0, <1>2 DEF LockInv, Route, Covered, AllDecided
<1>3. ASSUME NEW a \in Request, Start(a) \/ Step(a) \/ Fail(a) PROVE LockInv'
  <2>1. Route(a)' /\ Covered(a)'
    BY <1>0, <1>3, RouteKept, CoveredKept DEF LockInv
  <2>2. \A b \in Request \ {a} : Route(b)' /\ Covered(b)'
    BY <1>2, <1>3, OthersKeep
  <2> QED
    BY <1>1, <2>1, <2>2 DEF LockInv
<1>4. CASE ForceLocked \/ UNCHANGED vars
  <2>1. \A b \in Request : Route(b)' /\ Covered(b)'
    BY <1>2, <1>4 DEF ForceLocked, vars, locals
  <2> QED
    BY <1>1, <2>1 DEF LockInv
<1> QED
  BY <1>3, <1>4 DEF Next

\* A campaign that was not forced is locked only with every item decided, whatever
\* decisions, sweeps, recounts, closes, extensions and expiries overlap
\* (updateCampaignProgress, closeCampaignApproveRemaining, getCampaign).
THEOREM LockIsJustified == Spec => []LockedMeansDecided
<1>1. Init => TypeOK /\ LockInv
  BY TypeInit, LockInit
<1>2. TypeOK /\ LockInv /\ [Next]_vars => TypeOK' /\ LockInv'
  BY TypeNext, LockStep
<1>3. LockInv => LockedMeansDecided
  BY DEF LockInv
<1> QED
  BY <1>1, <1>2, <1>3, PTL DEF Spec

-----------------------------------------------------------------------------
(* Queued means revoked.  A request for one entitlement carries the one it    *)
(* has decided to the queue: from its update on, the entitlement is revoked  *)
(* or a sweep has replaced the decision.                                     *)

Revoked(e) == ent[e] = "REVOKE_IN_PROGRESS" \/ e \in replaced

Carried(a) ==
  /\ pc[a] = "entitlement" => \A e, f \in pend[a] : e = f
  /\ job[a].op = "entitlement" /\ job[a].decision # "APPROVED" /\ pc[a] # "entitlement"
       => \A e \in pend[a] : Revoked(e)

RevokeInv == /\ \A a \in Request : Route(a) /\ Carried(a)
             /\ \A e \in queued : Revoked(e)

LEMMA RevokeInit == Init => RevokeInv
BY DEF Init, RevokeInv, Route, RollUps, Carried, NoJob

LEMMA RevokedKept ==
  ASSUME TypeOK, [Next]_vars, NEW e \in Entitlement, Revoked(e)
  PROVE  Revoked(e)'
BY DecisionStays, ReplacedGrows DEF Revoked

LEMMA CarriedKept ==
  ASSUME TypeOK, [Next]_vars, NEW a \in Request, Route(a), Carried(a),
         Start(a) \/ Step(a) \/ Fail(a)
  PROVE  Carried(a)'
<1> USE DEF TypeOK, Goto, locals, RollUps
<1>0. \A e \in pend[a] : Revoked(e) => Revoked(e)'
  BY RevokedKept
<1>d. Done(a) => Carried(a)'
  BY DEF Done, NoJob, Carried
<1>k. pc[a] # "entitlement" /\ pc'[a] # "entitlement" /\ UNCHANGED <<job, pend>> => Carried(a)'
  BY <1>0 DEF Carried
<1>1. CASE BeginItems(a) \/ Override(a) \/ BeginEntitlement(a) \/ BeginSweep(a) \/ CloseLocked(a)
           \/ ExtendLoad(a) \/ ExpireFind(a) \/ HealRead(a)
  BY <1>1 DEF BeginItems, Override, BeginEntitlement, BeginSweep, CloseLocked, ExtendLoad,
              ExpireFind, HealRead, Begin, Carried
<1>2. CASE DecideItem(a) \/ RollUp(a) \/ Sweep(a)
  <2>1. CASE DecideItem(a)
    BY <2>1, <1>d, <1>k DEF DecideItem, NextItem
  <2>2. CASE RollUp(a)
    BY <2>2, <1>k DEF RollUp
  <2>3. CASE Sweep(a)
    BY <2>3 DEF Sweep, NextItem, Route, Carried
  <2> QED
    BY <1>2, <2>1, <2>2, <2>3
<1>3. CASE DecideEntitlement(a)
  <2> PICK e \in pend[a] :
       IF ent[e] = "PENDING"
       THEN /\ ent' = [ent EXCEPT ![e] = job[a].decision]
            /\ UNCHANGED <<job, pend>>
       ELSE Done(a)
    BY <1>3 DEF DecideEntitlement
  <2>1. CASE ent[e] = "PENDING"
    <3>0. pend[a] = {e} /\ e \in Entitlement
      BY <1>3 DEF Carried, DecideEntitlement
    <3>1. job[a].decision # "APPROVED" => job[a].decision = "REVOKE_IN_PROGRESS"
      BY DEF Jobs, Decisions
    <3> QED
      BY <1>3, <2>1, <3>0, <3>1 DEF Carried, Revoked, DecideEntitlement, AfterEntitlement
  <2>2. CASE ent[e] # "PENDING"
    BY <2>2, <1>d
  <2> QED
    BY <2>1, <2>2
<1>4. CASE Find(a)
  BY <1>4 DEF Find, Route, Carried
<1>5. CASE SaveHistory(a) \/ LoadCampaign(a) \/ CountPending(a) \/ SaveProgress(a)
           \/ SyncLoad(a) \/ CloseLoad(a)
  BY <1>5, <1>k DEF SaveHistory, LoadCampaign, CountPending, SaveProgress, SyncLoad, CloseLoad
<1>6. CASE SyncSave(a)
  BY <1>6, <1>d, <1>k DEF SyncSave, Proceed
<1>7. CASE Queue(a) \/ CloseSave(a) \/ ExtendSave(a) \/ Expire(a) \/ Heal(a) \/ Fail(a)
  BY <1>7, <1>d DEF Queue, Enqueue, CloseSave, ExtendSave, Expire, Heal, Fail
<1> QED
  BY <1>1, <1>2, <1>3, <1>4, <1>5, <1>6, <1>7 DEF Start, Step

LEMMA RevokeStep == TypeOK /\ RevokeInv /\ [Next]_vars => RevokeInv'
<1> SUFFICES ASSUME TypeOK, RevokeInv, [Next]_vars PROVE RevokeInv'
  OBVIOUS
<1>0. \A e \in Entitlement : Revoked(e) => Revoked(e)'
  BY RevokedKept
<1>1. \A e \in queued' : Revoked(e)'
  <2>1. CASE queued' = queued
    BY <1>0, <2>1 DEF RevokeInv, TypeOK
  <2>2. ASSUME NEW a \in Request, Queue(a) PROVE \A e \in queued' : Revoked(e)'
    <3>1. \A e \in queued' : e \in Entitlement /\ Revoked(e)
      BY <2>2 DEF Queue, Enqueue, RevokeInv, Carried, Route, Revoked, TypeOK
    <3> QED
      BY <1>0, <3>1
  <2> QED
    BY <2>1, <2>2
       DEF Next, vars, Start, Step, BeginItems, Override, BeginEntitlement, BeginSweep,
           CloseLocked, ExtendLoad, ExpireFind, HealRead, DecideItem, DecideEntitlement, RollUp,
           Find, Sweep, SaveHistory, LoadCampaign, CountPending, SaveProgress, SyncLoad,
           SyncSave, CloseLoad, CloseSave, ExtendSave, Expire, Heal, ForceLocked, Fail
<1>2. ASSUME NEW b \in Request, pc'[b] = pc[b], job'[b] = job[b], batch'[b] = batch[b],
             pend'[b] = pend[b]
      PROVE  Route(b)' /\ Carried(b)'
  BY <1>0, <1>2 DEF RevokeInv, Route, Carried, TypeOK
<1>3. ASSUME NEW a \in Request, Start(a) \/ Step(a) \/ Fail(a) PROVE RevokeInv'
  <2>1. Route(a)' /\ Carried(a)'
    BY <1>3, RouteKept, CarriedKept DEF RevokeInv
  <2>2. \A b \in Request \ {a} : Route(b)' /\ Carried(b)'
    BY <1>2, <1>3, OthersKeep
  <2> QED
    BY <1>1, <2>1, <2>2 DEF RevokeInv
<1>4. CASE ForceLocked \/ UNCHANGED vars
  <2>1. \A b \in Request : Route(b)' /\ Carried(b)'
    BY <1>2, <1>4 DEF ForceLocked, vars, locals
  <2> QED
    BY <1>1, <2>1 DEF RevokeInv
<1> QED
  BY <1>3, <1>4 DEF Next

\* A task is queued only for an entitlement that was revoked and is still, or whose
\* decision a sweep overwrote: two decisions on one entitlement never both succeed
\* (applyEntitlementDecision, createRevokeAccessTask).
THEOREM QueueIsRevoked == Spec => []QueuedIsRevoked
<1>1. Init => TypeOK /\ RevokeInv
  BY TypeInit, RevokeInit
<1>2. TypeOK /\ RevokeInv /\ [Next]_vars => TypeOK' /\ RevokeInv'
  BY TypeNext, RevokeStep
<1>3. RevokeInv => QueuedIsRevoked
  BY DEF RevokeInv, Revoked, QueuedIsRevoked
<1> QED
  BY <1>1, <1>2, <1>3, PTL DEF Spec
=============================================================================
