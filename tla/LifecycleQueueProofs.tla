------------------------- MODULE LifecycleQueueProofs -------------------------
(***************************************************************************)
(* Theorems of LifecycleQueue for every set of events, processes and ticks *)
(* and every value of the bounds.                                          *)
(***************************************************************************)
EXTENDS LifecycleQueue, TLAPS

LEMMA Defaults ==
  /\ NoEvent \in Event
  /\ NoSnap \in Snaps
  /\ NoRetry \in [Event -> Nat]
  BY EventAssumption DEF NoEvent, NoSnap, Snaps, Statuses, NoRetry

LEMMA BatchIsSubset == ASSUME NEW S, NEW B \in Batches(S) PROVE B \subseteq S
  BY DEF Batches

LEMMA TypeInit == Init => TypeOK
<1> SUFFICES ASSUME Init PROVE TypeOK
  OBVIOUS
<1> USE Defaults DEF Init
<1>1. status \in [Event -> Statuses] /\ retry \in [Event -> Nat]
  BY DEF Statuses
<1>2. /\ due \in [Event -> BOOLEAN] /\ claimed \in [Event -> BOOLEAN]
      /\ stale \in [Event -> BOOLEAN] /\ handled \in [Event -> BOOLEAN]
  OBVIOUS
<1>3. lockBy \in Proc \union {NoProc} /\ lockExpired \in BOOLEAN
  OBVIOUS
<1>7. faults \in 0 .. MaxFaults /\ overruns \in 0 .. MaxOverruns
  BY BoundAssumption
<1>4. pc \in [Tick -> Points] /\ cur \in [Tick -> Event]
  BY DEF Points
<1>5. rows \in [Tick -> SUBSET Event] /\ unseen \in [Tick -> SUBSET Event]
  OBVIOUS
<1>6. rowRetry \in [Tick -> [Event -> Nat]] /\ snap \in [Tick -> Snaps]
  OBVIOUS
<1> QED
  BY <1>1, <1>2, <1>3, <1>4, <1>5, <1>6, <1>7 DEF TypeOK

LEMMA TypeStep == TypeOK /\ [Next]_vars => TypeOK'
<1> SUFFICES ASSUME TypeOK, [Next]_vars PROVE TypeOK'
  OBVIOUS
<1> USE Defaults DEF TypeOK, docs, locks, locals, bounds
<1>1. ASSUME NEW e \in Event, Enqueue(e) PROVE TypeOK'
  <2> USE <1>1 DEF Enqueue, CreateOrReuse
  <2>1. status' \in [Event -> Statuses] /\ due' \in [Event -> BOOLEAN]
    BY DEF InitialStatus, Statuses
  <2>2. unseen' \in [Tick -> SUBSET Event]
    OBVIOUS
  <2> QED
    BY <2>1, <2>2
<1>2. ASSUME NEW e \in Event, BecomeDue(e) PROVE TypeOK'
  BY <1>2 DEF BecomeDue
<1>3. ASSUME NEW e \in Event, BecomeStale(e) PROVE TypeOK'
  BY <1>3, BoundAssumption DEF BecomeStale, Overrun
<1>4. CASE LockExpires
  BY <1>4, BoundAssumption DEF LockExpires, Overrun
<1>5. ASSUME NEW t \in Tick, AcquireLock(t) PROVE TypeOK'
  BY <1>5, WorkerAssumption DEF AcquireLock, Goto, Points
<1>6. ASSUME NEW t \in Tick, RecoverRead(t) PROVE TypeOK'
  BY <1>6 DEF RecoverRead, Goto, Points
<1>7. ASSUME NEW t \in Tick, RecoverWrite(t) PROVE TypeOK'
  <2> PICK e \in rows[t] : RecoverRow(t, e)
    BY <1>7 DEF RecoverWrite
  <2> e \in Event
    OBVIOUS
  <2>1. status' \in [Event -> Statuses]
    <3>1. \/ status' = [status EXCEPT ![e] = "PENDING"]
          \/ status' = [status EXCEPT ![e] = "FAILED"]
          \/ status' = status
      BY DEF RecoverRow
    <3>2. "PENDING" \in Statuses /\ "FAILED" \in Statuses
      BY DEF Statuses
    <3> QED
      BY <3>1, <3>2
  <2>5. retry' \in [Event -> Nat]
    <3>1. rowRetry[t][e] + 1 \in Nat
      OBVIOUS
    <3>2. retry' = [retry EXCEPT ![e] = rowRetry[t][e] + 1] \/ retry' = retry
      BY DEF RecoverRow
    <3> QED
      BY <3>1, <3>2
  <2> USE DEF RecoverRow
  <2>2. /\ due' \in [Event -> BOOLEAN]
        /\ claimed' \in [Event -> BOOLEAN]
        /\ stale' \in [Event -> BOOLEAN]
    BY DEF Unclaim
  <2>3. rows' \in [Tick -> SUBSET Event] /\ rowRetry' \in [Tick -> [Event -> Nat]]
    OBVIOUS
  <2>4. pc' \in [Tick -> Points]
    BY DEF Goto, Points
  <2> QED
    BY <1>7, <2>1, <2>2, <2>3, <2>4, <2>5 DEF RecoverWrite
<1>8. ASSUME NEW t \in Tick, PromoteRead(t) PROVE TypeOK'
  BY <1>8, BatchIsSubset DEF PromoteRead, DueScheduled, Goto, Scheduled, Points
<1>9. ASSUME NEW t \in Tick, PromoteEnqueue(t) PROVE TypeOK'
  <2> PICK s \in rows[t] : /\ CreateOrReuse(LeaverOf[s])
                           /\ cur' = [cur EXCEPT ![t] = s]
                           /\ rows' = [rows EXCEPT ![t] = @ \ {s}]
    BY <1>9 DEF PromoteEnqueue
  <2> s \in Event
    OBVIOUS
  <2>1. status' \in [Event -> Statuses] /\ due' \in [Event -> BOOLEAN]
    <3>1. InitialStatus(LeaverOf[s]) \in Statuses
      BY DEF InitialStatus, Statuses
    <3>2. CASE status[LeaverOf[s]] = "ABSENT"
      <4>1. status' = [status EXCEPT ![LeaverOf[s]] = InitialStatus(LeaverOf[s])]
        BY <3>2 DEF CreateOrReuse
      <4>2. due' = [due EXCEPT ![LeaverOf[s]] = LeaverOf[s] \notin Scheduled]
        BY <3>2 DEF CreateOrReuse
      <4> QED
        BY <3>1, <4>1, <4>2
    <3>3. CASE status[LeaverOf[s]] # "ABSENT"
      BY <3>3 DEF CreateOrReuse
    <3> QED
      BY <3>2, <3>3
  <2>2. unseen' \in [Tick -> SUBSET Event]
    BY EventAssumption DEF CreateOrReuse
  <2>3. cur' \in [Tick -> Event] /\ rows' \in [Tick -> SUBSET Event]
    OBVIOUS
  <2>4. pc' \in [Tick -> Points]
    BY <1>9 DEF PromoteEnqueue, Goto, Points
  <2> QED
    BY <1>9, <2>1, <2>2, <2>3, <2>4 DEF PromoteEnqueue
<1>10. ASSUME NEW t \in Tick, PromoteClose(t) PROVE TypeOK'
  BY <1>10 DEF PromoteClose, Goto, Statuses, Points
<1>11. ASSUME NEW t \in Tick, FindClaimable(t) PROVE TypeOK'
  BY <1>11, BatchIsSubset DEF FindClaimable, Goto, Points
<1>12. ASSUME NEW t \in Tick, Claim(t) PROVE TypeOK'
  <2> PICK e \in NextRow(t) : ClaimRow(t, e)
    BY <1>12 DEF Claim
  <2> e \in Event
    BY DEF NextRow
  <2>1. status' \in [Event -> Statuses] /\ cur' \in [Tick -> Event]
    <3>1. status' = [status EXCEPT ![e] = "IN_PROGRESS"] \/ status' = status
      BY DEF ClaimRow
    <3>2. cur' = [cur EXCEPT ![t] = e] \/ cur' = cur
      BY DEF ClaimRow
    <3>3. "IN_PROGRESS" \in Statuses
      BY DEF Statuses
    <3>4. status' \in [Event -> Statuses]
      BY <3>1, <3>3
    <3>5. cur' \in [Tick -> Event]
      BY <3>2
    <3> QED
      BY <3>4, <3>5
  <2> USE DEF ClaimRow
  <2>2. claimed' \in [Event -> BOOLEAN] /\ stale' \in [Event -> BOOLEAN]
    OBVIOUS
  <2>3. pc' \in [Tick -> Points] /\ rows' \in [Tick -> SUBSET Event]
    BY DEF Goto, Points, Working
  <2> QED
    BY <1>12, <2>1, <2>2, <2>3 DEF Claim
<1>13. ASSUME NEW t \in Tick, CheckBlocking(t) PROVE TypeOK'
  BY <1>13 DEF CheckBlocking, Goto, Points, Working
<1>14. ASSUME NEW t \in Tick, Defer(t) PROVE TypeOK'
  BY <1>14 DEF Defer, NextEvent, Unclaim, Goto, Statuses, Points
<1>15. ASSUME NEW t \in Tick, Handle(t) PROVE TypeOK'
  BY <1>15 DEF Handle, Goto, Points, Working
<1>16. ASSUME NEW t \in Tick, MarkCompleted(t) PROVE TypeOK'
  BY <1>16 DEF MarkCompleted, NextEvent, Unclaim, Goto, Statuses, Points
<1>17. ASSUME NEW t \in Tick, MarkFailedRead(t) PROVE TypeOK'
  BY <1>17 DEF MarkFailedRead, Goto, Points, Working, Snaps
<1>18. ASSUME NEW t \in Tick, MarkFailedSave(t) PROVE TypeOK'
  <2> snap[t].retry \in Nat /\ cur[t] \in Event
    BY DEF Snaps
  <2> USE <1>18 DEF MarkFailedSave, NextEvent, Unclaim
  <2>1. status' \in [Event -> Statuses] /\ retry' \in [Event -> Nat]
    BY DEF Statuses
  <2>2. /\ due' \in [Event -> BOOLEAN] /\ claimed' \in [Event -> BOOLEAN]
        /\ stale' \in [Event -> BOOLEAN]
    OBVIOUS
  <2>3. pc' \in [Tick -> Points] /\ cur' \in [Tick -> Event]
    BY DEF Goto, Points
  <2>4. snap' \in [Tick -> Snaps] /\ unseen' \in [Tick -> SUBSET Event]
    OBVIOUS
  <2> QED
    BY <2>1, <2>2, <2>3, <2>4
<1>19. ASSUME NEW t \in Tick, ReleaseLock(t) PROVE TypeOK'
  BY <1>19 DEF ReleaseLock, Reset, Goto, Points
<1>20. ASSUME NEW t \in Tick, CallFails(t) PROVE TypeOK'
  <2>1. pc' \in [Tick -> Points]
    BY <1>20 DEF CallFails, Goto, Points, Working
  <2>2. /\ cur' \in [Tick -> Event] /\ rows' \in [Tick -> SUBSET Event]
        /\ unseen' \in [Tick -> SUBSET Event]
    BY <1>20 DEF CallFails, Reset
  <2>3. rowRetry' \in [Tick -> [Event -> Nat]] /\ snap' \in [Tick -> Snaps]
    <3>1. \/ UNCHANGED <<rowRetry, snap>>
          \/ /\ rowRetry' = [rowRetry EXCEPT ![t] = NoRetry]
             /\ snap' = [snap EXCEPT ![t] = NoSnap]
      BY <1>20 DEF CallFails, Reset
    <3>2. rowRetry' \in [Tick -> [Event -> Nat]]
      BY <3>1, Defaults
    <3>3. snap' \in [Tick -> Snaps]
      BY <3>1, Defaults
    <3> QED
      BY <3>2, <3>3
  <2>4. faults' \in 0 .. MaxFaults /\ overruns' \in 0 .. MaxOverruns
    BY <1>20, BoundAssumption DEF CallFails, Fault
  <2> QED
    BY <1>20, <2>1, <2>2, <2>3, <2>4 DEF CallFails
<1>21. ASSUME NEW p \in Proc, Crash(p) PROVE TypeOK'
  BY <1>21, BoundAssumption DEF Crash, Fault, Points
<1>22. CASE UNCHANGED vars
  BY <1>22 DEF vars
<1> QED
  BY <1>1, <1>2, <1>3, <1>4, <1>5, <1>6, <1>7, <1>8, <1>9, <1>10, <1>11, <1>12,
     <1>13, <1>14, <1>15, <1>16, <1>17, <1>18, <1>19, <1>20, <1>21, <1>22
     DEF Next, TickStep

\* Every reachable state is well typed, whatever faults and overruns happen.
THEOREM TypeCorrect == Spec => []TypeOK
  BY TypeInit, TypeStep, PTL DEF Spec

-----------------------------------------------------------------------------
(* Nothing is closed unhandled: true for every schedule, even when ticks    *)
(* overrun the lock and work on the same event.                             *)

\* What a tick has read or done still stands behind the write it is about to
\* make: it promotes scheduled rows whose LEAVER event exists, and completes
\* events it has handled.
Pending ==
  \A t \in Tick :
    /\ pc[t] \in {"promote", "promoteClose"} => rows[t] \subseteq Scheduled
    /\ pc[t] = "promoteClose" => /\ cur[t] \in Scheduled
                                 /\ status[LeaverOf[cur[t]]] # "ABSENT"
    /\ pc[t] \in {"claim"} \union Working => \A e \in rows[t] : IsPrimary(e)
    /\ pc[t] \in Working => IsPrimary(cur[t])
    /\ pc[t] = "complete" => handled[cur[t]]

ClosedInv == TypeOK /\ Pending /\ CompletedWasHandled /\ PromotionNotLost

LEMMA KindsDiffer ==
  /\ \A e \in Scheduled : e \in Event /\ ~IsPrimary(e)
  /\ \A e \in Event : LeaverOf[e] \in Event
  BY EventAssumption DEF Scheduled, IsPrimary, PrimaryKinds

LEMMA ClosedInit == Init => ClosedInv
<1> SUFFICES ASSUME Init PROVE ClosedInv
  OBVIOUS
<1>1. TypeOK
  BY TypeInit
<1>2. Pending
  BY DEF Init, Pending, Working
<1>3. CompletedWasHandled
  BY DEF Init, CompletedWasHandled
<1>4. PromotionNotLost
  BY KindsDiffer DEF Init, PromotionNotLost
<1> QED
  BY <1>1, <1>2, <1>3, <1>4 DEF ClosedInv

LEMMA ClosedStep == ClosedInv /\ [Next]_vars => ClosedInv'
<1> SUFFICES ASSUME ClosedInv, [Next]_vars PROVE ClosedInv'
  OBVIOUS
<1> DEFINE Goal == Pending' /\ CompletedWasHandled' /\ PromotionNotLost'
<1>0. TypeOK'
  BY TypeStep DEF ClosedInv
<1> USE KindsDiffer DEF ClosedInv, TypeOK, Pending, CompletedWasHandled,
        PromotionNotLost, Working, docs, locks, locals, bounds
<1>1. ASSUME NEW e \in Event, Enqueue(e) PROVE Goal
  BY <1>1 DEF Enqueue, CreateOrReuse, InitialStatus, Scheduled
<1>2. ASSUME NEW e \in Event, BecomeDue(e) PROVE Goal
  BY <1>2 DEF BecomeDue
<1>3. ASSUME NEW e \in Event, BecomeStale(e) PROVE Goal
  BY <1>3 DEF BecomeStale
<1>4. CASE LockExpires
  BY <1>0, <1>4 DEF LockExpires
<1>5. ASSUME NEW t \in Tick, AcquireLock(t) PROVE Goal
  BY <1>5 DEF AcquireLock, Goto
<1>6. ASSUME NEW t \in Tick, RecoverRead(t) PROVE Goal
  BY <1>6 DEF RecoverRead, Goto
<1>7. ASSUME NEW t \in Tick, RecoverWrite(t) PROVE Goal
  <2> PICK e \in rows[t] : RecoverRow(t, e)
    BY <1>7 DEF RecoverWrite
  <2>1. status' = status \/ status' = [status EXCEPT ![e] = "PENDING"]
                        \/ status' = [status EXCEPT ![e] = "FAILED"]
    BY DEF RecoverRow
  <2>2. Pending'
    BY <1>7, <2>1 DEF RecoverWrite, RecoverRow, Goto
  <2>3. CompletedWasHandled'
    BY <1>7, <2>1 DEF RecoverWrite
  <2>4. PromotionNotLost'
    BY <2>1
  <2> QED
    BY <2>2, <2>3, <2>4
<1>8. ASSUME NEW t \in Tick, PromoteRead(t) PROVE Goal
  BY <1>8, BatchIsSubset DEF PromoteRead, DueScheduled, Goto
<1>9. ASSUME NEW t \in Tick, PromoteEnqueue(t) PROVE Goal
  BY <1>9 DEF PromoteEnqueue, CreateOrReuse, InitialStatus, Goto
<1>10. ASSUME NEW t \in Tick, PromoteClose(t) PROVE Goal
  BY <1>10 DEF PromoteClose, Goto
<1>11. ASSUME NEW t \in Tick, FindClaimable(t) PROVE Goal
  BY <1>11, BatchIsSubset DEF FindClaimable, Goto
<1>12. ASSUME NEW t \in Tick, Claim(t) PROVE Goal
  BY <1>12 DEF Claim, NextRow, ClaimRow, Goto
<1>13. ASSUME NEW t \in Tick, CheckBlocking(t) PROVE Goal
  BY <1>13 DEF CheckBlocking, Goto
<1>14. ASSUME NEW t \in Tick, Defer(t) PROVE Goal
  BY <1>14 DEF Defer, NextEvent, Unclaim, Goto
<1>15. ASSUME NEW t \in Tick, Handle(t) PROVE Goal
  <2>1. /\ pc[t] = "handle" /\ UNCHANGED <<docs, cur, rows>>
        /\ \A u \in Tick : u # t => pc'[u] = pc[u]
    BY <1>15 DEF Handle, Goto
  <2>2. CASE pc'[t] = "complete" /\ handled' = [handled EXCEPT ![cur[t]] = TRUE]
    BY <2>1, <2>2
  <2>3. CASE pc'[t] = "failRead" /\ handled' = handled
    BY <2>1, <2>3
  <2> QED
    BY <1>15, <2>2, <2>3 DEF Handle, Goto
<1>16. ASSUME NEW t \in Tick, MarkCompleted(t) PROVE Goal
  BY <1>16 DEF MarkCompleted, NextEvent, Unclaim, Goto
<1>17. ASSUME NEW t \in Tick, MarkFailedRead(t) PROVE Goal
  BY <1>17 DEF MarkFailedRead, Goto
<1>18. ASSUME NEW t \in Tick, MarkFailedSave(t) PROVE Goal
  BY <1>18 DEF MarkFailedSave, NextEvent, Unclaim, Goto
<1>19. ASSUME NEW t \in Tick, ReleaseLock(t) PROVE Goal
  BY <1>19 DEF ReleaseLock, Reset, Goto
<1>20. ASSUME NEW t \in Tick, CallFails(t) PROVE Goal
  BY <1>20 DEF CallFails, Reset, Goto
<1>21. ASSUME NEW p \in Proc, Crash(p) PROVE Goal
  BY <1>21 DEF Crash
<1>22. CASE UNCHANGED vars
  BY <1>22 DEF vars
<1> QED
  BY <1>0, <1>1, <1>2, <1>3, <1>4, <1>5, <1>6, <1>7, <1>8, <1>9, <1>10, <1>11, <1>12,
     <1>13, <1>14, <1>15, <1>16, <1>17, <1>18, <1>19, <1>20, <1>21, <1>22
     DEF Next, TickStep

\* An actionable event is COMPLETED only when its handler succeeded: for any
\* number of events, workers, crashes and overruns.
THEOREM NothingClosedUnhandled == Spec => []CompletedWasHandled
<1>1. ClosedInv => CompletedWasHandled
  BY DEF ClosedInv
<1> QED
  BY ClosedInit, ClosedStep, <1>1, PTL DEF Spec

\* A scheduled termination closed by its promotion never loses its LEAVER,
\* wherever ticks overlap and processes die.
THEOREM PromotionsAreKept == Spec => []PromotionNotLost
<1>1. ClosedInv => PromotionNotLost
  BY DEF ClosedInv
<1> QED
  BY ClosedInit, ClosedStep, <1>1, PTL DEF Spec

-----------------------------------------------------------------------------
(* One worker at a time: true as long as no tick outlives the lock.         *)

\* Whoever is in a tick holds the lock, and it has not expired.
LockHeld ==
  \A t \in Tick : pc[t] # "idle" => lockBy = ProcOf[t] /\ ~lockExpired

ExclusiveInv == TypeOK /\ LockHeld /\ OneTickAtATime /\ ClaimHeld

LEMMA ExclusiveInit == Init => ExclusiveInv
  BY TypeInit DEF Init, ExclusiveInv, LockHeld, OneTickAtATime, ClaimHeld, Working

LEMMA ExclusiveStep ==
  ASSUME MaxOverruns = 0
  PROVE  ExclusiveInv /\ [Next]_vars => ExclusiveInv'
<1> SUFFICES ASSUME ExclusiveInv, [Next]_vars PROVE ExclusiveInv'
  OBVIOUS
<1> DEFINE Goal == LockHeld' /\ OneTickAtATime' /\ ClaimHeld'
<1>0. TypeOK'
  BY TypeStep DEF ExclusiveInv
<1>a. ~Overrun
  BY DEF Overrun, ExclusiveInv, TypeOK
<1> USE WorkerAssumption DEF ExclusiveInv, TypeOK, LockHeld, OneTickAtATime, ClaimHeld,
        Working, docs, locks, locals, bounds
<1>1. ASSUME NEW e \in Event, Enqueue(e) PROVE Goal
  BY <1>1 DEF Enqueue, CreateOrReuse
<1>2. ASSUME NEW e \in Event, BecomeDue(e) PROVE Goal
  BY <1>2 DEF BecomeDue
<1>3. ASSUME NEW e \in Event, BecomeStale(e) PROVE Goal
  BY <1>a, <1>3 DEF BecomeStale, Owners
<1>4. CASE LockExpires
  BY <1>0, <1>a, <1>4 DEF LockExpires, Holders
<1>5. ASSUME NEW t \in Tick, AcquireLock(t) PROVE Goal
  BY <1>5 DEF AcquireLock, Goto
<1>6. ASSUME NEW t \in Tick, RecoverRead(t) PROVE Goal
  BY <1>6 DEF RecoverRead, Goto
<1>7. ASSUME NEW t \in Tick, RecoverWrite(t) PROVE Goal
  BY <1>7 DEF RecoverWrite, RecoverRow, Unclaim, Goto
<1>8. ASSUME NEW t \in Tick, PromoteRead(t) PROVE Goal
  BY <1>8 DEF PromoteRead, DueScheduled, Goto
<1>9. ASSUME NEW t \in Tick, PromoteEnqueue(t) PROVE Goal
  BY <1>9 DEF PromoteEnqueue, CreateOrReuse, Goto
<1>10. ASSUME NEW t \in Tick, PromoteClose(t) PROVE Goal
  BY <1>10 DEF PromoteClose, Goto
<1>11. ASSUME NEW t \in Tick, FindClaimable(t) PROVE Goal
  BY <1>11 DEF FindClaimable, Goto
<1>12. ASSUME NEW t \in Tick, Claim(t) PROVE Goal
  <2> PICK e \in NextRow(t) : ClaimRow(t, e)
    BY <1>12 DEF Claim
  <2> e \in Event
    BY DEF NextRow
  <2>1. /\ pc[t] = "claim" /\ UNCHANGED locks
        /\ pc' = [pc EXCEPT ![t] = pc'[t]]
    BY <1>12 DEF Claim, ClaimRow, Goto
  <2>2. pc'[t] \in Working => /\ cur'[t] = e
                              /\ status'[e] = "IN_PROGRESS" /\ claimed'[e] /\ ~stale'[e]
    BY <1>12 DEF ClaimRow, Goto
  <2>4. \A u \in Tick \ {t} : pc'[u] = pc[u] /\ pc[u] = "idle"
    BY <2>1
  <2>8. OneTickAtATime'
    BY <2>4
  <2>7. LockHeld'
    BY <2>1, <2>4
  <2>3. OneTickAtATime' /\ LockHeld'
    BY <2>8, <2>7
  <2>5. ASSUME NEW u \in Tick, pc'[u] \in Working
        PROVE  status'[cur'[u]] = "IN_PROGRESS" /\ claimed'[cur'[u]] /\ ~stale'[cur'[u]]
    <3>1. u = t
      BY <2>4, <2>5
    <3> QED
      BY <2>2, <2>5, <3>1
  <2>6. ClaimHeld'
    BY <2>5
  <2> QED
    BY <2>3, <2>6
<1>13. ASSUME NEW t \in Tick, CheckBlocking(t) PROVE Goal
  BY <1>13 DEF CheckBlocking, Goto
<1>14. ASSUME NEW t \in Tick, Defer(t) PROVE Goal
  BY <1>14 DEF Defer, NextEvent, Unclaim, Goto
<1>15. ASSUME NEW t \in Tick, Handle(t) PROVE Goal
  <2>1. /\ pc[t] = "handle" /\ pc'[t] \in {"complete", "failRead"}
        /\ \A u \in Tick : u # t => pc'[u] = pc[u]
    BY <1>15 DEF Handle, Goto
  <2>2. UNCHANGED <<docs, locks, cur>>
    BY <1>15 DEF Handle
  <2>3. LockHeld' /\ OneTickAtATime'
    BY <2>1, <2>2
  <2>4. ClaimHeld'
    BY <2>1, <2>2
  <2> QED
    BY <2>3, <2>4
<1>16. ASSUME NEW t \in Tick, MarkCompleted(t) PROVE Goal
  BY <1>16 DEF MarkCompleted, NextEvent, Unclaim, Goto
<1>17. ASSUME NEW t \in Tick, MarkFailedRead(t) PROVE Goal
  BY <1>17 DEF MarkFailedRead, Goto
<1>18. ASSUME NEW t \in Tick, MarkFailedSave(t) PROVE Goal
  BY <1>18 DEF MarkFailedSave, NextEvent, Unclaim, Goto
<1>19. ASSUME NEW t \in Tick, ReleaseLock(t) PROVE Goal
  BY <1>19 DEF ReleaseLock, Reset, Goto
<1>20. ASSUME NEW t \in Tick, CallFails(t) PROVE Goal
  <2>1. /\ \A u \in Tick \ {t} : pc'[u] = pc[u] /\ cur'[u] = cur[u]
        /\ pc[t] # "idle"
        /\ pc'[t] \in Working => pc[t] = "complete" /\ cur'[t] = cur[t]
    BY <1>20 DEF CallFails, Reset, Goto
  <2>2. UNCHANGED <<docs, locks>>
    BY <1>20 DEF CallFails
  <2>3. \A u \in Tick \ {t} : pc'[u] = "idle"
    BY <2>1
  <2>4. LockHeld' /\ OneTickAtATime'
    BY <2>1, <2>2, <2>3
  <2>5. ClaimHeld'
    BY <2>1, <2>2, <2>3
  <2> QED
    BY <2>4, <2>5
<1>21. ASSUME NEW p \in Proc, Crash(p) PROVE Goal
  BY <1>21 DEF Crash
<1>22. CASE UNCHANGED vars
  BY <1>0, <1>a, <1>22 DEF vars
<1> QED
  BY <1>0, <1>1, <1>2, <1>3, <1>4, <1>5, <1>6, <1>7, <1>8, <1>9, <1>10, <1>11, <1>12,
     <1>13, <1>14, <1>15, <1>16, <1>17, <1>18, <1>19, <1>20, <1>21, <1>22
     DEF Next, TickStep

\* If no tick outlives the lock's expiry, the lock admits one tick at a time
\* over all processes.
THEOREM TicksAreExclusive ==
  ASSUME MaxOverruns = 0
  PROVE  Spec => []OneTickAtATime
<1>1. ExclusiveInv => OneTickAtATime
  BY DEF ExclusiveInv
<1> QED
  BY ExclusiveInit, ExclusiveStep, <1>1, PTL DEF Spec

\* Under the same assumption (by which no claim goes stale under a live owner
\* either) the tick working on an event keeps its claim until it gives it up.
THEOREM ClaimsAreHeld ==
  ASSUME MaxOverruns = 0
  PROVE  Spec => []ClaimHeld
<1>1. ExclusiveInv => ClaimHeld
  BY DEF ExclusiveInv
<1> QED
  BY ExclusiveInit, ExclusiveStep, <1>1, PTL DEF Spec
-----------------------------------------------------------------------------
(* The queue implements the ledger, and no event overtakes another: true as  *)
(* long as no tick outlives the lock.                                        *)

\* What a tick has read is still so when it writes on the strength of it, ...
Fresh ==
  \A t \in Tick :
    /\ pc[t] = "recover" => \A e \in rows[t] : rowRetry[t][e] = retry[e]
    /\ pc[t] = "failSave" => /\ snap[t].status = "IN_PROGRESS"
                             /\ snap[t].retry = retry[cur[t]]
    /\ pc[t] \in {"promote", "promoteClose"} => \A e \in rows[t] : status[e] # "ABSENT"
    /\ pc[t] = "promoteClose" => status[cur[t]] # "ABSENT"
    /\ pc[t] = "handle" => Blockers(cur[t]) \subseteq unseen[t]

\* ... an event that is not given up has not used its last try, and a scheduled
\* termination only ever waits or is closed.
Within ==
  /\ \A e \in Event : status[e] # "FAILED" => retry[e] <= MaxRetries
  /\ \A e \in Scheduled : status[e] \in {"ABSENT", "PENDING", "COMPLETED"}

LedgerInv == ExclusiveInv /\ ClosedInv /\ Fresh /\ Within

LEMMA LedgerInit == Init => LedgerInv
<1> SUFFICES ASSUME Init PROVE LedgerInv
  OBVIOUS
<1>1. ExclusiveInv /\ ClosedInv
  BY ExclusiveInit, ClosedInit
<1>2. Fresh /\ Within
  BY KindsDiffer, BoundAssumption DEF Init, Fresh, Within, NoRetry
<1> QED
  BY <1>1, <1>2 DEF LedgerInv

\* A tick's step leaves the others idle, so that freshness is a matter of the
\* tick that moves.
LEMMA FreshStep ==
  ASSUME MaxOverruns = 0, LedgerInv, [Next]_vars
  PROVE  Fresh'
<1>0. TypeOK' /\ OneTickAtATime'
  BY TypeStep, ExclusiveStep DEF LedgerInv, ExclusiveInv
<1> USE KindsDiffer DEF LedgerInv, ExclusiveInv, TypeOK, OneTickAtATime, ClaimHeld, Fresh, Working,
        docs, locks, locals, bounds
<1>1. ASSUME NEW e \in Event, Enqueue(e) PROVE Fresh'
  <2>1. /\ status[e] = "ABSENT" /\ \A h \in Event \ {e} : status'[h] = status[h]
        /\ UNCHANGED <<retry, pc, cur, rows, rowRetry, snap>>
        /\ status'[e] # "ABSENT"
    BY <1>1 DEF Enqueue, CreateOrReuse, InitialStatus
  <2>2. \A t \in Tick : pc[t] \in Working => unseen'[t] = unseen[t] \union {e}
    BY <1>1 DEF Enqueue, CreateOrReuse
  <2>3. ASSUME NEW t \in Tick PROVE Blockers(cur[t])' \subseteq Blockers(cur[t]) \union {e}
    BY <2>1 DEF Blockers
  <2>4. ASSUME NEW t \in Tick, pc[t] = "handle"
        PROVE  Blockers(cur[t])' \subseteq unseen'[t]
    BY <2>2, <2>3, <2>4
  <2>5. ASSUME NEW f \in Event, status[f] # "ABSENT" PROVE status'[f] # "ABSENT"
    BY <2>1, <2>5
  <2>6. ASSUME NEW t \in Tick, pc[t] = "failSave"
        PROVE  snap'[t].status = "IN_PROGRESS" /\ snap'[t].retry = retry'[cur'[t]]
    BY <2>1, <2>6
  <2>7. ASSUME NEW t \in Tick, pc[t] = "recover", NEW f \in rows'[t]
        PROVE  rowRetry'[t][f] = retry'[f]
    BY <2>1, <2>7
  <2>8. ASSUME NEW t \in Tick, pc[t] = "promoteClose" PROVE status'[cur'[t]] # "ABSENT"
    BY <2>1, <2>5, <2>8
  <2>9. ASSUME NEW t \in Tick, pc[t] \in {"promote", "promoteClose"}, NEW f \in rows'[t]
        PROVE  status'[f] # "ABSENT"
    BY <2>1, <2>5, <2>9
  <2> QED
    BY <2>1, <2>4, <2>6, <2>7, <2>8, <2>9
<1>2. ASSUME NEW e \in Event, BecomeDue(e) PROVE Fresh'
  BY <1>2 DEF BecomeDue, Blockers
<1>3. ASSUME NEW e \in Event, BecomeStale(e) PROVE Fresh'
  BY <1>3 DEF BecomeStale, Blockers
<1>4. CASE LockExpires
  BY <1>4 DEF LockExpires, Blockers
<1>5. ASSUME NEW t \in Tick, AcquireLock(t) PROVE Fresh'
  BY <1>5 DEF AcquireLock, Goto, Blockers
<1>6. ASSUME NEW t \in Tick, RecoverRead(t) PROVE Fresh'
  BY <1>0, <1>6 DEF RecoverRead, Goto
<1>7. ASSUME NEW t \in Tick, RecoverWrite(t) PROVE Fresh'
  <2> PICK e \in rows[t] : RecoverRow(t, e)
    BY <1>7 DEF RecoverWrite
  <2>1. /\ pc[t] = "recover" /\ pc'[t] \in {"recover", "promoteRead"}
        /\ \A u \in Tick \ {t} : pc'[u] = "idle"
    BY <1>7 DEF RecoverWrite, RecoverRow, Goto
  <2>2. /\ rows' = [rows EXCEPT ![t] = @ \ {e}]
        /\ rowRetry' = [rowRetry EXCEPT ![t][e] = 0]
    BY DEF RecoverRow
  <2>3. \A f \in Event \ {e} : retry'[f] = retry[f]
    BY DEF RecoverRow
  <2>4. \A f \in rows'[t] : rowRetry'[t][f] = retry'[f]
    BY <2>1, <2>2, <2>3
  <2> QED
    BY <2>1, <2>4
<1>8. ASSUME NEW t \in Tick, PromoteRead(t) PROVE Fresh'
  <2> PICK B \in Batches(DueScheduled) :
             rows' = [rows EXCEPT ![t] = B] /\ Goto(t, IF B = {} THEN "find" ELSE "promote")
    BY <1>8 DEF PromoteRead
  <2>1. /\ pc[t] = "promoteRead" /\ pc'[t] \in {"find", "promote"} /\ UNCHANGED status
        /\ \A u \in Tick \ {t} : pc'[u] = "idle"
    BY <1>8 DEF PromoteRead, Goto
  <2>2. \A e \in rows'[t] : status'[e] # "ABSENT"
    BY <2>1, BatchIsSubset DEF DueScheduled, Claimable
  <2> QED
    BY <2>1, <2>2
<1>9. ASSUME NEW t \in Tick, PromoteEnqueue(t) PROVE Fresh'
  BY <1>0, <1>9 DEF PromoteEnqueue, CreateOrReuse, Goto
<1>10. ASSUME NEW t \in Tick, PromoteClose(t) PROVE Fresh'
  <2>1. /\ pc[t] = "promoteClose" /\ pc'[t] \in {"find", "promote"} /\ UNCHANGED rows
        /\ \A u \in Tick \ {t} : pc'[u] = "idle"
    BY <1>10 DEF PromoteClose, Goto
  <2>2. \A e \in Event : status[e] # "ABSENT" => status'[e] # "ABSENT"
    BY <1>10 DEF PromoteClose
  <2> QED
    BY <2>1, <2>2
<1>11. ASSUME NEW t \in Tick, FindClaimable(t) PROVE Fresh'
  BY <1>0, <1>11 DEF FindClaimable, Goto
<1>12. ASSUME NEW t \in Tick, Claim(t) PROVE Fresh'
  <2>1. /\ pc[t] = "claim" /\ pc'[t] \in {"claim", "check", "release"}
        /\ \A u \in Tick \ {t} : pc'[u] = "idle"
    BY <1>12 DEF Claim, ClaimRow, Goto
  <2> QED
    BY <2>1
<1>13. ASSUME NEW t \in Tick, CheckBlocking(t) PROVE Fresh'
  <2>1. /\ pc[t] = "check" /\ pc'[t] \in {"handle", "defer"} /\ UNCHANGED <<docs, cur>>
        /\ pc'[t] = "handle" => Blockers(cur[t]) = {}
        /\ \A u \in Tick \ {t} : pc'[u] = "idle"
    BY <1>13 DEF CheckBlocking, Goto
  <2>2. Blockers(cur[t])' = Blockers(cur[t])
    BY <2>1 DEF Blockers
  <2> QED
    BY <2>1, <2>2
<1>14. ASSUME NEW t \in Tick, Defer(t) PROVE Fresh'
  BY <1>0, <1>14 DEF Defer, NextEvent, Goto
<1>15. ASSUME NEW t \in Tick, Handle(t) PROVE Fresh'
  <2>1. /\ pc'[t] \in {"complete", "failRead"}
        /\ \A u \in Tick \ {t} : pc'[u] = "idle"
    BY <1>15 DEF Handle, Goto
  <2> QED
    BY <2>1
<1>16. ASSUME NEW t \in Tick, MarkCompleted(t) PROVE Fresh'
  BY <1>0, <1>16 DEF MarkCompleted, NextEvent, Goto
<1>17. ASSUME NEW t \in Tick, MarkFailedRead(t) PROVE Fresh'
  <2>1. /\ pc[t] = "failRead" /\ pc'[t] = "failSave" /\ UNCHANGED <<docs, cur>>
        /\ \A u \in Tick \ {t} : pc'[u] = "idle"
    BY <1>17 DEF MarkFailedRead, Goto
  <2>2. snap'[t].status = status[cur[t]] /\ snap'[t].retry = retry[cur[t]]
    BY <1>17 DEF MarkFailedRead
  <2> QED
    BY <2>1, <2>2
<1>18. ASSUME NEW t \in Tick, MarkFailedSave(t) PROVE Fresh'
  BY <1>0, <1>18 DEF MarkFailedSave, NextEvent, Goto
<1>19. ASSUME NEW t \in Tick, ReleaseLock(t) PROVE Fresh'
  BY <1>0, <1>19 DEF ReleaseLock, Goto
<1>20. ASSUME NEW t \in Tick, CallFails(t) PROVE Fresh'
  <2>1. /\ pc'[t] \in {"promoteRead", "find", "failRead", "release"}
        /\ \A u \in Tick \ {t} : pc'[u] = "idle"
    BY <1>20 DEF CallFails, Goto
  <2> QED
    BY <2>1
<1>21. ASSUME NEW p \in Proc, Crash(p) PROVE Fresh'
  BY <1>21 DEF Crash, Blockers
<1>22. CASE UNCHANGED vars
  BY <1>22 DEF vars, Blockers
<1> QED
  BY <1>1, <1>2, <1>3, <1>4, <1>5, <1>6, <1>7, <1>8, <1>9, <1>10, <1>11, <1>12,
     <1>13, <1>14, <1>15, <1>16, <1>17, <1>18, <1>19, <1>20, <1>21, <1>22
     DEF Next, TickStep

\* What the ledger shows of an event.
LEMMA LedgerStates ==
  /\ LedgerState["ABSENT"] = "absent"
  /\ LedgerState["DETECTED"] = "open"
  /\ LedgerState["PENDING"] = "open"
  /\ LedgerState["IN_PROGRESS"] = "held"
  /\ LedgerState["COMPLETED"] = "done"
  /\ LedgerState["FAILED"] = "dead"
  BY DEF LedgerState

\* The ledger's entries of all events.
Entries == [d \in Event |-> LedgerState[status[d]]]

\* When one event's status changes, its entry does.
LEMMA OneEntry ==
  ASSUME TypeOK, NEW e \in Event, NEW x \in Statuses, status' = [status EXCEPT ![e] = x]
  PROVE  Entries[e] = LedgerState[status[e]] /\ Entries' = [Entries EXCEPT ![e] = LedgerState[x]]
  BY DEF TypeOK, Entries

\* What is created unless it exists arrives, or the ledger stays as it is.
LEMMA CreatedArrives ==
  ASSUME TypeOK, NEW e \in Event, CreateOrReuse(e), UNCHANGED retry
  PROVE  \/ Ledger!Arrive(e) \/ UNCHANGED Ledger!ledger
<1>1. CASE status[e] = "ABSENT"
  <2>1. PICK x \in {"DETECTED", "PENDING", "COMPLETED"} :
             x = InitialStatus(e) /\ (IsPrimary(e) => x # "COMPLETED")
    BY DEF InitialStatus
  <2>2. status' = [status EXCEPT ![e] = x] /\ x \in Statuses
    BY <1>1, <2>1 DEF CreateOrReuse, Statuses
  <2>3. /\ Entries[e] = "absent" /\ Entries' = [Entries EXCEPT ![e] = LedgerState[x]]
        /\ LedgerState[x] \in IF IsPrimary(e) THEN {"open"} ELSE {"open", "done"}
    BY <1>1, <2>1, <2>2, OneEntry, LedgerStates
  <2>4. Ledger!Arrive(e)
    BY <2>3 DEF Ledger!Arrive, Entries
  <2> QED
    BY <2>4
<1>2. CASE status[e] # "ABSENT"
  BY <1>2 DEF CreateOrReuse, Ledger!ledger
<1> QED
  BY <1>1, <1>2

Charged(e) ==
  /\ status[e] = "IN_PROGRESS"
  /\ status' = [status EXCEPT ![e] = IF Again(retry[e] + 1) THEN "PENDING" ELSE "FAILED"]
  /\ retry' = [retry EXCEPT ![e] = retry[e] + 1]

\* A failed attempt, charged by recovery or by the tick that made it, gives the
\* event back or buries it.
LEMMA AttemptCharged ==
  ASSUME TypeOK, Within, NEW e \in Event, Charged(e)
  PROVE  Ledger!GiveBack(e) \/ Ledger!Bury(e)
<1>0. /\ status[e] = "IN_PROGRESS" /\ retry' = [retry EXCEPT ![e] = retry[e] + 1]
      /\ status' = [status EXCEPT ![e] = IF Again(retry[e] + 1) THEN "PENDING" ELSE "FAILED"]
  BY DEF Charged
<1>1. retry[e] \in Nat /\ retry[e] <= MaxRetries
  BY <1>0 DEF TypeOK, Within
<1>2. CASE Again(retry[e] + 1)
  <2>1. retry[e] < MaxRetries
    BY <1>1, <1>2, BoundAssumption DEF Again
  <2>2. status' = [status EXCEPT ![e] = "PENDING"] /\ "PENDING" \in Statuses
    BY <1>0, <1>2 DEF Statuses
  <2>3. Entries[e] = "held" /\ Entries' = [Entries EXCEPT ![e] = "open"]
    <3>1. Entries[e] = LedgerState[status[e]] /\ Entries' = [Entries EXCEPT ![e] = LedgerState["PENDING"]]
      BY <2>2, OneEntry
    <3> QED
      BY <1>0, <3>1, LedgerStates
  <2>4. Ledger!GiveBack(e)
    BY <1>0, <2>1, <2>3 DEF Ledger!GiveBack, Entries
  <2> QED
    BY <2>4
<1>3. CASE ~Again(retry[e] + 1)
  <2>1. retry[e] = MaxRetries
    BY <1>1, <1>3, BoundAssumption DEF Again
  <2>2. status' = [status EXCEPT ![e] = "FAILED"] /\ "FAILED" \in Statuses
    BY <1>0, <1>3 DEF Statuses
  <2>3. Entries[e] = "held" /\ Entries' = [Entries EXCEPT ![e] = "dead"]
    <3>1. Entries[e] = LedgerState[status[e]] /\ Entries' = [Entries EXCEPT ![e] = LedgerState["FAILED"]]
      BY <2>2, OneEntry
    <3> QED
      BY <1>0, <3>1, LedgerStates
  <2>4. Ledger!Bury(e)
    BY <1>0, <2>1, <2>3 DEF Ledger!Bury, Entries
  <2> QED
    BY <2>4
<1> QED
  BY <1>2, <1>3

Moved(e, from, to) ==
  /\ status[e] = from
  /\ status' = [status EXCEPT ![e] = to]
  /\ UNCHANGED retry

\* All that can happen to an event, as its document shows it.
Move(e) ==
  \/ CreateOrReuse(e) /\ UNCHANGED retry
  \/ Charged(e)
  \/ IsPrimary(e) /\ \E from \in Claimable : Moved(e, from, "IN_PROGRESS")
  \/ \E to \in {"PENDING", "COMPLETED"} : Moved(e, "IN_PROGRESS", to)
  \/ ~IsPrimary(e) /\ Moved(e, "PENDING", "COMPLETED")

\* Every step moves one event, or none.
LEMMA OneMove ==
  ASSUME LedgerInv, [Next]_vars
  PROVE  UNCHANGED <<status, retry>> \/ \E e \in Event : Move(e)
<1> DEFINE Goal == UNCHANGED <<status, retry>> \/ \E e \in Event : Move(e)
<1> SUFFICES Goal
  OBVIOUS
<1> USE KindsDiffer DEF LedgerInv, ExclusiveInv, ClosedInv, TypeOK
<1>1. ASSUME NEW e \in Event, Enqueue(e) PROVE Goal
  BY <1>1 DEF Enqueue, Move
<1>2. ASSUME NEW t \in Tick, RecoverWrite(t) PROVE Goal
  <2> PICK e \in rows[t] : RecoverRow(t, e)
    BY <1>2 DEF RecoverWrite
  <2>1. e \in Event /\ rowRetry[t][e] = retry[e]
    BY <1>2 DEF RecoverWrite, Fresh
  <2>2. Charged(e) \/ UNCHANGED <<status, retry>>
    BY <2>1 DEF RecoverRow, Charged, docs
  <2> QED
    BY <2>1, <2>2 DEF Move
<1>3. ASSUME NEW t \in Tick, PromoteEnqueue(t) PROVE Goal
  <2> PICK s \in rows[t] : CreateOrReuse(LeaverOf[s])
    BY <1>3 DEF PromoteEnqueue
  <2> QED
    BY <1>3 DEF PromoteEnqueue, Move
<1>4. ASSUME NEW t \in Tick, PromoteClose(t) PROVE Goal
  <2>1. /\ cur[t] \in Scheduled
        /\ status[cur[t]] \in {"PENDING", "COMPLETED"}
        /\ status' = [status EXCEPT ![cur[t]] = "COMPLETED"] /\ UNCHANGED retry
    BY <1>4 DEF PromoteClose, Pending, Fresh, Within
  <2>2. CASE status[cur[t]] = "PENDING"
    BY <2>1, <2>2 DEF Move, Moved
  <2>3. CASE status[cur[t]] = "COMPLETED"
    BY <2>1, <2>3
  <2> QED
    BY <2>1, <2>2, <2>3
<1>5. ASSUME NEW t \in Tick, Claim(t) PROVE Goal
  <2> PICK e \in NextRow(t) : ClaimRow(t, e)
    BY <1>5 DEF Claim
  <2>1. e \in Event /\ IsPrimary(e)
    BY <1>5 DEF Claim, NextRow, Pending
  <2>2. UNCHANGED retry
    BY <1>5 DEF Claim
  <2> QED
    BY <2>1, <2>2 DEF ClaimRow, Move, Moved
<1>6. ASSUME NEW t \in Tick, Defer(t) \/ MarkCompleted(t) PROVE Goal
  <2>1. cur[t] \in Event /\ status[cur[t]] = "IN_PROGRESS"
    BY <1>6 DEF Defer, MarkCompleted, ClaimHeld, Working
  <2>2. \E to \in {"PENDING", "COMPLETED"} : Moved(cur[t], "IN_PROGRESS", to)
    BY <1>6, <2>1 DEF Defer, MarkCompleted, Moved
  <2> QED
    BY <2>1, <2>2 DEF Move
<1>7. ASSUME NEW t \in Tick, MarkFailedSave(t) PROVE Goal
  <2>1. /\ cur[t] \in Event /\ status[cur[t]] = "IN_PROGRESS"
        /\ snap[t].status = "IN_PROGRESS" /\ snap[t].retry = retry[cur[t]]
    BY <1>7 DEF MarkFailedSave, ClaimHeld, Working, Fresh
  <2>2. Charged(cur[t])
    BY <1>7, <2>1 DEF MarkFailedSave, Charged
  <2> QED
    BY <2>1, <2>2 DEF Move
<1>8. ASSUME NEW e \in Event, BecomeDue(e) \/ BecomeStale(e) PROVE Goal
  BY <1>8 DEF BecomeDue, BecomeStale
<1>9. ASSUME NEW t \in Tick,
             \/ AcquireLock(t) \/ RecoverRead(t) \/ PromoteRead(t) \/ FindClaimable(t)
             \/ CheckBlocking(t) \/ Handle(t) \/ MarkFailedRead(t) \/ ReleaseLock(t)
             \/ CallFails(t)
      PROVE  UNCHANGED <<status, retry>>
  BY <1>9 DEF AcquireLock, RecoverRead, PromoteRead, FindClaimable, CheckBlocking, Handle,
              MarkFailedRead, ReleaseLock, CallFails, docs
<1>10. ASSUME LockExpires \/ UNCHANGED vars \/ \E p \in Proc : Crash(p)
       PROVE  UNCHANGED <<status, retry>>
  BY <1>10 DEF LockExpires, Crash, vars, docs
<1> QED
  BY <1>1, <1>2, <1>3, <1>4, <1>5, <1>6, <1>7, <1>8, <1>9, <1>10 DEF Next, TickStep

LEMMA WithinStep ==
  ASSUME LedgerInv, [Next]_vars
  PROVE  Within'
<1>1. CASE UNCHANGED <<status, retry>>
  BY <1>1 DEF LedgerInv, Within
<1>2. ASSUME NEW e \in Event, Move(e) PROVE Within'
  <2> USE KindsDiffer DEF LedgerInv, ExclusiveInv, TypeOK, Within
  <2>1. CASE CreateOrReuse(e) /\ UNCHANGED retry
    BY <2>1 DEF CreateOrReuse, InitialStatus, Scheduled
  <2>2. CASE Charged(e)
    <3>1. e \notin Scheduled
      BY <2>2 DEF Charged
    <3>2. retry[e] \in Nat /\ (retry[e] + 1 <= MaxRetries <=> Again(retry[e] + 1))
      BY DEF Again
    <3>3. status'[e] # "FAILED" => retry'[e] <= MaxRetries
      BY <2>2, <3>2 DEF Charged
    <3>4. \A d \in Event \ {e} : status'[d] = status[d] /\ retry'[d] = retry[d]
      BY <2>2 DEF Charged
    <3> QED
      BY <3>1, <3>3, <3>4
  <2>3. CASE IsPrimary(e) /\ \E from \in Claimable : Moved(e, from, "IN_PROGRESS")
    BY <2>3 DEF Moved, Claimable
  <2>4. CASE \E to \in {"PENDING", "COMPLETED"} : Moved(e, "IN_PROGRESS", to)
    BY <2>4 DEF Moved
  <2>5. CASE ~IsPrimary(e) /\ Moved(e, "PENDING", "COMPLETED")
    BY <2>5 DEF Moved
  <2> QED
    BY <1>2, <2>1, <2>2, <2>3, <2>4, <2>5 DEF Move
<1> QED
  BY <1>1, <1>2, OneMove

LEMMA LedgerInvStep ==
  ASSUME MaxOverruns = 0
  PROVE  LedgerInv /\ [Next]_vars => LedgerInv'
<1> SUFFICES ASSUME LedgerInv, [Next]_vars PROVE LedgerInv'
  OBVIOUS
<1>1. ExclusiveInv' /\ ClosedInv'
  BY ExclusiveStep, ClosedStep DEF LedgerInv
<1>2. Fresh'
  BY FreshStep
<1>3. Within'
  BY WithinStep
<1> QED
  BY <1>1, <1>2, <1>3 DEF LedgerInv

\* The move of an event is an action of the ledger.
LEMMA MoveInLedger ==
  ASSUME TypeOK, Within, NEW e \in Event, Move(e)
  PROVE  Ledger!Next \/ UNCHANGED Ledger!ledger
<1>1. CASE CreateOrReuse(e) /\ UNCHANGED retry
  BY <1>1, CreatedArrives DEF Ledger!Next
<1>2. CASE Charged(e)
  BY <1>2, AttemptCharged DEF Ledger!Next
<1>3. ASSUME NEW from \in Statuses, NEW to \in Statuses, Moved(e, from, to)
      PROVE  /\ Entries[e] = LedgerState[from] /\ UNCHANGED retry
             /\ Entries' = [Entries EXCEPT ![e] = LedgerState[to]]
  BY <1>3, OneEntry DEF Moved
<1> USE LedgerStates DEF Statuses, Claimable
<1>4. CASE IsPrimary(e) /\ \E from \in Claimable : Moved(e, from, "IN_PROGRESS")
  <2>1. Entries[e] = "open" /\ Entries' = [Entries EXCEPT ![e] = "held"] /\ UNCHANGED retry
    BY <1>3, <1>4
  <2>2. Ledger!Take(e)
    BY <1>4, <2>1 DEF Ledger!Take, Entries
  <2> QED
    BY <2>2 DEF Ledger!Next
<1>5. CASE Moved(e, "IN_PROGRESS", "PENDING")
  <2>1. Entries[e] = "held" /\ Entries' = [Entries EXCEPT ![e] = "open"] /\ UNCHANGED retry
    BY <1>3, <1>5
  <2>2. Ledger!GiveBack(e)
    BY <2>1 DEF Ledger!GiveBack, Entries
  <2> QED
    BY <2>2 DEF Ledger!Next
<1>6. CASE Moved(e, "IN_PROGRESS", "COMPLETED")
  <2>1. Entries[e] = "held" /\ Entries' = [Entries EXCEPT ![e] = "done"] /\ UNCHANGED retry
    BY <1>3, <1>6
  <2>2. Ledger!Finish(e)
    BY <2>1 DEF Ledger!Finish, Entries
  <2> QED
    BY <2>2 DEF Ledger!Next
<1>7. CASE ~IsPrimary(e) /\ Moved(e, "PENDING", "COMPLETED")
  <2>1. Entries[e] = "open" /\ Entries' = [Entries EXCEPT ![e] = "done"] /\ UNCHANGED retry
    BY <1>3, <1>7
  <2>2. Ledger!Close(e)
    BY <1>7, <2>1 DEF Ledger!Close, Entries
  <2> QED
    BY <2>2 DEF Ledger!Next
<1> QED
  BY <1>1, <1>2, <1>4, <1>5, <1>6, <1>7 DEF Move

\* If no tick outlives the lock's expiry, the queue of any number of workers,
\* ticks and events implements the ledger: an event is held by one owner at a
\* time, done or dead for good, and buried only with its last try used.
THEOREM QueueImplementsLedger ==
  ASSUME MaxOverruns = 0
  PROVE  Spec => ImplementsLedger
<1>1. Init => Ledger!Init
  BY LedgerStates DEF Init, Ledger!Init, NoRetry
<1>2. LedgerInv /\ [Next]_vars => [Ledger!Next]_(Ledger!ledger)
  <2> SUFFICES ASSUME LedgerInv, [Next]_vars PROVE Ledger!Next \/ UNCHANGED Ledger!ledger
    OBVIOUS
  <2>1. CASE UNCHANGED <<status, retry>>
    BY <2>1 DEF Ledger!ledger
  <2>2. ASSUME NEW e \in Event, Move(e) PROVE Ledger!Next \/ UNCHANGED Ledger!ledger
    BY <2>2, MoveInLedger DEF LedgerInv, ExclusiveInv
  <2> QED
    BY <2>1, <2>2, OneMove
<1> QED
  BY LedgerInit, LedgerInvStep, <1>1, <1>2, PTL DEF Spec, ImplementsLedger, Ledger!Spec

\* Under the same assumption no handler completes an event while an open event
\* of the same identity outranks it, unless that one arrived after the look.
THEOREM NobodyOvertakes ==
  ASSUME MaxOverruns = 0
  PROVE  Spec => NoOvertaking
<1>1. LedgerInv /\ [Next]_vars =>
        [\A t \in Tick : pc[t] = "handle" /\ pc'[t] = "complete" =>
           Blockers(cur[t]) \subseteq unseen[t]]_vars
  BY DEF LedgerInv, Fresh
<1> QED
  BY LedgerInit, LedgerInvStep, <1>1, PTL DEF Spec, NoOvertaking
=============================================================================
