------------------------- MODULE RevokeWorkflowProofs -------------------------
(* Theorems about RevokeWorkflow, for any processes, requests and faults.    *)
EXTENDS RevokeWorkflow, FiniteSetTheorems, TLAPS

-----------------------------------------------------------------------------
(* Type correctness                                                          *)

LEMMA AnyRequestIsOne == AnyRequest \in Request
BY BoundAssumption DEF AnyRequest

LEMMA ForgetTyped ==
  ASSUME TypeOK, NEW p \in Proc, Forget(p)
  PROVE  /\ pc' \in [Proc -> Points] /\ cur' \in [Proc -> Request]
         /\ wasRunning' \in [Proc -> BOOLEAN] /\ stale' \in [Proc -> BOOLEAN]
         /\ outcome' \in [Proc -> Outcomes]
BY AnyRequestIsOne DEF TypeOK, Forget, Goto, Points, Outcomes

LEMMA TypeInit == Init => TypeOK
<1> SUFFICES ASSUME Init PROVE TypeOK
  OBVIOUS
<1>1. status \in Statuses /\ request \in [Request -> Open \union {"ABSENT"}]
  BY DEF Init, Statuses
<1>2. pc \in [Proc -> Points] /\ cur \in [Proc -> Request]
  BY AnyRequestIsOne DEF Init, Points
<1>3. /\ wasRunning \in [Proc -> BOOLEAN] /\ stale \in [Proc -> BOOLEAN]
      /\ outcome \in [Proc -> Outcomes]
  BY DEF Init, Outcomes
<1>4. faults \in 0 .. MaxFaults
  BY BoundAssumption DEF Init
<1> QED
  BY <1>1, <1>2, <1>3, <1>4 DEF TypeOK, Init

LEMMA TypeStep == TypeOK /\ [Next]_vars => TypeOK'
<1> SUFFICES ASSUME TypeOK, [Next]_vars PROVE TypeOK'
  OBVIOUS
<1> USE DEF TypeOK, world, history, locals, Outcomes
<1>a. ASSUME Fault PROVE faults' \in 0 .. MaxFaults
  BY <1>a, BoundAssumption DEF Fault
<1>1. ASSUME NEW p \in Proc, Poll(p) PROVE TypeOK'
  BY <1>1 DEF Poll, Goto, Points
<1>2. ASSUME NEW p \in Proc, NEW q \in Request, TaskSucceeds(p, q) PROVE TypeOK'
  BY <1>2 DEF TaskSucceeds, Goto, Points, Open
<1>3. ASSUME NEW p \in Proc, CloseRequest(p) PROVE TypeOK'
  BY <1>3 DEF CloseRequest, Goto, Points
<1>4. ASSUME NEW q \in Request, TaskFails(q) PROVE TypeOK'
  BY <1>4 DEF TaskFails, Open
<1>5. ASSUME NEW p \in Proc, Load(p) PROVE TypeOK'
  BY <1>5 DEF Load, Goto, Points, Loaded
<1>6. ASSUME NEW p \in Proc, Begin(p) PROVE TypeOK'
  BY <1>6 DEF Begin, Goto, Points, Loaded, Statuses
<1>7. ASSUME NEW p \in Proc, WorkflowMissing(p) PROVE TypeOK'
  BY <1>7, ForgetTyped DEF WorkflowMissing, Statuses, Terminal
<1>8. ASSUME NEW p \in Proc, WorkflowDisabled(p) PROVE TypeOK'
  <2>1. pc' \in [Proc -> Points] /\ cur' \in [Proc -> Request]
    BY <1>8, AnyRequestIsOne DEF WorkflowDisabled, Goto, Points
  <2>2. status' \in Statuses /\ stale' \in [Proc -> BOOLEAN]
    BY <1>8 DEF WorkflowDisabled, Supersede, Statuses, Terminal
  <2> QED
    BY <1>8, <2>1, <2>2 DEF WorkflowDisabled
<1>9. ASSUME NEW p \in Proc, Verify(p) PROVE TypeOK'
  <2>1. faults' \in 0 .. MaxFaults
    BY <1>9, BoundAssumption DEF Verify, CannotVerify
  <2> QED
    BY <1>9, <2>1 DEF Verify, Goto, Points, Loaded
<1>10. ASSUME NEW p \in Proc, FindRequest(p) PROVE TypeOK'
  <2>1. faults' \in 0 .. MaxFaults
    BY <1>10, <1>a DEF FindRequest
  <2> QED
    BY <1>10, <2>1 DEF FindRequest, Goto, Points, Loaded
<1>11. ASSUME NEW p \in Proc, CreateRequest(p) PROVE TypeOK'
  BY <1>11 DEF CreateRequest, Goto, Points, Loaded, Open
<1>12. ASSUME NEW p \in Proc, CreateTask(p) PROVE TypeOK'
  <2>1. faults' \in 0 .. MaxFaults
    BY <1>12, <1>a DEF CreateTask
  <2> QED
    BY <1>12, <2>1 DEF CreateTask, Goto, Points, Loaded, Open
<1>13. ASSUME NEW p \in Proc, Save(p) PROVE TypeOK'
  <2>1. pc' \in [Proc -> Points] /\ cur' \in [Proc -> Request]
    BY <1>13, AnyRequestIsOne DEF Save, Goto, Points
  <2>2. status' \in Statuses /\ due' \in BOOLEAN /\ completed' \in BOOLEAN
    BY <1>13 DEF Save, Statuses, Terminal
  <2>3. stale' \in [Proc -> BOOLEAN]
    BY <1>13 DEF Save, Supersede
  <2> QED
    BY <1>13, <2>1, <2>2, <2>3 DEF Save
<1>14. ASSUME NEW p \in Proc, Crash(p) PROVE TypeOK'
  BY <1>14, <1>a, ForgetTyped DEF Crash
<1>15. ASSUME BecomeDue PROVE TypeOK'
  BY <1>15 DEF BecomeDue
<1>16. ASSUME AccessRemoved \/ AccountRemoved PROVE TypeOK'
  BY <1>16 DEF AccessRemoved, AccountRemoved
<1>17. ASSUME UNCHANGED vars PROVE TypeOK'
  BY <1>17 DEF vars
<1> QED
  BY <1>1, <1>2, <1>3, <1>4, <1>5, <1>6, <1>7, <1>8, <1>9, <1>10, <1>11, <1>12, <1>13,
     <1>14, <1>15, <1>16, <1>17 DEF Next, Step

\* Every reachable state is well typed: the execution takes its model's statuses
\* and a request is always absent or open with one task state (runExecution,
\* enqueueCertRevokeProvisioning, the worker's rollup).
THEOREM TypeCorrect == Spec => []TypeOK
<1>1. Init => TypeOK
  BY TypeInit
<1>2. TypeOK /\ [Next]_vars => TypeOK'
  BY TypeStep
<1> QED
  BY <1>1, <1>2, PTL DEF Spec

-----------------------------------------------------------------------------
(* COMPLETED means removed.  The execution's status says little: what is      *)
(* inductive is that a run about to save COMPLETED saw the access gone, and   *)
(* that access once gone does not come back.                                  *)

Removed == completed \/ (\E p \in Proc : outcome[p] = "COMPLETED") => ~present

\* What a run that is not about to save has decided.
Undecided == \A p \in Proc : pc[p] # "save" => outcome[p] = "FAILED"

DecisionInv == Undecided /\ Removed

LEMMA DecisionInit == Init => DecisionInv
BY DEF Init, DecisionInv, Undecided, Removed

LEMMA ForgetDecision ==
  ASSUME TypeOK, DecisionInv, NEW p \in Proc, Forget(p), UNCHANGED <<present, completed>>
  PROVE  DecisionInv'
<1>1. \A o \in Proc \ {p} : pc'[o] = pc[o] /\ outcome'[o] = outcome[o]
  BY DEF TypeOK, Forget, Goto
<1>2. pc'[p] = "idle" /\ outcome'[p] = "FAILED"
  BY DEF TypeOK, Forget, Goto
<1> QED
  BY <1>1, <1>2 DEF DecisionInv, Undecided, Removed

\* A step that moves p between points before "save" decides nothing.
LEMMA MoveDecision ==
  ASSUME TypeOK, DecisionInv, NEW p \in Proc, NEW l \in Points, Goto(p, l),
         pc[p] # "save", UNCHANGED <<outcome, completed, present>>
  PROVE  DecisionInv'
<1>1. outcome[p] = "FAILED"
  BY DEF DecisionInv, Undecided
<1>2. \A o \in Proc \ {p} : pc'[o] = pc[o]
  BY DEF TypeOK, Goto
<1> QED
  BY <1>1, <1>2 DEF DecisionInv, Undecided, Removed

\* p decides: it will save s.
LEMMA SaveDecision ==
  ASSUME TypeOK, DecisionInv, NEW p \in Proc, NEW s \in Outcomes,
         Goto(p, "save"), outcome' = [outcome EXCEPT ![p] = s],
         s = "COMPLETED" => ~present,
         UNCHANGED <<completed, present>>
  PROVE  DecisionInv'
<1>1. \A o \in Proc \ {p} : pc'[o] = pc[o] /\ outcome'[o] = outcome[o]
  BY DEF TypeOK, Goto
<1>2. pc'[p] = "save" /\ outcome'[p] = s
  BY DEF TypeOK, Goto
<1> QED
  BY <1>1, <1>2 DEF DecisionInv, Undecided, Removed

LEMMA DecisionStep == TypeOK /\ DecisionInv /\ [Next]_vars => DecisionInv'
<1> SUFFICES ASSUME TypeOK, DecisionInv, [Next]_vars PROVE DecisionInv'
  OBVIOUS
<1> USE DEF world, history, locals
<1>p. Loaded \subseteq Points /\ {"idle", "rollup", "load"} \subseteq Points
  BY DEF Points
<1>l. {"begin", "verify", "find", "create", "task", "save"} \subseteq Points
  BY <1>p DEF Loaded
<1>1. ASSUME NEW p \in Proc, Poll(p) \/ CloseRequest(p) \/ Load(p) \/ Begin(p) \/ CreateRequest(p)
      PROVE  DecisionInv'
  <2>1. \E l \in Points : Goto(p, l)
    BY <1>1, <1>p, <1>l DEF Poll, CloseRequest, Load, Begin, CreateRequest
  <2>2. pc[p] # "save" /\ UNCHANGED <<outcome, completed, present>>
    BY <1>1 DEF Poll, CloseRequest, Load, Begin, CreateRequest
  <2> QED
    BY <2>1, <2>2, MoveDecision
<1>2. ASSUME NEW p \in Proc, NEW q \in Request, TaskSucceeds(p, q) PROVE DecisionInv'
  BY <1>2, <1>p, MoveDecision DEF TaskSucceeds
<1>3. ASSUME NEW p \in Proc, WorkflowMissing(p) \/ Crash(p) PROVE DecisionInv'
  BY <1>3, ForgetDecision DEF WorkflowMissing, Crash
<1>4. ASSUME NEW p \in Proc, WorkflowDisabled(p) PROVE DecisionInv'
  BY <1>4, <1>p, MoveDecision DEF WorkflowDisabled
<1>5. ASSUME NEW p \in Proc, Verify(p) PROVE DecisionInv'
  <2>1. CASE present /\ Goto(p, "find") /\ UNCHANGED outcome
    BY <1>5, <1>l, <2>1, MoveDecision DEF Verify
  <2>2. CASE /\ ~present /\ Goto(p, "save")
             /\ \E s \in {"COMPLETED", "FAILED"} : outcome' = [outcome EXCEPT ![p] = s]
    <3>1. PICK s \in {"COMPLETED", "FAILED"} : outcome' = [outcome EXCEPT ![p] = s]
      BY <2>2
    <3> QED
      BY <1>5, <2>2, <3>1, SaveDecision DEF Verify, Outcomes
  <2>3. CASE Goto(p, "save") /\ outcome' = [outcome EXCEPT ![p] = "UNVERIFIED"]
    BY <1>5, <2>3, SaveDecision DEF Verify, Outcomes
  <2> QED
    BY <1>5, <2>1, <2>2, <2>3 DEF Verify
<1>6. ASSUME NEW p \in Proc, FindRequest(p) PROVE DecisionInv'
  <2>1. CASE outcome' = [outcome EXCEPT ![p] = "WAITING_ITSM"] /\ Goto(p, "save")
    BY <1>6, <2>1, SaveDecision DEF FindRequest, Outcomes
  <2>2. CASE UNCHANGED outcome /\ Goto(p, "create")
    BY <1>6, <1>l, <2>2, MoveDecision DEF FindRequest
  <2> QED
    BY <1>6, <2>1, <2>2 DEF FindRequest
<1>7. ASSUME NEW p \in Proc, CreateTask(p) PROVE DecisionInv'
  BY <1>7, SaveDecision DEF CreateTask, Outcomes
<1>8. ASSUME NEW p \in Proc, Save(p) PROVE DecisionInv'
  <2>1. \A o \in Proc \ {p} : pc'[o] = pc[o] /\ outcome'[o] = outcome[o]
    BY <1>8 DEF TypeOK, Save, Goto
  <2>2. pc'[p] = "idle" /\ outcome'[p] = "FAILED"
    BY <1>8 DEF TypeOK, Save, Goto
  <2>3. completed' => completed \/ outcome[p] = "COMPLETED"
    BY <1>8 DEF Save
  <2> QED
    BY <1>8, <2>1, <2>2, <2>3 DEF Save, DecisionInv, Undecided, Removed
<1>9. CASE (\E q \in Request : TaskFails(q)) \/ BecomeDue \/ AccessRemoved \/ AccountRemoved
  BY <1>9 DEF TaskFails, BecomeDue, AccessRemoved, AccountRemoved, DecisionInv, Undecided, Removed
<1>10. CASE UNCHANGED vars
  BY <1>10 DEF vars, DecisionInv, Undecided, Removed
<1> QED
  BY <1>1, <1>2, <1>3, <1>4, <1>5, <1>6, <1>7, <1>8, <1>9, <1>10 DEF Next, Step

\* Whatever runs overlap and whatever fails, an execution becomes COMPLETED only
\* when the access is gone (the branches after VerifyAccessRemoved).
THEOREM CompletionIsTrue == Spec => []CompletedMeansRemoved
<1>1. Init => TypeOK /\ DecisionInv
  BY TypeInit, DecisionInit
<1>2. TypeOK /\ DecisionInv /\ [Next]_vars => (TypeOK /\ DecisionInv)'
  BY TypeStep, DecisionStep
<1>3. DecisionInv => CompletedMeansRemoved
  BY DEF DecisionInv, Removed, CompletedMeansRemoved
<1> QED
  BY <1>1, <1>2, <1>3, PTL DEF Spec

-----------------------------------------------------------------------------
(* A completed execution stays unparked.  A run that is on its way to park it *)
(* looked before the completion, so that its copy is stale and its save will  *)
(* be refused; no later run takes that way, as the access is gone.            *)

Parking(p) ==
  \/ pc[p] \in {"find", "create", "task"}
  \/ pc[p] = "save" /\ outcome[p] = "WAITING_ITSM"

ParkingIsStale ==
  completed => status # "WAITING_ITSM" /\ \A p \in Proc : Parking(p) => stale[p]

LEMMA ForgetParking ==
  ASSUME TypeOK, ParkingIsStale, NEW p \in Proc, Forget(p), UNCHANGED completed,
         status' = status \/ status' = "FAILED"
  PROVE  ParkingIsStale'
<1>1. \A o \in Proc \ {p} : pc'[o] = pc[o] /\ outcome'[o] = outcome[o] /\ stale'[o] = stale[o]
  BY DEF TypeOK, Forget, Goto
<1>2. pc'[p] = "idle"
  BY DEF TypeOK, Forget, Goto
<1> QED
  BY <1>1, <1>2 DEF ParkingIsStale, Parking

\* Every other step of p that saves nothing.
LEMMA MoveParking ==
  ASSUME TypeOK, ParkingIsStale, NEW p \in Proc, NEW l \in Points, Goto(p, l),
         \A o \in Proc \ {p} : outcome'[o] = outcome[o],
         UNCHANGED <<stale, completed>>,
         completed /\ status' = "WAITING_ITSM" => status = "WAITING_ITSM",
         completed /\ Parking(p)' => Parking(p)
  PROVE  ParkingIsStale'
<1>1. \A o \in Proc \ {p} : pc'[o] = pc[o]
  BY DEF TypeOK, Goto
<1>2. \A o \in Proc \ {p} : Parking(o)' => Parking(o)
  BY <1>1 DEF Parking
<1> QED
  BY <1>1, <1>2 DEF ParkingIsStale

LEMMA ParkingStep == TypeOK /\ DecisionInv /\ ParkingIsStale /\ [Next]_vars => ParkingIsStale'
<1> SUFFICES ASSUME TypeOK, DecisionInv, ParkingIsStale, [Next]_vars PROVE ParkingIsStale'
  OBVIOUS
<1> USE DEF world, history, locals
<1>p. /\ {"idle", "rollup", "load"} \subseteq Points
      /\ {"begin", "verify", "find", "create", "task", "save"} \subseteq Points
  BY DEF Points, Loaded
<1>g. completed => ~present
  BY DEF DecisionInv, Removed
<1>f. \A p \in Proc, l \in Points : Goto(p, l) => pc'[p] = l
  BY DEF TypeOK, Goto
<1>1. ASSUME NEW p \in Proc, Poll(p) PROVE ParkingIsStale'
  <2>1. pc'[p] = "load"
    BY <1>1, <1>f, <1>p DEF Poll
  <2> QED
    BY <1>1, <1>p, <2>1, MoveParking DEF Poll, Parking
<1>2. ASSUME NEW p \in Proc, NEW q \in Request, TaskSucceeds(p, q) PROVE ParkingIsStale'
  <2>1. pc'[p] = "rollup"
    BY <1>2, <1>f, <1>p DEF TaskSucceeds
  <2> QED
    BY <1>2, <1>p, <2>1, MoveParking DEF TaskSucceeds, Parking
<1>3. ASSUME NEW p \in Proc, CloseRequest(p) PROVE ParkingIsStale'
  <2>1. pc'[p] = "load"
    BY <1>3, <1>f, <1>p DEF CloseRequest
  <2> QED
    BY <1>3, <1>p, <2>1, MoveParking DEF CloseRequest, Parking
<1>4. ASSUME NEW p \in Proc, Load(p) PROVE ParkingIsStale'
  <2>1. pc'[p] = "begin"
    BY <1>4, <1>f, <1>p DEF Load
  <2> QED
    BY <1>4, <1>p, <2>1, MoveParking DEF Load, Parking
<1>5. ASSUME NEW p \in Proc, Begin(p) PROVE ParkingIsStale'
  <2>1. pc'[p] = "verify"
    BY <1>5, <1>f, <1>p DEF Begin
  <2>2. status' = "WAITING_ITSM" => status = "WAITING_ITSM"
    BY <1>5 DEF Begin
  <2> QED
    BY <1>5, <1>p, <2>1, <2>2, MoveParking DEF Begin, Parking
<1>6. ASSUME NEW p \in Proc, WorkflowMissing(p) \/ Crash(p) PROVE ParkingIsStale'
  BY <1>6, ForgetParking DEF WorkflowMissing, Crash
<1>7. ASSUME NEW p \in Proc, WorkflowDisabled(p) PROVE ParkingIsStale'
  <2>1. pc'[p] = "idle" /\ \A o \in Proc \ {p} : pc'[o] = pc[o]
    BY <1>7, <1>f, <1>p DEF WorkflowDisabled, Goto, TypeOK
  <2>2. \A o \in Proc \ {p} : stale[o] => stale'[o]
    BY <1>7 DEF WorkflowDisabled, Supersede, TypeOK
  <2>3. completed' = completed /\ outcome' = outcome
        /\ (status' = "SKIPPED" \/ status' = status)
    BY <1>7 DEF WorkflowDisabled
  <2> QED
    BY <2>1, <2>2, <2>3 DEF ParkingIsStale, Parking
<1>8. ASSUME NEW p \in Proc, Verify(p) PROVE ParkingIsStale'
  <2>1. \A o \in Proc \ {p} : outcome'[o] = outcome[o]
    BY <1>8 DEF Verify, TypeOK
  <2>2. completed => ~Parking(p)'
    <3>1. CASE present
      BY <3>1, <1>g
    <3>2. CASE ~present
      <4>1. pc'[p] = "save"
        BY <1>8, <3>2, <1>f, <1>p DEF Verify
      <4>2. outcome'[p] \in {"COMPLETED", "FAILED", "UNVERIFIED"}
        BY <1>8, <3>2 DEF Verify, TypeOK
      <4> QED
        BY <4>1, <4>2 DEF Parking
    <3> QED
      BY <3>1, <3>2
  <2>3. \E l \in Points : Goto(p, l)
    BY <1>8, <1>p DEF Verify
  <2>4. UNCHANGED <<stale, completed, status>>
    BY <1>8 DEF Verify
  <2> QED
    BY <2>1, <2>2, <2>3, <2>4, MoveParking
<1>9. ASSUME NEW p \in Proc, FindRequest(p) \/ CreateRequest(p) \/ CreateTask(p)
      PROVE  ParkingIsStale'
  <2>1. \A o \in Proc \ {p} : outcome'[o] = outcome[o]
    BY <1>9 DEF FindRequest, CreateRequest, CreateTask, TypeOK
  <2>2. Parking(p)
    BY <1>9 DEF FindRequest, CreateRequest, CreateTask, Parking
  <2>3. \E l \in Points : Goto(p, l)
    BY <1>9, <1>p DEF FindRequest, CreateRequest, CreateTask
  <2>4. UNCHANGED <<stale, completed, status>>
    BY <1>9 DEF FindRequest, CreateRequest, CreateTask
  <2> QED
    BY <2>1, <2>2, <2>3, <2>4, MoveParking
<1>10. ASSUME NEW p \in Proc, Save(p) PROVE ParkingIsStale'
  <2>1. pc'[p] = "idle" /\ \A o \in Proc \ {p} : pc'[o] = pc[o] /\ outcome'[o] = outcome[o]
    BY <1>10, <1>f, <1>p DEF Save, Goto, TypeOK
  <2>2. CASE stale[p] \/ outcome[p] = "UNVERIFIED"
    <3>1. UNCHANGED <<status, completed>> /\ \A o \in Proc \ {p} : stale'[o] = stale[o]
      BY <1>10, <2>2 DEF Save, CanSave, TypeOK
    <3> QED
      BY <2>1, <3>1 DEF ParkingIsStale, Parking
  <2>3. CASE ~stale[p] /\ outcome[p] # "UNVERIFIED"
    <3>1. /\ status' = outcome[p] /\ completed' = (completed \/ outcome[p] = "COMPLETED")
          /\ \A o \in Proc \ {p} : stale'[o] = (stale[o] \/ pc[o] \in Loaded)
      BY <1>10, <2>3 DEF Save, CanSave, Supersede, TypeOK
    <3>2. \A o \in Proc : Parking(o) => pc[o] \in Loaded
      BY DEF Parking, Loaded
    <3>3. completed' => outcome[p] # "WAITING_ITSM"
      BY <1>10, <2>3, <3>1 DEF Save, ParkingIsStale, Parking
    <3>4. \A o \in Proc \ {p} : Parking(o)' => Parking(o)
      BY <2>1 DEF Parking
    <3>5. ~Parking(p)'
      BY <2>1 DEF Parking
    <3> QED
      BY <3>1, <3>2, <3>3, <3>4, <3>5 DEF ParkingIsStale
  <2> QED
    BY <2>2, <2>3 DEF TypeOK
<1>11. CASE (\E q \in Request : TaskFails(q)) \/ BecomeDue \/ AccessRemoved \/ AccountRemoved
  BY <1>11 DEF TaskFails, BecomeDue, AccessRemoved, AccountRemoved, ParkingIsStale, Parking
<1>12. CASE UNCHANGED vars
  BY <1>12 DEF vars, ParkingIsStale, Parking
<1> QED
  BY <1>1, <1>2, <1>3, <1>4, <1>5, <1>6, <1>7, <1>8, <1>9, <1>10, <1>11, <1>12
     DEF Next, Step

\* A run that looked before the removal and saves after another has completed the
\* execution is refused, so that a completed execution is not parked again (the
\* version condition of runExecution's last save).
THEOREM CompletionSticks == Spec => []NotParkedAgain
<1>1. Init => TypeOK /\ DecisionInv /\ ParkingIsStale
  BY TypeInit, DecisionInit DEF Init, ParkingIsStale
<1>2. TypeOK /\ DecisionInv /\ ParkingIsStale /\ [Next]_vars
        => (TypeOK /\ DecisionInv /\ ParkingIsStale)'
  BY TypeStep, DecisionStep, ParkingStep
<1>3. ParkingIsStale => NotParkedAgain
  BY DEF ParkingIsStale, NotParkedAgain
<1> QED
  BY <1>1, <1>2, <1>3, PTL DEF Spec

-----------------------------------------------------------------------------
(* One open request at a time.  A run that is to create a request has seen    *)
(* none open, and while it is the only one that runs nobody else creates one; *)
(* a request in a worker's or a run's hands is as that process left it.       *)

InHand ==
  \A p \in Proc :
    /\ pc[p] = "task"   => request[cur[p]] = "BARE"
    /\ pc[p] = "rollup" => request[cur[p]] = "DONE"

InOneHand ==
  \A p, o \in Proc :
    p # o /\ pc[p] = pc[o] /\ pc[p] \in {"task", "rollup"} => cur[p] # cur[o]

Alone ==
  ~overlapped => \A p, o \in Proc : pc[p] \in Loaded /\ pc[o] \in Loaded => p = o

NoneOpen == \A q \in Request : ~IsOpen(q)

CreatesFirst == ~overlapped => \A p \in Proc : pc[p] = "create" => NoneOpen

OnlyOneOpen == ~overlapped => \A q, r \in Request : IsOpen(q) /\ IsOpen(r) => q = r

RequestInv == InHand /\ InOneHand /\ Alone /\ CreatesFirst /\ OnlyOneOpen

\* A step of p that touches no request, and after which p is about to save or run,
\* or waits.
LEMMA MoveRequests ==
  ASSUME TypeOK, RequestInv, NEW p \in Proc, NEW l \in Points, Goto(p, l),
         \A o \in Proc \ {p} : cur'[o] = cur[o],
         UNCHANGED <<request, overlapped>>,
         l \notin {"task", "rollup"},
         l \in Loaded => pc[p] \in Loaded,
         l = "create" => NoneOpen
  PROVE  RequestInv'
<1>1. pc'[p] = l /\ \A o \in Proc \ {p} : pc'[o] = pc[o]
  BY DEF TypeOK, Goto
<1>2. InHand' /\ InOneHand'
  BY <1>1 DEF RequestInv, InHand, InOneHand
<1>3. Alone'
  BY <1>1 DEF RequestInv, Alone
<1>4. CreatesFirst' /\ OnlyOneOpen'
  BY <1>1 DEF RequestInv, CreatesFirst, OnlyOneOpen, NoneOpen, IsOpen
<1> QED
  BY <1>2, <1>3, <1>4 DEF RequestInv

LEMMA RequestStep == TypeOK /\ RequestInv /\ [Next]_vars => RequestInv'
<1> SUFFICES ASSUME TypeOK, RequestInv, [Next]_vars PROVE RequestInv'
  OBVIOUS
<1> USE DEF world, history, locals
<1>p. /\ {"idle", "rollup", "load"} \subseteq Points
      /\ {"begin", "verify", "find", "create", "task", "save"} \subseteq Points
      /\ {"begin", "verify", "find", "create", "task", "save"} = Loaded
      /\ \A l \in {"idle", "rollup", "load"} : l \notin Loaded
  BY DEF Points, Loaded
<1>f. \A p \in Proc, l \in Points :
        Goto(p, l) => pc'[p] = l /\ \A o \in Proc \ {p} : pc'[o] = pc[o]
  BY DEF TypeOK, Goto
<1>1. ASSUME NEW p \in Proc, Poll(p) PROVE RequestInv'
  BY <1>1, <1>p, MoveRequests DEF Poll
<1>2. ASSUME NEW p \in Proc, NEW q \in Request, TaskSucceeds(p, q) PROVE RequestInv'
  <2>1. /\ pc'[p] = "rollup" /\ \A o \in Proc \ {p} : pc'[o] = pc[o]
        /\ cur'[p] = q /\ \A o \in Proc \ {p} : cur'[o] = cur[o]
    BY <1>2, <1>f, <1>p DEF TaskSucceeds, TypeOK
  <2>2. request'[q] = "DONE" /\ \A r \in Request \ {q} : request'[r] = request[r]
    BY <1>2 DEF TaskSucceeds, TypeOK
  <2>3. request[q] = "QUEUED"
    BY <1>2 DEF TaskSucceeds
  <2>4. \A o \in Proc \ {p} : pc[o] \in {"task", "rollup"} => cur[o] # q
    BY <2>3 DEF RequestInv, InHand
  <2>5. cur[p] \in Request /\ \A o \in Proc : cur[o] \in Request
    BY DEF TypeOK
  <2>6. InHand'
    BY <2>1, <2>2, <2>4, <2>5 DEF RequestInv, InHand
  <2>7. InOneHand'
    BY <2>1, <2>4 DEF RequestInv, InOneHand
  <2>8. Alone'
    BY <1>2, <2>1, <1>p DEF TaskSucceeds, RequestInv, Alone
  <2>9. IsOpen(q) /\ \A r \in Request : IsOpen(r)' => IsOpen(r)
    BY <2>2, <2>3 DEF IsOpen, Open
  <2>10. CreatesFirst' /\ OnlyOneOpen'
    BY <1>2, <2>1, <2>9 DEF TaskSucceeds, RequestInv, CreatesFirst, OnlyOneOpen, NoneOpen
  <2> QED
    BY <2>6, <2>7, <2>8, <2>10 DEF RequestInv
<1>3. ASSUME NEW p \in Proc, CloseRequest(p) PROVE RequestInv'
  <2>1. /\ pc'[p] = "load" /\ (\A o \in Proc \ {p} : pc'[o] = pc[o])
        /\ cur' = cur /\ overlapped' = overlapped
    BY <1>3, <1>f, <1>p DEF CloseRequest
  <2>2. cur[p] \in Request /\ \A o \in Proc : cur[o] \in Request
    BY DEF TypeOK
  <2>3. request'[cur[p]] = "ABSENT" /\ \A r \in Request \ {cur[p]} : request'[r] = request[r]
    BY <1>3, <2>2 DEF CloseRequest, TypeOK
  <2>4. pc[p] = "rollup" /\ request[cur[p]] = "DONE"
    BY <1>3 DEF CloseRequest, RequestInv, InHand
  <2>5. \A o \in Proc \ {p} : pc[o] \in {"task", "rollup"} => cur[o] # cur[p]
    BY <2>4 DEF RequestInv, InHand, InOneHand
  <2>6. InHand'
    BY <2>1, <2>2, <2>3, <2>5 DEF RequestInv, InHand
  <2>7. InOneHand'
    BY <2>1 DEF RequestInv, InOneHand
  <2>8. Alone'
    BY <2>1, <1>p DEF RequestInv, Alone
  <2>9. \A r \in Request : IsOpen(r)' => IsOpen(r)
    BY <2>3 DEF IsOpen, Open
  <2>10. CreatesFirst' /\ OnlyOneOpen'
    BY <2>1, <2>9 DEF RequestInv, CreatesFirst, OnlyOneOpen, NoneOpen
  <2> QED
    BY <2>6, <2>7, <2>8, <2>10 DEF RequestInv
<1>4. ASSUME NEW q \in Request, TaskFails(q) PROVE RequestInv'
  <2>1. request[q] = "QUEUED" /\ request'[q] = "GIVENUP"
        /\ \A r \in Request \ {q} : request'[r] = request[r]
    BY <1>4 DEF TaskFails, TypeOK
  <2>2. UNCHANGED <<pc, cur, overlapped>> /\ \A o \in Proc : cur[o] \in Request
    BY <1>4 DEF TaskFails, TypeOK
  <2>3. InHand' /\ InOneHand' /\ Alone'
    BY <2>1, <2>2 DEF RequestInv, InHand, InOneHand, Alone
  <2>4. \A r \in Request : IsOpen(r)' => IsOpen(r)
    BY <2>1 DEF IsOpen, Open
  <2>5. CreatesFirst' /\ OnlyOneOpen'
    BY <2>2, <2>4 DEF RequestInv, CreatesFirst, OnlyOneOpen, NoneOpen
  <2> QED
    BY <2>3, <2>5 DEF RequestInv
<1>5. ASSUME NEW p \in Proc, Load(p) PROVE RequestInv'
  <2>1. /\ pc'[p] = "begin" /\ (\A o \in Proc \ {p} : pc'[o] = pc[o])
        /\ UNCHANGED <<cur, request>>
    BY <1>5, <1>f, <1>p DEF Load
  <2>2. ~overlapped' => ~overlapped /\ \A o \in Proc \ {p} : pc[o] \notin Loaded
    BY <1>5 DEF Load
  <2>3. InHand' /\ InOneHand'
    BY <2>1 DEF RequestInv, InHand, InOneHand
  <2>4. Alone'
    BY <2>1, <2>2 DEF Alone
  <2>5. CreatesFirst' /\ OnlyOneOpen'
    BY <2>1, <2>2 DEF RequestInv, CreatesFirst, OnlyOneOpen, NoneOpen, IsOpen
  <2> QED
    BY <2>3, <2>4, <2>5 DEF RequestInv
<1>6. ASSUME NEW p \in Proc, Begin(p) \/ Verify(p) PROVE RequestInv'
  <2>1. \E l \in {"verify", "find", "save"} : Goto(p, l)
    BY <1>6 DEF Begin, Verify
  <2>2. UNCHANGED <<cur, request, overlapped>> /\ pc[p] \in {"begin", "verify"}
    BY <1>6 DEF Begin, Verify
  <2> QED
    BY <2>1, <2>2, <1>p, MoveRequests
<1>7. ASSUME NEW p \in Proc, WorkflowMissing(p) \/ WorkflowDisabled(p) \/ Save(p) \/ Crash(p)
      PROVE  RequestInv'
  <2>1. Goto(p, "idle") /\ UNCHANGED <<request, overlapped>>
    BY <1>7 DEF WorkflowMissing, WorkflowDisabled, Save, Crash, Forget
  <2>2. \A o \in Proc \ {p} : cur'[o] = cur[o]
    BY <1>7 DEF WorkflowMissing, WorkflowDisabled, Save, Crash, Forget, TypeOK
  <2> QED
    BY <2>1, <2>2, <1>p, MoveRequests
<1>8. ASSUME NEW p \in Proc, FindRequest(p) PROVE RequestInv'
  <2>1. Goto(p, "save") \/ (Goto(p, "create") /\ NoneOpen)
    BY <1>8 DEF FindRequest, NoneOpen
  <2>2. UNCHANGED <<cur, request, overlapped>> /\ pc[p] = "find"
    BY <1>8 DEF FindRequest
  <2> QED
    BY <2>1, <2>2, <1>p, MoveRequests
<1>9. ASSUME NEW p \in Proc, CreateRequest(p) PROVE RequestInv'
  <2>1. PICK q \in Request : /\ request[q] = "ABSENT"
                             /\ request' = [request EXCEPT ![q] = "BARE"]
                             /\ cur' = [cur EXCEPT ![p] = q]
    BY <1>9 DEF CreateRequest
  <2>2. /\ pc'[p] = "task" /\ (\A o \in Proc \ {p} : pc'[o] = pc[o])
        /\ cur'[p] = q /\ (\A o \in Proc \ {p} : cur'[o] = cur[o])
        /\ request'[q] = "BARE" /\ (\A r \in Request \ {q} : request'[r] = request[r])
        /\ overlapped' = overlapped /\ pc[p] = "create"
    BY <1>9, <2>1, <1>f, <1>p DEF CreateRequest, TypeOK
  <2>3. \A o \in Proc \ {p} : pc[o] \in {"task", "rollup"} => cur[o] # q
    BY <2>1 DEF RequestInv, InHand
  <2>4. \A o \in Proc : cur[o] \in Request
    BY DEF TypeOK
  <2>5. InHand'
    BY <2>2, <2>3, <2>4 DEF RequestInv, InHand
  <2>6. InOneHand'
    BY <2>2, <2>3 DEF RequestInv, InOneHand
  <2>7. Alone'
    BY <2>2, <1>p DEF RequestInv, Alone
  <2>8. CreatesFirst'
    <3>1. ~overlapped => \A o \in Proc \ {p} : pc[o] # "create"
      BY <2>2, <1>p DEF RequestInv, Alone
    <3> QED
      BY <2>2, <3>1 DEF CreatesFirst
  <2>9. OnlyOneOpen'
    <3>1. ~overlapped => \A r \in Request \ {q} : ~IsOpen(r)'
      BY <2>2 DEF RequestInv, CreatesFirst, NoneOpen, IsOpen
    <3> QED
      BY <2>2, <3>1 DEF OnlyOneOpen
  <2> QED
    BY <2>5, <2>6, <2>7, <2>8, <2>9 DEF RequestInv
<1>10. ASSUME NEW p \in Proc, CreateTask(p) PROVE RequestInv'
  <2>1. /\ pc'[p] = "save" /\ (\A o \in Proc \ {p} : pc'[o] = pc[o])
        /\ UNCHANGED <<cur, overlapped>> /\ pc[p] = "task"
    BY <1>10, <1>f, <1>p DEF CreateTask
  <2>2. cur[p] \in Request /\ \A o \in Proc : cur[o] \in Request
    BY DEF TypeOK
  <2>3. /\ \A r \in Request \ {cur[p]} : request'[r] = request[r]
        /\ request'[cur[p]] = "QUEUED" \/ request'[cur[p]] = request[cur[p]]
    BY <1>10, <2>2 DEF CreateTask, TypeOK
  <2>4. request[cur[p]] = "BARE"
    BY <2>1 DEF RequestInv, InHand
  <2>5. \A o \in Proc \ {p} : pc[o] \in {"task", "rollup"} => cur[o] # cur[p]
    BY <2>1, <2>4 DEF RequestInv, InHand, InOneHand
  <2>6. InHand'
    BY <2>1, <2>2, <2>3, <2>5 DEF RequestInv, InHand
  <2>7. InOneHand'
    BY <2>1 DEF RequestInv, InOneHand
  <2>8. Alone'
    BY <2>1, <1>p DEF RequestInv, Alone
  <2>9. \A r \in Request : IsOpen(r)' => IsOpen(r)
    BY <2>3, <2>4 DEF IsOpen, Open
  <2>10. CreatesFirst' /\ OnlyOneOpen'
    BY <2>1, <2>9 DEF RequestInv, CreatesFirst, OnlyOneOpen, NoneOpen
  <2> QED
    BY <2>6, <2>7, <2>8, <2>10 DEF RequestInv
<1>11. CASE BecomeDue \/ AccessRemoved \/ AccountRemoved \/ UNCHANGED vars
  <2>1. UNCHANGED <<request, pc, cur, overlapped>>
    BY <1>11 DEF BecomeDue, AccessRemoved, AccountRemoved, vars
  <2> QED
    BY <2>1 DEF RequestInv, InHand, InOneHand, Alone, CreatesFirst, OnlyOneOpen, NoneOpen, IsOpen
<1> QED
  BY <1>1, <1>2, <1>3, <1>4, <1>5, <1>6, <1>7, <1>8, <1>9, <1>10, <1>11 DEF Next, Step

LEMMA RequestInit == Init => RequestInv
<1> SUFFICES ASSUME Init PROVE RequestInv
  OBVIOUS
<1>1. \A p \in Proc : pc[p] \in {"load", "idle"}
  BY DEF Init
<1>2. \A q \in Request : ~IsOpen(q)
  BY DEF Init, IsOpen, Open
<1>3. InHand /\ InOneHand /\ Alone /\ CreatesFirst
  BY <1>1 DEF InHand, InOneHand, Alone, CreatesFirst, Loaded
<1> QED
  BY <1>2, <1>3 DEF RequestInv, OnlyOneOpen

\* Unless runs overlap, the execution has at most one open provisioning request,
\* whatever fails between the request and its task
\* (enqueueCertRevokeProvisioning).
THEOREM RequestsAreSingle == Spec => []OneOpenRequest
<1>1. Init => TypeOK /\ RequestInv
  BY TypeInit, RequestInit
<1>2. TypeOK /\ RequestInv /\ [Next]_vars => (TypeOK /\ RequestInv)'
  BY TypeStep, RequestStep
<1>3. RequestInv => OneOpenRequest
  <2> SUFFICES ASSUME RequestInv, ~overlapped
               PROVE  Cardinality({q \in Request : request[q] \in Open}) <= 1
    BY DEF OneOpenRequest
  <2> DEFINE Opened == {q \in Request : request[q] \in Open}
  <2>1. \A q, r \in Opened : q = r
    BY DEF RequestInv, OnlyOneOpen, IsOpen
  <2>2. CASE Opened = {}
    <3>1. Cardinality(Opened) = 0
      BY <2>2, FS_EmptySet
    <3> QED
      BY <3>1
  <2>3. CASE Opened # {}
    <3>1. PICK q : Opened = {q}
      BY <2>1, <2>3
    <3>2. Cardinality(Opened) = 1
      BY <3>1, FS_Singleton
    <3> QED
      BY <3>2
  <2> QED
    BY <2>2, <2>3
<1> QED
  BY <1>1, <1>2, <1>3, PTL DEF Spec
=============================================================================
