------------------------------ MODULE EventLedger ------------------------------
(***************************************************************************)
(* What the lifecycle event queue promises, without workers, locks, claims *)
(* or clocks: an event is open, held by whoever works on it, and in the    *)
(* end done or dead, for good.  Giving an event back may cost it a try;    *)
(* it is buried exactly when it has no try left.                           *)
(***************************************************************************)
EXTENDS Naturals

CONSTANTS Event, Primary, MaxRetries

VARIABLES state, tries

ledger == <<state, tries>>

Init ==
  /\ state = [e \in Event |-> "absent"]
  /\ tries = [e \in Event |-> 0]

\* Facts that ask for no work are done as they arrive.
Arrive(e) ==
  /\ state[e] = "absent"
  /\ \E s \in IF e \in Primary THEN {"open"} ELSE {"open", "done"} :
       state' = [state EXCEPT ![e] = s]
  /\ UNCHANGED tries

Take(e) ==
  /\ e \in Primary
  /\ state[e] = "open"
  /\ state' = [state EXCEPT ![e] = "held"]
  /\ UNCHANGED tries

Finish(e) ==
  /\ state[e] = "held"
  /\ state' = [state EXCEPT ![e] = "done"]
  /\ UNCHANGED tries

GiveBack(e) ==
  /\ state[e] = "held"
  /\ state' = [state EXCEPT ![e] = "open"]
  /\ \/ UNCHANGED tries
     \/ tries[e] < MaxRetries /\ tries' = [tries EXCEPT ![e] = @ + 1]

Bury(e) ==
  /\ state[e] = "held"
  /\ tries[e] = MaxRetries
  /\ state' = [state EXCEPT ![e] = "dead"]
  /\ tries' = [tries EXCEPT ![e] = @ + 1]

\* A scheduled fact is closed by the promotion that acts on it, unheld.
Close(e) ==
  /\ e \notin Primary
  /\ state[e] = "open"
  /\ state' = [state EXCEPT ![e] = "done"]
  /\ UNCHANGED tries

Next ==
  \E e \in Event :
    Arrive(e) \/ Take(e) \/ Finish(e) \/ GiveBack(e) \/ Bury(e) \/ Close(e)

Spec == Init /\ [][Next]_ledger
=============================================================================
