---------------------------- MODULE OperationLedger ----------------------------
(***************************************************************************)
(* What an approved request promises of its operations, without workers,   *)
(* clocks, results, rollups or resumed runs: an operation is asked for     *)
(* once, started when those it requires are done, called for, and in the   *)
(* end done or given up, for good.  A refused call costs a try, and the    *)
(* operation is given up exactly when no try is left.  A worker that dies  *)
(* leaves it as it is.                                                     *)
(***************************************************************************)
EXTENDS Naturals

CONSTANTS Operation, Requires, MaxRetries

VARIABLES state, calls

ledger == <<state, calls>>

Init ==
  /\ state = [o \in Operation |-> "unknown"]
  /\ calls = [o \in Operation |-> 0]

Becomes(o, from, to) == state[o] = from /\ state' = [state EXCEPT ![o] = to]

Ask(o) == Becomes(o, "unknown", "asked") /\ UNCHANGED calls

Start(o) ==
  /\ \A r \in Requires[o] : state[r] = "done"
  /\ Becomes(o, "asked", "started")
  /\ UNCHANGED calls

Call(o) ==
  /\ \E answer \in {"carriedOut", "refused"} : Becomes(o, "started", answer)
  /\ calls' = [calls EXCEPT ![o] = @ + 1]

Close(o) == Becomes(o, "carriedOut", "done") /\ UNCHANGED calls

AskAgain(o) ==
  /\ calls[o] <= MaxRetries
  /\ Becomes(o, "refused", "asked")
  /\ UNCHANGED calls

GiveUp(o) ==
  /\ calls[o] = MaxRetries + 1
  /\ Becomes(o, "refused", "givenUp")
  /\ UNCHANGED calls

Next ==
  \E o \in Operation :
    Ask(o) \/ Start(o) \/ Call(o) \/ Close(o) \/ AskAgain(o) \/ GiveUp(o)

Spec == Init /\ [][Next]_ledger
=============================================================================
