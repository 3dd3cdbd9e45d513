--------------------------- MODULE MCLifecycleQueue ---------------------------
(* Small instances of LifecycleQueue: one person joins and has a termination *)
(* scheduled, whose promotion creates the LEAVER event.                      *)
EXTENDS LifecycleQueue, TLC

CONSTANTS j, s, l, p1, p2, t1, t2

MCEvent == {j, s, l}
MCIdentityOf == [e \in MCEvent |-> "alice"]
MCKindOf == (j :> "JOINER") @@ (s :> "TERMINATION_SCHEDULED") @@ (l :> "LEAVER")
MCLeaverOf == [e \in MCEvent |-> l]
MCProcOf == (t1 :> p1) @@ (t2 :> p2)
=============================================================================
