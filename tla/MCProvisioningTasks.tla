------------------------- MODULE MCProvisioningTasks -------------------------
(* A small instance of ProvisioningTasks: an account, and an entitlement that *)
(* depends on it.                                                             *)
EXTENDS ProvisioningTasks

CONSTANTS account, entitlement

MCItem == {account, entitlement}
MCDependsOn == [i \in Item |-> IF i = entitlement THEN {account} ELSE {}]
MCSequence == [i \in Item |-> IF i = entitlement THEN 1 ELSE 0]
=============================================================================
