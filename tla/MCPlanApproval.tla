---------------------------- MODULE MCPlanApproval ----------------------------
(* Small instances of PlanApproval: two orchestration calls of one event, two *)
(* approvers, two plan contents.                                              *)
EXTENDS PlanApproval, TLC

CallersAndApprovers == Permutations(Caller) \union Permutations(Approver)
SafetySymmetry == CallersAndApprovers \union Permutations(Hash)
=============================================================================
