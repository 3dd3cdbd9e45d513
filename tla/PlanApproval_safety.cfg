SPECIFICATION Spec
CONSTANTS
  Caller = {c1, c2}
  Approver = {a1, a2}
  First = first
  Again = again
  Hash = {h1, h2}
  NoHash = none
  MaxFaults = 1
SYMMETRY SafetySymmetry
\* A request that is settled asks for nothing more.
CHECK_DEADLOCK FALSE
INVARIANTS TypeOK TasksNeedApproval OneExecution DecisionAgrees
