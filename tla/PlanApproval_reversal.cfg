SPECIFICATION Spec
CONSTANTS
  Caller = {c1}
  Approver = {a1}
  First = first
  Again = again
  Hash = {h1}
  NoHash = none
  MaxFaults = 0
\* A request that is settled asks for nothing more.
CHECK_DEADLOCK FALSE
PROPERTY DecisionIsFinal
