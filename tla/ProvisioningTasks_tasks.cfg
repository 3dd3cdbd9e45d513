SPECIFICATION FairSpec
CONSTANTS
  account = account
  entitlement = entitlement
  Item <- MCItem
  DependsOn <- MCDependsOn
  Sequence <- MCSequence
  InOrder = TRUE
  Worker = {w1, w2}
  Approval = approval
  MaxRetries = 1
  MaxFaults = 1
\* When every task is settled there is nothing left to do.
CHECK_DEADLOCK FALSE
INVARIANTS TypeOK PerformedOnce GivenUpAfterRetries DependenciesFirst
PROPERTIES ImplementsOperations EveryTaskSettles
