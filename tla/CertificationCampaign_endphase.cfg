SPECIFICATION Spec
CONSTANTS
  account = account
  other = other
  read = read
  write = write
  ann = ann
  ben = ben
  Item = {account, other}
  Entitlement = {read, write}
  ItemOf <- MCItemOf
  Reviewer = {ann, ben}
  ReviewerOf <- MCReviewerOf
  Request = {a}
  MaxRequests = 2
  MaxFaults = 0
\* Nobody has to ask for anything more.
CHECK_DEADLOCK FALSE
PROPERTY EndPhaseNeedsOwner
