SPECIFICATION FairSpec
CONSTANTS
  account = account
  other = other
  read = read
  write = write
  ann = ann
  ben = ben
  Item = {account, other}
  Entitlement = {read, write}
  ItemOf <- MCItemOf
  Reviewer = {ann, ben}
  ReviewerOf <- MCReviewerOf
  Request = {a, b}
  MaxRequests = 2
  MaxFaults = 1
\* Nobody has to ask for anything more.
CHECK_DEADLOCK FALSE
INVARIANTS TypeOK LockedMeansDecided QueuedIsRevoked
PROPERTIES AllDecidedCompletes RevocationIsQueued
