SPECIFICATION FairSpec
CONSTANTS
  Proc = {first, other}
  Initial = first
  Request = {q1, q2}
  Polling = TRUE
  MaxFaults = 0
\* An execution that has ended may rest for ever.
CHECK_DEADLOCK FALSE
PROPERTY RemovalIsNoticed
