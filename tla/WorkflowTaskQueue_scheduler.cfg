SPECIFICATION FairSpec
CONSTANTS
  t1 = t1
  item1 = item1
  item2 = item2
  Task = {t1, t2}
  ReviewItem = {item1, item2}
  ItemOf <- MCTwoItems
  Run = {r1, r2}
  NoRun = NoRun
  Operator = {o1}
  BatchSize = 1
  MaxRequests = 3
  MaxFaults = 1
  MaxOverruns = 0
\* Without requests left and with the scheduler disabled nothing happens.
CHECK_DEADLOCK FALSE
INVARIANTS TypeOK OneRunAtATime StartedOnceByScheduler CertifiedWasClosed
PROPERTY EveryTaskStarts
