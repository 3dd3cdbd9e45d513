SPECIFICATION FairSpec
CONSTANTS
  j = j
  s = s
  l = l
  p1 = p1
  p2 = p2
  t1 = t1
  t2 = t2
  Event <- MCEvent
  IdentityOf <- MCIdentityOf
  KindOf <- MCKindOf
  LeaverOf <- MCLeaverOf
  Proc = {p1, p2}
  Tick = {t1, t2}
  ProcOf <- MCProcOf
  NoProc = NoProc
  MaxRetries = 1
  Limit = 2
  MaxFaults = 2
  MaxOverruns = 0
INVARIANTS
  TypeOK
  OneTickAtATime
  ClaimHeld
  CompletedWasHandled
  PromotionNotLost
PROPERTIES
  ImplementsLedger
  NoOvertaking
  EveryEventSettles
  ScheduledTerminationSettles
