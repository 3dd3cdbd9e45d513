CONSTANTS
  Sync = {s1, s2}
  Path = {"bulk", "sequential", "hrms"}
  Lives = {"ACTIVE", "TERMINATED"}
  Dept = {"IT", "HR"}
  Horizon = 1
  MaxRuns = 3
  MaxTroubles = 1
SYMMETRY SyncSymmetry
SPECIFICATION Spec
INVARIANTS
  TypeOK
  TransitionsNoticed
  AccessFollowsSource
PROPERTIES
  PromotionYieldsLeaver
CHECK_DEADLOCK FALSE
