SPECIFICATION Spec
CONSTANTS
  Login = {l1}
  Intervals = {2, 3}
  Default = 2
  Point = 2
  Cap = 5
  Initial = 2
  Deltas <- GainAndLoss
  MaxTime = 5
  MaxBack = 1
  MaxBattles = 1
  MaxSessions = 2
  MaxFaults = 1
  MaxEvents = 1
  NoAnchor = NoAnchor
INVARIANT OneGrantPerInterval
INVARIANT NothingDueIsLeft
PROPERTY DueIsGranted
CHECK_DEADLOCK FALSE
