SPECIFICATION Spec
CONSTANTS
  Mission = {"daily", "give"}
  Emits = {e1, e2}
  Stages <- TwoStages
  Tiers <- TwoTiers
  Target = 1
  MaxEvents = 3
  MaxWeek = 1
  MaxFaults = 1
  MaxItems = 1
  NoRow = NoRow
  NoState = NoState
INVARIANT EventsAreCounted
INVARIANT TierPaidOnce
INVARIANT RewardsAreEarned
CHECK_DEADLOCK FALSE
