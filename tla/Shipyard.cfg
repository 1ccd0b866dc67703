SPECIFICATION Spec
CONSTANTS
  short = short
  long = long
  Ship = {short, long}
  Duration <- ShortAndLong
  Longest = 2
  Slots = 2
  Capacity = 2
  Hurries = {h1, h2}
  MaxBuilds = 4
  MaxDraw = 2
  MaxTime = 4
  MaxGold = 4
  MaxDrills = 1
  MaxExtras = 2
  MaxEffort = 5
  h1 = h1
  h2 = h2
  None = None
SYMMETRY AnyHurry
INVARIANT NoOverbooking
INVARIANT QueueIsTight
INVARIANT PollingDoesNotMatter
INVARIANT DrillsAreWellSpent
PROPERTY TakesItsTime
CHECK_DEADLOCK FALSE
