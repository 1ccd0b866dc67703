SPECIFICATION Spec
CONSTANTS
  Handlers = {h1, h2}
  h1 = h1
  h2 = h2
  Price = 2
  Stock = 2
  Start = 3
  Amounts = {2}
  MaxAmount = 5
  MaxHandled = 3
  MaxOps = 2
  NoOne = NoOne
INVARIANT FreeOnlyIfOvertaken
INVARIANT NothingOversold
INVARIANT LiveFollowsRow
PROPERTY HandlersEnd
CHECK_DEADLOCK FALSE
