SPECIFICATION Spec
CONSTANTS
  Handlers = {h1, h2}
  h1 = h1
  h2 = h2
  Price = 2
  Stock = 2
  Start = 3
  Amounts = {2}
  MaxAmount = 5
  MaxHandled = 1
  MaxOps = 1
  NoOne = NoOne
SYMMETRY AnyHandler
INVARIANT NeverLocked
CHECK_DEADLOCK FALSE
