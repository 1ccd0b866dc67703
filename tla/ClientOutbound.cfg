SPECIFICATION Spec
CONSTANTS
  Dispatcher = d
  Helpers = {h1, h2}
  Closers = {k1, k2}
  Foreign = {h1, k1}
  MaxMessages = 4
  Nobody = Nobody
  h1 = h1
  h2 = h2
  k1 = k1
  k2 = k2
INVARIANT KeptUntilWritten
INVARIANT FirstSeenInOrder
INVARIANT BufferedHasFlusher
INVARIANT UndisturbedIsExact
PROPERTY KickEnds
CHECK_DEADLOCK FALSE
