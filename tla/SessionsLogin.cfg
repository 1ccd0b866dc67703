SPECIFICATION Spec
CONSTANTS
  Conn = {c1, c2, c3}
  Commander = {x}
  Room = {}
  DefaultRoom = lobby
  HashVal = {c1, c2, c3}
  Hash <- HashIsInjective
  Allowed = {c1, c2, c3}
  Detached = {"unlock", "quit"}
  MaxObjects = 1
  MaxJoins = 0
  Sweep = {}
  API = API
  LoadMayFail = TRUE
  NoConn = NoConn
  NoObj = NoObj
SYMMETRY Connections
INVARIANT NoMutualKick
INVARIANT ActiveClientIsOpen
PROPERTY EntryLeavesWithItsOwner
CHECK_DEADLOCK FALSE
