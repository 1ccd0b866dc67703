SPECIFICATION Spec
CONSTANTS
  Conn = {c1, c2}
  Commander = {x}
  Room = {}
  DefaultRoom = lobby
  HashVal = {c1, c2}
  Hash <- HashIsInjective
  Allowed = {c1, c2}
  Detached = {}
  MaxObjects = 1
  MaxJoins = 0
  Sweep = {}
  API = API
  LoadMayFail = FALSE
  NoConn = NoConn
  NoObj = NoObj
INVARIANT ConnectedCommanderIsActive
CHECK_DEADLOCK FALSE
