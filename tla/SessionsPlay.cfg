SPECIFICATION Spec
CONSTANTS
  Conn = {c1, c2}
  Commander = {x}
  Room = {lobby}
  DefaultRoom = lobby
  HashVal = {c1, c2}
  Hash <- HashIsInjective
  Allowed = {c1, c2}
  Detached = {"create"}
  MaxObjects = 1
  MaxJoins = 1
  Sweep = {s1}
  API = API
  LoadMayFail = TRUE
  NoConn = NoConn
  NoObj = NoObj
INVARIANT TypeOK
INVARIANT ClosedDoorEmptiesServer
INVARIANT OpenIsReachable
CHECK_DEADLOCK FALSE
