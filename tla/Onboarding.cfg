SPECIFICATION Spec
CONSTANTS
  Client = {c1, c2, c3}
  User = {u1, u2}
  Device = {d1, d2}
  Name = {n1}
  Ticket <- TwoOfOneUser
  DeviceOf <- SharedDevice
  Sequences = FALSE
  Starters = 2
  Attempts = 2
  MaxRequests = 2
  MaxFaults = 1
  MaxOthers = 1
  NoUser = NoUser
  NoName = NoName
  c1 = c1
  c2 = c2
  c3 = c3
  u1 = u1
  u2 = u2
  d1 = d1
  d2 = d2
INVARIANT AcknowledgedIsComplete
INVARIANT OneUserPerAccount
INVARIANT DeviceAgreesWithUser
PROPERTY AccountIsKept
PROPERTY RequestEnds
CHECK_DEADLOCK FALSE
