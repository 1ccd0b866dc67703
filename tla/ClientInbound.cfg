SPECIFICATION InboundSpec
CONSTANTS
  Capacity <- MCCapacity
  MaxPackets <- MCMaxPackets
INVARIANT InboundTypeOK
INVARIANT PacketsInOrder
PROPERTY NothingHandledAfterClose
PROPERTY ConnectionGoesDown
PROPERTY ImplementsPacketOrder
CHECK_DEADLOCK FALSE
