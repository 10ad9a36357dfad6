CHECK_DEADLOCK FALSE
CONSTANTS
  c1 = c1
  c2 = c2
  Clients <- OneClient
  Commands <- LiveCommands
  PrefillSize <- OneOrder
  MaxRetries = 1
  Capacity = 3
  FirstSeq = 500000
  DefaultInterval = 500
  MinInterval = 20
  MaxCommands = 2
  MaxConnects = 1
  MaxStreamed = 2
  Kinds <- AllKinds
  Mids <- WalkMids
  Offsets <- WalkOffsets
  Draws <- WalkDraws
  ClientOrders <- Submitted
SPECIFICATION FairSpec
INVARIANTS
  BridgeInv
  OneOrderAfterStop
  AcksTellTheWire
  CountersAgree
PROPERTIES
  OrdersAcknowledged
  StreamGoesOn
  LogDelivered
