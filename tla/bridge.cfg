CHECK_DEADLOCK FALSE
CONSTANTS
  c1 = c1
  c2 = c2
  Clients <- MCClients
  Commands <- AllCommands
  PrefillSize <- TwoOrders
  MaxRetries = 0
  Capacity = 4
  FirstSeq = 500000
  DefaultInterval = 500
  MinInterval = 20
  MaxCommands = 2
  MaxConnects = 2
  MaxStreamed = 1
  Kinds <- AllKinds
  Mids <- WalkMids
  Offsets <- WalkOffsets
  Draws <- WalkDraws
  ClientOrders <- Submitted
SPECIFICATION Spec
SYMMETRY Symmetry
INVARIANTS
  OrdersAccountedFor
  ClientOrderKept
  PrefillTallied
  StatsFresh
  TicksFaithful
  PrefillsAddDepth
