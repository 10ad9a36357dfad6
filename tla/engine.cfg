CONSTANTS
  Price <- MCPrice
  Qty <- MCQty
  Eps = 1
  Templates <- MCTemplates
  CancelIds <- MCCancelIds
  SeedScript <- ReplayScript
  SeedSpan = 2
  SnapshotDepth = 1
  StartTime = 2
  MaxTime = 3
  MaxEvents = 4
  ClockMayStepBack = TRUE
SPECIFICATION Spec
CONSTRAINT OrdersOrTimes
INVARIANTS
  EngineInv
  LiveBookSound
  QuantityConserved
  FillOrKill
  ReplayReconstructs
  ReplaySound
PROPERTIES
  ImplementsPriceTimeBook
