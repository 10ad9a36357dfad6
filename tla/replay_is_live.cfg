CONSTANTS
  Price <- MCPrice
  Qty <- MCQty
  Eps = 1
  Templates <- ReplayTemplates
  CancelIds <- ReplayCancelIds
  SeedScript <- ReplayScript
  SeedSpan = 2
  SnapshotDepth = 1
  StartTime = 2
  MaxTime = 3
  MaxEvents = 4
  ClockMayStepBack = FALSE
SPECIFICATION Spec
INVARIANT ReplayToNowIsLive
