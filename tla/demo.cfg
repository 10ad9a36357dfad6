CONSTANTS
  Price <- DemoPrices
  Qty <- DemoQuantities
  Eps = 0
  Templates <- DemoTemplates
  CancelIds <- MCCancelIds
  SeedScript <- DemoScript
  SeedSpan = 24
  SnapshotDepth = 25
  StartTime = 24
  MaxTime = 24
  MaxEvents = 25
  ClockMayStepBack = FALSE
SPECIFICATION Spec
CONSTRAINT FewClientEvents
INVARIANTS
  DemoScrubs
