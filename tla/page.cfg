CHECK_DEADLOCK FALSE
CONSTANTS
  p1 = p1
  p2 = p2
  Pages <- MCPages
  Commands <- AllCommands
  Second = 3
  DstBegins = 0
  DstEnds = 6
  DstShift = 3
  DemoAges <- TwoOrders
  StartTime = 7
  MaxTime = 8
  MaxMoves = 1
  MaxCommands = 3
  MaxLosses = 1
SPECIFICATION Spec
CONSTRAINT FewSteps
SYMMETRY Symmetry
INVARIANTS
  SliderCoversSpan
  PickerLagBounded
