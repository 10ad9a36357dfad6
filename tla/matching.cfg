CONSTANTS
  Price <- MCPrice
  Qty <- MCQty
  Eps = 1
  Templates <- MCTemplates
  CancelIds <- MCCancelIds
  MaxOrders = 4
SPECIFICATION FairSpec
INVARIANTS
  TimePriority
  IndexSound
  Uncrossed
  TradesBestFirst
  MatchInv
PROPERTIES
  ImplementsPriceTimeBook
  SubmitReturns
