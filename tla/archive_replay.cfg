CONSTANTS
  MessageCount = 4
  ListLimit = 2
  Older <- Used
SPECIFICATION FairSpec
INVARIANTS
  VerdictRight
PROPERTIES
  Ends
