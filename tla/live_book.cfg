CONSTANTS
  c1 = c1
  c2 = c2
  Clients <- MCClients
  Generator = generator
  Commands <- BookCommands
  DefaultInterval = 500
  MinInterval = 50
  Capacity = 4
  MaxCommands = 2
  MaxConnects = 2
  MaxGenerated = 0
SPECIFICATION Spec
INVARIANT LiveBook
