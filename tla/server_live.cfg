CONSTANTS
  c1 = c1
  c2 = c2
  Clients <- OneClient
  Generator = generator
  Commands <- LiveCommands
  DefaultInterval = 500
  MinInterval = 50
  Capacity = 4
  MaxCommands = 2
  MaxConnects = 2
  MaxGenerated = 2
SPECIFICATION FairSpec
INVARIANTS
  OneOrderAfterStop
PROPERTIES
  CommandsServed
  ClientsServed
  IntervalTakesEffect
