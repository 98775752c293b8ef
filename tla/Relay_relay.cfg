SPECIFICATION FairSpec
CONSTANTS
  Events <- TwoEvents
  Poison <- First
  Relays <- OneRelay
  Workers <- TwoWorkers
  BatchSize = 2
  ReadCount = 2
  MaxFaults = 1
  None = None
INVARIANTS
  TypeOK
  NeverForgotten
  CopiesAccounted
PROPERTIES
  Delivers
  EveryMessageServed
CHECK_DEADLOCK FALSE
