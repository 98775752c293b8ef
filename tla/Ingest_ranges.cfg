SPECIFICATION Spec
CONSTANTS
  MonthStart <- Winter
  January = 3
  LastCode = 9
  None = None
  Stanzas <- TwoStanzas
  Sessions <- TwoSessions
  Envelopes <- AllEnvelopes
  Programmes <- Pairs
  Products <- Supported
  Etns <- AB
  MaxFaults = 1
CHECK_DEADLOCK FALSE
INVARIANTS
  RangesExpanded
