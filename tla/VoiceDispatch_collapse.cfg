SPECIFICATION Spec
CONSTANTS
  Attempts <- ThreeAttempts
  Messages <- TwoMessages
  messageOf <- MCMessageOf
  receivedAt <- MCReceivedAt
  EventBacked <- OddAttempts
  Dispatchers = {d1}
  Sids = {1, 2, 3}
  ClaimLimit = 2
  Collapse = TRUE
  MaxFaults = 1
  None = None
INVARIANTS
  RowNamesItsCall
  CollapsedCallsBounded
PROPERTIES
  FairShare
CHECK_DEADLOCK FALSE
