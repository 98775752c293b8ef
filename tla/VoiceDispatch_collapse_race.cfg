SPECIFICATION Spec
CONSTANTS
  Attempts <- TwoAttempts
  Messages <- OneMessage
  messageOf <- MCMessageOf
  receivedAt <- MCReceivedAt
  EventBacked <- OddAttempts
  Dispatchers = {d1}
  Sids = {1, 2}
  ClaimLimit = 2
  Collapse = TRUE
  MaxFaults = 1
  None = None
INVARIANTS
  OneRealCallPerMessage
CHECK_DEADLOCK FALSE
