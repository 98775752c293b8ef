SPECIFICATION Spec
CONSTANTS
  Attempts <- OneAttempt
  Messages <- OneMessage
  messageOf <- MCMessageOf
  receivedAt <- MCReceivedAt
  EventBacked <- OddAttempts
  Dispatchers = {d1}
  Sids = {1}
  ClaimLimit = 1
  Collapse = FALSE
  MaxFaults = 0
  None = None
INVARIANTS
  CallbackStateConsistent
CHECK_DEADLOCK FALSE
