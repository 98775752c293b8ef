SPECIFICATION FairSpec
CONSTANTS
  Attempts <- OneAttempt
  Messages <- OneMessage
  messageOf <- MCMessageOf
  receivedAt <- MCReceivedAt
  EventBacked <- OddAttempts
  Dispatchers = {d1, d2}
  Sids = {1, 2, 3}
  ClaimLimit = 1
  Collapse = FALSE
  MaxFaults = 2
  None = None
INVARIANTS
  TypeOK
  WorkedUnderLease
  CallAccounting
  DeliveredMeansAnswered
  ReportStands
  SettledRowsAgree
PROPERTIES
  ReopenedOnlyLate
  SettlesForGood
CHECK_DEADLOCK FALSE
