SPECIFICATION Spec
CONSTANTS
  Signups <- Three
  OptOuts <- Stop
  phoneOf <- OnePhone
  Typings <- Written
  accountOf <- OneAccount
  renames <- Second
  spelled <- Typed
  canonical <- Official
  Dashboard <- Third
  MaxFaults = 1
  None = None
INVARIANTS
  TypeOK
  OptOutHolds
  SignupHolds
  OneUserPerDestination
  
CHECK_DEADLOCK FALSE
