CONSTANTS
  l1 = l1
  l2 = l2
  Listen <- Addresses
  HasDeadline <- Deadlines
  MaxInFlight = 1
  MaxHup = 0
  StartupMayFail = FALSE
  AcceptMayFail = FALSE
SPECIFICATION FairSpec
PROPERTIES TermAlwaysExits
CHECK_DEADLOCK FALSE
