CONSTANTS
  l1 = l1
  l2 = l2
  Listen <- Addresses
  HasDeadline <- Deadlines
  MaxInFlight = 1
  MaxHup = 2
  StartupMayFail = TRUE
  AcceptMayFail = TRUE
SPECIFICATION FairSpec
INVARIANTS ClosedAfterServe NoPanic
PROPERTIES TermExits HupRotates
CHECK_DEADLOCK FALSE
