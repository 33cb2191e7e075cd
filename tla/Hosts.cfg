CONSTANTS
  h1 = h1
  h2 = h2
  h3 = h3
  f1 = f1
  f2 = f2
  r1 = r1
  r3 = r3
  r4 = r4
  web = web
  api = api
  none = none
  NoFile = none
  Host <- AllHosts
  File <- Files
  Output <- Outputs
  LogOutput <- LogOutputs
  Listen <- Listens
  HostsOf <- Groups
  Request <- Requests
  HostOf <- Hosting
  LineLength <- Lengths
  BufferSize <- Sizes
  MaxRotations = 1
  MaxFaults = 1
SPECIFICATION FairSpec
INVARIANTS NothingLost CountsUsers ClosedIsComplete LogIsReady
PROPERTIES EventuallyFlushed
CHECK_DEADLOCK FALSE
