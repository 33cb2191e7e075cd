CONSTANTS
  q1 = q1
  q2 = q2
  N = 3
  CounterMod = 8
  Request <- Requests
  Hash <- OneClient
  HealthCheck = TRUE
  MaxFaults = 1
SPECIFICATION FewSpec
INVARIANTS SkipsOnlyDown Rotates Sticky
PROPERTIES Converges PickEnds
