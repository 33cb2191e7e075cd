CONSTANTS
  k1 = k1
  k2 = k2
  k3 = k3
  v1 = v1
  v2 = v2
  v3 = v3
  Key <- Keys
  Value <- Values
  Expire = 1
  Interval = 2
  MaxEntries = 2
  ClockDelta <- Forward
  MaxNow = 5
SPECIFICATION FairSpec
INVARIANTS TypeOK CapRespected PassesSpaced SingleOwner
PROPERTIES OnlyIdleEvicted IdleIsEvicted
