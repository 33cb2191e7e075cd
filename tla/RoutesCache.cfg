CONSTANTS
  get = get
  slash = slash
  o1 = o1
  o2 = o2
  v1 = v1
  v2 = v2
  v3 = v3
  v4 = v4
  v5 = v5
  r1 = r1
  r2 = r2
  Method = {get}
  Path = {slash}
  Offset <- Offsets
  Value <- Values
  Req <- Reqs
  NoValue = NoValue
  Blank = Blank
  Expire = 1
  Interval = 1
  MaxEntries = 1
  ClockDelta <- Forward
  MaxNow = 3
  MaxPause = 1
SPECIFICATION Spec
SYMMETRY Symmetric
INVARIANTS NoUseAfterRelease RightResult PoolExclusive
PROPERTIES CacheSpec
