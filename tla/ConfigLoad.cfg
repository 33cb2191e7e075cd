CONSTANTS
  a = a
  b = b
  c = c
  d = d
  e = e
  dotA = dotA
  File <- Files
  Name <- Names
  AbsOf <- Abs
  Root = a
  Contents <- AllContents
  Plain = Plain
  BadPattern = BadPattern
  Unreadable = Unreadable
  Malformed = Malformed
  Unused = Unused
  MaxDepth = 6
  Invocations <- Invocation
  BadExpr = BadExpr
  Header <- Headers
  IntLimit = 64
  UnitSize <- Units
  TimeUnit <- Times
  Registered <- Types
  DefaultDir = "cache"
  NoFile = NoFile
  Covers <- CertificateHosts
  BadCert <- BadFiles
  Wildcard <- Wildcards
SPECIFICATION Spec
INVARIANTS ChainExact Expanded AsConfigured DumpAsWritten RightHost RightCertificate
PROPERTIES Terminates
CHECK_DEADLOCK FALSE
