CONSTANTS
  GET = GET
  PUT = PUT
  pa = pa
  pb = pb
  ext = ext
  auth = auth
  cors = cors
  strip = strip
  page = page
  static = static
  backend = backend
  noUri = noUri
  noHandler = noHandler
  Method <- Methods
  Path <- Paths
  AbsoluteUri = {ext}
  Filter = {auth, strip, cors}
  FilterConfig <- FilterConfigs
  ContentPath <- Paths
  ContentOf <- Contents
  Handler = {static, backend, page}
  NoUri = noUri
  NoHandler = noHandler
  HandlerStatus = {200, 404, 500}
  Tables <- AllTables
  Formats <- AllFormats
SPECIFICATION Spec
INVARIANTS SearchAsRead FilterGate StampedByFinal ErrorHasBody LogsWhatHappened
PROPERTIES ServesAsPromised
CHECK_DEADLOCK FALSE
