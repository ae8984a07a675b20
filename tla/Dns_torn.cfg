SPECIFICATION Spec
CONSTANTS
  cf = cf
  google = google
  Junk = Junk
  Self = Self
  Mixed = Mixed
  Empty = Empty
  Clients = {c1}
  Jobs = {j1}
  Servers <- MCServers
  Starts <- MCStarts
  Selections <- MCSelections
  Customs <- MCCustoms
  ValidIps <- MCValidIps
  Alive = {google}
  DnsMax = 4
  FrameMax = 4
  Headers = 1
  QuerySizes = {0, 1, 5}
  ReplySizes = {3, 5}
  MaxSwitch = 1
  Faults = {}
INVARIANTS
  PairConfigured
CHECK_DEADLOCK FALSE
