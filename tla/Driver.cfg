SPECIFICATION DriverSpec
CONSTANTS
  Bus = {0, 1, 2}
  DevMax = 2
  FnMax = 2
  CapSlots = {16, 17}
  MAX_FUNCTIONS = 5
  MAX_MCFG_ALLOCS = 2
  Hardware <- Machines
  QUEUE_ENTRIES = 3
  CidMod = 4
  MAX_CLIENTS = 2
  c1 = c1
  c2 = c2
  Client = {c1, c2}
  Request <- Requests
  Capacity = 2
  Value = {7, 8, 9}
  Content <- Contents
  RequestMax = 1
  SpinMax = 1
  service = service
  Nil = Nil
INVARIANTS EnabledOnlyIsolated OkMeansDone DiscoveryExact

PROPERTIES RequestsAnswered
CHECK_DEADLOCK FALSE
