SPECIFICATION Spec
CONSTANTS
  Fds = {1, 2}
  Clients = {1, 2}
  AckTimeout = 1
  PollTime = 2
  Far = 3
  MaxFailures = 1
INVARIANTS
  TypeOK
  ServedIsPolled
PROPERTIES
  WakesInTime
  AckGoesOut
  ExitHeeded
  DiscoveryHeeded
