SPECIFICATION Spec
CONSTANTS
  Clients = {c1, c2}
  MaxDeviceId = 1
  SportMod = 3
INVARIANT NoStaleClient
