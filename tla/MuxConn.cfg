SPECIFICATION Spec
CONSTANTS
  Clients = {c1, c2}
  MaxDeviceId = 2
  SportMod = 3
SYMMETRY Symm
INVARIANTS
  PairsMatch
  SportsDistinct
  OneAnswerPerConnect
  NoHalfOpen
  NoStaleConn
