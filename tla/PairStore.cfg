SPECIFICATION Spec
CONSTANTS
  MainThread = main
  Workers = {w1, w2}
  Udids = {u1}
  Conf = conf
  Records = {r1, r2}
  Buids = {b1, b2}
  Depth = 2
  Missing = missing
  Empty = empty
  Torn = torn
INVARIANTS
  AckedIsStored
PROPERTIES
  BuidSettles
  PreflightEnds
