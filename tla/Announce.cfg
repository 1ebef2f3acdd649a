SPECIFICATION FairSpec
CONSTANTS
  Devices = {d1, d2}
  Listeners = {c1, c2}
CHECK_DEADLOCK FALSE
INVARIANTS
  CbPointsToLiveStack
  NoMissedAttach
  DetachedIfVisible
PROPERTY
  ExitOrInversion
