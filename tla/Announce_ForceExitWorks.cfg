SPECIFICATION FairSpec
CONSTANTS
  Devices = {d1}
  Listeners = {c1}
CHECK_DEADLOCK FALSE
PROPERTY ForceExitWorks
