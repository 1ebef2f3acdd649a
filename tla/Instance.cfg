SPECIFICATION Spec
CONSTANTS
  Procs = {1, 2, 3}
  Devices = {d1}
  Kinds = {"udev", "disable", "plain", "exit", "force"}
  NoFile = nofile
  Plain = plain
INVARIANTS
  OneInstance
PROPERTIES
  FoundUnlessAsked
CHECK_DEADLOCK FALSE
