SPECIFICATION Spec
CONSTANTS
  Procs = {1, 2, 3}
  Devices = {d1}
  Kinds = {"udev", "exit"}
  NoFile = nofile
  Plain = plain
PROPERTY
  PluggedIsFound
CHECK_DEADLOCK FALSE
