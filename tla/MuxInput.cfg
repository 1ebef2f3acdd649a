SPECIFICATION InputSpec
CONSTANTS
  UsbMru = 4
  DevMru = 16
  Lengths <- MCLengths
  Garbage <- MCGarbage
INVARIANTS
  WholePacket
  InStep
