SPECIFICATION FairSpec
CONSTANTS
  NumRxLoops = 3
  MaxTx = 3
  MaxPlugs = 3
  FaultSets = {
    {"resubmit", "rx_start", "events", "same_address", "others"},
    {"rx_start", "events", "same_address", "others"},
    {"rx_start", "events", "same_address"}}
INVARIANTS
  MuxHasItsUsb
  ReadingOrReaped
PROPERTIES
  
  DepartedIsDetached
  DisconnectEnds
