SPECIFICATION Spec
CONSTANTS
  Hdr = 2
  Cap = 4
  Answer = 2
  MaxCmds = 2
  MaxData = 2
  MaxOut = 2
INVARIANTS
  TypeOK
  CommandsInStep
  AnswersInOrder
  OutputAwaited
  PoliteIsServed
PROPERTIES
  AnswersArrive
