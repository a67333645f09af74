SPECIFICATION Spec
CONSTANTS
  Instances = {i1}
  Operators = {op}
  Readers = {i1}
  MaxCommands = 2
  MaxFaults = 1
  MaxRevision = 2
  NoProc = NoProc
PROPERTY
  AdoptionIsOneTime
CHECK_DEADLOCK FALSE
