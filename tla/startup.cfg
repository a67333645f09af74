SPECIFICATION FairSpec
CONSTANTS
  Instances = {i1}
  Operators = {op}
  Readers = {i1}
  MaxCommands = 2
  MaxFaults = 1
  MaxRevision = 2
  NoProc = NoProc
INVARIANTS
  
  RecordedInEffect
  LegacyNotRerun
PROPERTIES
  
  FlagsNeverGoBack
  QuietAfterShutdown
  
  ShutdownEnds
  FlagsCatchUp
CHECK_DEADLOCK FALSE
