SPECIFICATION FairSpec
CONSTANTS
  Changes = {"create_org"}
  Events <- MCEvents
  EventsOf <- MCEventsOf
  Instances = {i1, i2}
  MinBackoff = 1
  MaxBackoff = 2
  MaxStops = 2
INVARIANTS
  OutboxFollowsChanges
  
PROPERTIES
  DeliversAll
  DrainEnds
CHECK_DEADLOCK FALSE
