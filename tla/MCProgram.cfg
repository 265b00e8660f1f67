SPECIFICATION FairSpec
CONSTANTS
  PipeCapacity = 2
  MaxChanges = 4
  MaxStops = 2
  ChildMonitored = TRUE
CHECK_DEADLOCK FALSE
INVARIANTS
  NoCallbackAfterStop
  StopCalledOnce
PROPERTIES
  ChangesAreReported
  RequestsAreObeyed
