SPECIFICATION FairSpec
CONSTANTS
  main = main
  other = other
  Users = {main}
  Processor = proc
  NoThread = none
  Lifecycle = {main}
  MaxCalls <- LivenessCalls
  MaxSockets = 1
  MaxBytes = 2
  MessageSizes = {2}
  WriteSize = 1
  ReadSize = 1
  SendBuffer = 1
  PeerBytes = 1
  PipeCapacity = 2
CHECK_DEADLOCK FALSE
PROPERTIES
  StopIsObeyed
  QueuedBytesArrive
  GracefulCloseEnds
  EndsAreReported
