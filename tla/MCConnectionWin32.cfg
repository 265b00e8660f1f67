SPECIFICATION FairSpecWin32
CONSTANTS
  main = main
  Users = {main}
  Processor = proc
  NoThread = none
  Lifecycle = {main}
  MaxCalls <- OneUserCalls
  MaxSockets = 1
  MaxBytes = 2
  MessageSizes = {2}
  WriteSize = 2
  ReadSize = 1
  SendBuffer = 1
  PeerBytes = 1
  PipeCapacity = 1
CHECK_DEADLOCK FALSE
INVARIANTS
  NothingLeftAsleep
PROPERTIES
  EndOfStreamIsReported
