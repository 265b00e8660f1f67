SPECIFICATION Spec
CONSTANTS
  main = main
  other = other
  Users = {main, other}
  Processor = proc
  NoThread = none
  Lifecycle = {main}
  MaxCalls <- SharedCalls
  MaxSockets = 1
  MaxBytes = 2
  MessageSizes = {2}
  WriteSize = 2
  ReadSize = 1
  SendBuffer = 1
  PeerBytes = 1
  PipeCapacity = 1
CHECK_DEADLOCK FALSE
INVARIANTS
  EndOfStreamIsLast
  NoLostWakeup
  SentInOrder
