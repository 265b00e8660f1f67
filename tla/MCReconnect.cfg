SPECIFICATION Spec
CONSTANTS
  main = main
  other = other
  Users = {main}
  Processor = proc
  NoThread = none
  Lifecycle = {main, proc}
  MaxCalls <- ReconnectCalls
  MaxSockets = 2
  MaxBytes = 1
  MessageSizes = {1}
  WriteSize = 1
  ReadSize = 1
  SendBuffer = 1
  PeerBytes = 1
  PipeCapacity = 2
CHECK_DEADLOCK FALSE
INVARIANTS
  LockDiscipline
  BrokenExactlyOnce
  ReportedSocketsAreClosed
  ImplOutlivesItsThreads
  ServedUnlessReconnected
