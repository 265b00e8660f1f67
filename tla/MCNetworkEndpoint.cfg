SPECIFICATION FairSpec
CONSTANTS
  Users = {owner, sender}
  Owner = owner
  Processor = proc
  NoThread = none
  Modes = {"connection", "datagram", "multicastSend"}
  MaxOpens = 2
  MaxPackets = 2
  MaxArrivals = 2
  PipeCapacity = 2
CHECK_DEADLOCK FALSE
INVARIANTS
  SentInOrder
  NoLostWakeup
  SocketOutlivesProcessor
  ClosedIsQuiet
PROPERTIES
  CallsReturn
  PacketsAreSent
