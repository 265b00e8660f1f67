SPECIFICATION FairSpecWin32
CONSTANTS
  Users = {owner, sender}
  Owner = owner
  Processor = proc
  NoThread = none
  Modes = {"connection", "datagram", "multicastSend", "multicastReceive"}
  MaxOpens = 2
  MaxPackets = 2
  MaxArrivals = 2
  PipeCapacity = 1
CHECK_DEADLOCK FALSE
INVARIANTS
  NothingLeftAsleep
PROPERTIES
  PacketsAreSentUnlessStranded
