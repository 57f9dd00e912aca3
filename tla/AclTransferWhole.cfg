SPECIFICATION Spec
CONSTANTS
  PacketSize = 8
  Mtu <- SmallMtu
  RemoteMtu <- SmallMtu
  Sizes = {0, 5}
  Chunks = {2, 5}
  MaxMessages = 2
  MaxFlushes = 2
INVARIANTS ReadsItsMessage
PROPERTY ImplementsMessageChannel
CHECK_DEADLOCK FALSE
