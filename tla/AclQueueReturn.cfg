SPECIFICATION Spec
CONSTANTS
  h1 = h1
  h2 = h2
  Handles <- TwoHandles
  MaxPackets = 2
  MaxFrags = 2
  MaxConns = 3
  MaxSent = 3
  SendFails = FALSE
  Departures <- AnyDeparture
INVARIANT ReturnCountsSent
CHECK_DEADLOCK FALSE
