SPECIFICATION FairSpec
CONSTANTS
  h1 = h1
  h2 = h2
  Handles <- TwoHandles
  MaxPackets = 2
  MaxFrags = 2
  MaxConns = 3
  MaxSent = 3
  SendFails = TRUE
  Departures <- AnyDeparture
INVARIANTS CreditConservation NoIdleCredit PacketOrder NoStalePackets
PROPERTY Drains
CHECK_DEADLOCK FALSE
