SPECIFICATION Spec
CONSTANTS
  Clients = {c1, c2}
  NoClient = NoClient
  Peers = {p1}
  SyncOps = {"reset"}
  AsyncOps = {"disconnect", "read_clock_offset", "reject_connection"}
  ListenEvents = {"MODE_CHANGE"}
  MaxPending = 2
  MaxClients = 2
  MaxRequests = 3
  StatusCbs = {FALSE}
  Overlap = {"opcode", "tmpdata", "event"}
  CallbackMay = {}
  SendFails = TRUE
SYMMETRY Symmetry
INVARIANTS TypeOK CountMatchesTable OwnersAlive HeldEntryStays
PROPERTY NoCallAfterEnd
