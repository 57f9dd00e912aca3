SPECIFICATION FairSpec
CONSTANTS
  Clients = {c1, c2}
  NoClient = NoClient
  Peers = {p1, p2}
  SyncOps = {"reset"}
  AsyncOps = {"create_connection", "auth_requested"}
  ListenEvents = {}
  MaxPending = 2
  MaxClients = 2
  MaxRequests = 3
  StatusCbs = {TRUE}
  Overlap = {}
  CallbackMay = {}
  SendFails = FALSE
INVARIANT DeliveredToRequester
PROPERTY SilentOnlyWhenFull
PROPERTY AnsweredEventually
