SPECIFICATION Spec
CONSTANTS
  Devices = {1}
  MaxAcls = 2
  MaxChans = 3
  MaxClients = 2
  AuthSites = {"linked"}
  FailsBeside = TRUE
INVARIANT ReferenceKeeps
CHECK_DEADLOCK FALSE
