SPECIFICATION FairSpec
CONSTANTS
  Devices = {1}
  MaxAcls = 2
  MaxChans = 3
  MaxClients = 2
  AuthSites = {"linked"}
  FailsBeside = FALSE
INVARIANTS RefsBalanced  LinkHasUser 
 
CHECK_DEADLOCK FALSE
