SPECIFICATION FairSpec
CONSTANTS
  Apps = {a, b}
  Driver = driver
  NoClient = none
  MaxClients = 3
  AppOps = {"bd_addr"}
  BackendFails = TRUE
  AppMay = {"leave", "command", "async"}
INVARIANT ReadyMeansKnown
INVARIANT ToldOnce
PROPERTY EventuallyTold
CHECK_DEADLOCK FALSE
