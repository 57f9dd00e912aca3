SPECIFICATION Spec
CONSTANTS
  default = default
  large = large
  Mtus <- MCMtus
  DefaultMtu <- MCDefault
  RequestSizes = {1}
  ReplySizes = {1}
  MaxConfigs <- Once
  MaxCloses <- OneClose
  MayReject = FALSE
  MayQueue = TRUE
  MayLoseLink = FALSE
  Reconfigure = FALSE
INVARIANT ToldWhenReplied
CHECK_DEADLOCK FALSE
