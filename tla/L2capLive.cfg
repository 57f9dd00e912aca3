SPECIFICATION FairSpec
CONSTANTS
  default = default
  large = large
  Mtus <- MCMtus
  DefaultMtu <- MCDefault
  RequestSizes = {1, 2}
  ReplySizes = {1, 2}
  MaxConfigs <- TwiceOfOneEnd
  MaxCloses <- OneClose
  MayReject = TRUE
  MayQueue = FALSE
  MayLoseLink = TRUE
  Reconfigure = FALSE
INVARIANT MtuAgree
INVARIANT OpenNotHalf
INVARIANT AwaitsOnlyOutstanding
PROPERTY ToldOnce
PROPERTY ConfigureAnswered
PROPERTY BothOpen
PROPERTY DisconnectDone
CHECK_DEADLOCK FALSE
