SPECIFICATION FairSpec
CONSTANTS
  MaxRequests = 2
  MaxFailures = 1
  MaxRefs = 2
  Sizes = {2, 3}
  MaxTotal = 3
  IdSpace = 4
  Faults = {"error", "no code", "malformed", "short", "long", "not sent", "lost"}
  MaxRepeats = 1
INVARIANT AnswersUnmixed
INVARIANT OneLastCallback
INVARIANT WaitsOnlyForAnswer
INVARIANT NotUsedFreed
PROPERTY RequestCompletes
CHECK_DEADLOCK FALSE
