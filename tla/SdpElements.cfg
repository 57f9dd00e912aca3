SPECIFICATION Spec
CONSTANTS
  Trees <- MCTrees
  Records <- MCRecords
  Slacks <- MCSlacks
  MaxVisits = 24
 
INVARIANT WalkVisitsAll
INVARIANT NumbersKeepValue
INVARIANT DiscoverFinds
CHECK_DEADLOCK FALSE
