\* Two node pools, every cloud and option; two runs stopped, clusters failed or changes by hand.
CONSTANTS
  Pools <- MCPools
  MaxFaults = 2
SPECIFICATION Spec
INVARIANTS TypeOK NothingLeft UsableWhenRecorded NothingPulledAway ConvergedWritesNothing
PROPERTIES PodsPerNodeFirst DeletesEnd AppliesEnd
CHECK_DEADLOCK FALSE
