\* One run of apply, or of delete, is killed.
CONSTANTS
  Pools <- MCPools
  MaxFaults = 1
SPECIFICATION Spec
INVARIANT NoGatewayLeft
CHECK_DEADLOCK FALSE
