\* An upgrade of a ready cluster is killed, and the next run in the middle of its recovery.
CONSTANTS
  v1 = v1  v2 = v2
  Versions = {v1, v2}
  MaxChanges = 1
  MaxFaults = 2
SPECIFICATION Spec
PROPERTY ReadyRetriesConverge
