\* Two versions, two changes of the profile, three faults: enough for a recovery that
\* is itself interrupted, and its own recovery.
CONSTANTS
  v1 = v1  v2 = v2
  Versions = {v1, v2}
  MaxChanges = 2
  MaxFaults = 3
SPECIFICATION Spec
INVARIANTS InstalledMeansLive DeployedKeepsRunning NeverRefused
PROPERTIES GivesUpOnlyIfNotServed RetriesConverge
