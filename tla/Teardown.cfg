\* Two applies, any number of deletes; polls, steps and the cloud fail three times.
CONSTANTS
  s1 = s1  s2 = s2
  MaxErrors = 2
  Services = {s1, s2}
  Overtakes = FALSE
  MaxApplies = 2
  MaxFaults = 3
SPECIFICATION Spec
INVARIANTS RecordedWasActive GoneMeansGone DrainIsThorough
PROPERTIES WaitsAreNotCutShort TornDownInReverse RunsEnd DeleteConverges
