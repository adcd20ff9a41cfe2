\* Up to three renewals in a row fail, a call takes 1 of 12 ticks, clocks differ by 1.
CONSTANTS
  r1 = r1  r2 = r2
  Runs = {r1, r2}
  NoRun = NoRun
  TTL = 12
  Interval = 4
  MaxDelay = 1
  Skew <- Ahead
  MaxMisses = 3
  MaxTime = 30
SPECIFICATION Spec
INVARIANTS HeartbeatKeepsLease BlockedAtMostTTL
CHECK_DEADLOCK FALSE
