\* Two applies and two deletes race over whatever an earlier run or binary left; nothing fails.
CONSTANTS
  a1 = a1  a2 = a2  a3 = a3  d1 = d1  d2 = d2
  Applies = {a1, a2}
  Deletes = {d1, d2}
  Holders = {a1, a2, d1, d2}
  NoHolder = NoHolder
  Attempts = 2
  MaxLost = 0
  Lossy <- NoCalls
  Lapses = FALSE
  Flaky = FALSE
  Interruptible = {}
  Crashable = {}
  Leftovers <- AnyLeftover
SPECIFICATION Spec
PROPERTIES Converges
