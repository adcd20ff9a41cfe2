\* The reply of a DELETE is lost and the statement retried.
CONSTANTS
  a1 = a1  a2 = a2  a3 = a3  d1 = d1  d2 = d2
  Applies = {a1, a2}
  Deletes = {}
  Holders = {a1, a2}
  NoHolder = NoHolder
  Attempts = 2
  MaxLost = 1
  Lossy <- ReviveDeleteOnly
  Lapses = FALSE
  Flaky = FALSE
  Interruptible = {}
  Crashable = {}
  Leftovers <- OldTombstone
SPECIFICATION Spec
INVARIANTS WorkExclusive
