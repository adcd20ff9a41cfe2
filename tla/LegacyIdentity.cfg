\* A row left at identity-bound before its repository was pushed.
CONSTANTS
  a1 = a1  a2 = a2  a3 = a3  d1 = d1  d2 = d2
  Applies = {a1}
  Deletes = {}
  Holders = {a1}
  NoHolder = NoHolder
  Attempts = 2
  MaxLost = 0
  Lossy <- NoCalls
  Lapses = FALSE
  Flaky = FALSE
  Interruptible = {}
  Crashable = {}
  Leftovers <- OldBoundNoRepo
SPECIFICATION Spec
INVARIANTS ApplySucceeds
