\* Two applies and a delete race for a new, dead or legacy cluster.
CONSTANTS
  a1 = a1  a2 = a2  a3 = a3  d1 = d1  d2 = d2
  Applies = {a1, a2}
  Deletes = {d1}
  Holders = {a1, a2, d1}
  NoHolder = NoHolder
  Attempts = 2
  MaxLost = 2
  Lossy <- AllButDeletions
  Lapses = FALSE
  Flaky = TRUE
  Interruptible = {a1}
  Crashable = {a2, d1}
  Leftovers <- OldRows
SPECIFICATION Spec
INVARIANTS TypeOK WorkExclusive WorkerIsCurrent PhaseHonest NothingUnrecorded
INVARIANTS LeaseGivenBack
PROPERTIES StaleWritesRejected OnlyHolderMoves ImplementsLifecycle
