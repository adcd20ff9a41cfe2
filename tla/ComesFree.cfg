\* Whatever dies, is lost or lapses: moves stay legal, every run ends, the cluster comes free.
CONSTANTS
  a1 = a1  a2 = a2  a3 = a3  d1 = d1  d2 = d2
  Applies = {a1}
  Deletes = {d1}
  Holders = {a1, d1}
  NoHolder = NoHolder
  Attempts = 2
  MaxLost = 2
  Lossy <- Calls
  Lapses = TRUE
  Flaky = TRUE
  Interruptible = {a1, d1}
  Crashable = {a1, d1}
  Leftovers <- OldLive
SPECIFICATION Spec
PROPERTIES LegalMoves DecommissioningIsOneWay ClusterComesFree
