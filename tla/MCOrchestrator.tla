--------------------------- MODULE MCOrchestrator ---------------------------
(* Small instances of Orchestrator for TLC. *)
EXTENDS Orchestrator

CONSTANTS a1, a2, a3, d1, d2

\* DELETE is the one statement without a condition: the runs that rely on
\* mutual exclusion do not lose it (the run lostDelete does).
Deletions == {"revDelete", "forget"}
AllButDeletions == Calls \ Deletions

\* The calls whose loss can leave a lease behind a run that is over.
LeaseCalls == {"acquire", "revAcquire"} \cup Releasing
AllButLeaseCalls == Calls \ (Deletions \cup LeaseCalls)

\* The calls that change what a phase move depends on.
Writes == {"create", "record", "forget"}

NoCalls == {}
NoLeftovers == {}

\* What can exist beside a row whose run died at a phase: the work of the phase
\* before, and whatever the step after it had done; a teardown takes the cluster
\* first and the repository last, of however much had been built.
Network == {"network"}
Cluster == Network \cup {"cluster"}
Pushed  == Cluster \cup {"repo"}

LeftAt(p) ==
  CASE p = "pending"         -> {{}, Network, Cluster}
    [] p = "cluster-created" -> {Cluster, Pushed}
    [] p = "identity-bound"  -> {Cluster, Pushed}
    [] p = "repo-pushed"     -> {Pushed, Resources}
    [] p = "decommissioning" -> {Resources, Pushed, Cluster, Pushed \ {"cluster"},
                                 Network, {"repo"}, {}}
    [] p = "decommissioned"  -> {{}}
    [] OTHER                 -> {Resources}

\* identity-bound comes from an older binary; a row left there before its
\* repository was pushed is the run legacyIdentity's.
BoundNoRepo == [phase |-> "identity-bound", cloud |-> Cluster]
AnyLeftover == UNION {[phase : {p}, cloud : LeftAt(p)] : p \in PhaseOrder} \ {BoundNoRepo}

OldBoundNoRepo == {BoundNoRepo}
OldTombstone == {w \in AnyLeftover : w.phase = "decommissioned"}
OldRows == OldTombstone \cup {w \in AnyLeftover : w.phase = "identity-bound"}
OldLive ==
  OldTombstone \cup {[phase |-> "ready", cloud |-> Resources],
                     [phase |-> "pending", cloud |-> Cluster],
                     [phase |-> "decommissioning", cloud |-> {"network", "repo"}]}
ReviveDeleteOnly == {"revDelete"}
=============================================================================
