-------------------------- MODULE ClusterLifecycle --------------------------
(***************************************************************************)
(* What internal/orchestrator promises about one cluster, with none of its  *)
(* machinery (rows, versions, retries, leases): at most one run owns the    *)
(* cluster at a time, only the owner changes anything outside the registry, *)
(* it builds while the cluster lives and removes while it is torn down, a   *)
(* phase is recorded when its work is done, and the cluster is forgotten    *)
(* when nothing of it is left.                                              *)
(***************************************************************************)
EXTENDS Phases

CONSTANTS
  Builders,   \* the runs of `kubespin apply'
  Removers,   \* the runs of `kubespin delete'
  Nobody,     \* no owner
  Starts,     \* the [phase, cloud] a cluster may start from
  Unknown     \* the phase of a cluster nobody has registered

VARIABLES phase, cloud, owner

vars == <<phase, cloud, owner>>

\* What is in place once the work before a phase is done.
Work(p) ==
  CASE p \in {"cluster-created", "identity-bound"} -> {"network", "cluster"}
    [] p = "repo-pushed"                           -> {"network", "cluster", "repo"}
    [] p \in {"argocd-installed", "ready"} -> {"network", "cluster", "repo", "argocd"}
    [] OTHER                                       -> {}

Init == [phase |-> phase, cloud |-> cloud] \in Starts /\ owner = Nobody

\* A new ID is registered.
Register ==
  /\ phase = Unknown
  /\ phase' = "pending"
  /\ UNCHANGED <<cloud, owner>>

\* A run gets, and gives up, the cluster.
Take(r) ==
  /\ phase # Unknown
  /\ owner = Nobody
  /\ owner' = r
  /\ UNCHANGED <<phase, cloud>>

Leave(r) ==
  /\ owner = r
  /\ owner' = Nobody
  /\ UNCHANGED <<phase, cloud>>

\* The owner brings a resource about, or removes one.
Build(r) ==
  /\ owner = r /\ r \in Builders
  /\ phase \in LivePhases
  /\ \E x \in Work("ready") \ cloud : cloud' = cloud \cup {x}
  /\ UNCHANGED <<phase, owner>>

Remove(r) ==
  /\ owner = r /\ r \in Removers
  /\ phase = "decommissioning"
  /\ cloud' \subseteq cloud
  /\ UNCHANGED <<phase, owner>>

\* The owner records that the phase's work is done, or that it is over.
Advance(r) ==
  /\ owner = r /\ r \in Builders
  /\ phase \in LivePhases \ {"ready"}
  /\ Work(NextPhase(phase)) \subseteq cloud
  /\ phase' = NextPhase(phase)
  /\ UNCHANGED <<cloud, owner>>

Condemn(r) ==
  /\ owner = r /\ r \in Removers
  /\ phase \in LivePhases
  /\ phase' = "decommissioning"
  /\ UNCHANGED <<cloud, owner>>

\* Nothing is left: the owner removes the record, and its claim with it.  A
\* tombstone may also be cleared by a run that is to register the ID anew.
Forget(r) ==
  /\ owner = r
  /\ \/ phase = "decommissioning" /\ r \in Removers
     \/ phase = "decommissioned"
  /\ cloud = {}
  /\ phase' = Unknown
  /\ owner' = Nobody
  /\ UNCHANGED cloud

Next ==
  \/ Register
  \/ \E r \in Builders \cup Removers :
       \/ Take(r) \/ Leave(r) \/ Build(r) \/ Remove(r)
       \/ Advance(r) \/ Condemn(r) \/ Forget(r)

Spec == Init /\ [][Next]_vars
=============================================================================
