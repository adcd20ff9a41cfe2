-------------------------- MODULE LifecycleMapping --------------------------
(***************************************************************************)
(* How Orchestrator implements ClusterLifecycle: the phase is the row's,    *)
(* the cloud is the cloud, and the owner is the holder of the unexpired     *)
(* lease, alive or not.  Orchestrator's own machinery is not seen.          *)
(***************************************************************************)
EXTENDS Orchestrator

\* The owner of the cluster, as the registry knows it.
Owner(w) == IF w.live THEN w.holder ELSE NoHolder

Abstract == INSTANCE ClusterLifecycle WITH
  Builders <- Applies,
  Removers <- Deletes,
  Nobody   <- NoHolder,
  Unknown  <- Absent,
  Starts   <- Leftovers \cup {[phase |-> Absent, cloud |-> {}]},
  phase    <- row.phase,
  cloud    <- cloud,
  owner    <- Owner(row)

\* Every step of the runs is a step of the one-owner lifecycle, or none.
ImplementsLifecycle == Abstract!Spec
=============================================================================
