------------------------------- MODULE Phases -------------------------------
(***************************************************************************)
(* The provisioning state machine of internal/core/phase.go: the phases a   *)
(* cluster's registry record can be at, the successor of each on the happy  *)
(* path, and the relation UpdatePhase validates every move against.         *)
(***************************************************************************)

\* The phases in which a cluster is neither torn down nor being torn down.
LivePhases ==
  {"pending", "cluster-created", "identity-bound", "repo-pushed",
   "argocd-installed", "ready"}

\* PhaseOrder, the authoritative list of phases, from which Valid is derived.
PhaseOrder == LivePhases \cup {"decommissioning", "decommissioned"}

Terminal(p) == p = "decommissioned"

\* forwardTransitions maps each phase to its single successor.  The phases it
\* leaves out ("ready" and "decommissioned") have none.
HasNext(p) == p \in PhaseOrder \ {"ready", "decommissioned"}

NextPhase(p) ==
  CASE p = "pending"          -> "cluster-created"
    [] p = "cluster-created"  -> "repo-pushed"
    [] p = "identity-bound"   -> "repo-pushed"
    [] p = "repo-pushed"      -> "argocd-installed"
    [] p = "argocd-installed" -> "ready"
    [] OTHER                  -> "decommissioned"

\* A phase may be rewritten, entered by its single forward step, or left for
\* teardown; nothing leaves the terminal phase.
CanTransition(from, to) ==
  /\ from \in PhaseOrder
  /\ to \in PhaseOrder
  /\ \/ from = to
     \/ /\ ~Terminal(from)
        /\ \/ to = "decommissioning"
           \/ HasNext(from) /\ to = NextPhase(from)
=============================================================================
