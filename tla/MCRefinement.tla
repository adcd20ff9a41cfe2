---------------------------- MODULE MCRefinement ----------------------------
(* Small instances on which Orchestrator implements ClusterLifecycle. *)
EXTENDS MCOrchestrator, LifecycleMapping
=============================================================================
