---------------------------- MODULE MCClusterSteps ----------------------------
(* Small instances of ClusterSteps for TLC. *)
EXTENDS ClusterSteps

CONSTANTS s1, s2
=============================================================================
