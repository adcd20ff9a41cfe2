---------------------------- MODULE MCArgoInstall ----------------------------
(* Small instances of ArgoInstall for TLC. *)
EXTENDS ArgoInstall

CONSTANTS v1, v2
=============================================================================
