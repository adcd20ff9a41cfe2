---- MODULE MCProvisioners ----
(* Two node pools in the spec's order. *)
EXTENDS Provisioners, TLC

MCPools == <<"p1", "p2">>
====
