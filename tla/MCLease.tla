------------------------------ MODULE MCLease -------------------------------
(* Small instances of Lease for TLC. *)
EXTENDS Lease

CONSTANTS r1, r2

NoSkew == [r \in Runs |-> 0]
Ahead == [r \in Runs |-> IF r = r2 THEN 1 ELSE 0]
=============================================================================
