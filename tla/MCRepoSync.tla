----------------------------- MODULE MCRepoSync -----------------------------
(* Small instances of RepoSync for TLC. *)
EXTENDS RepoSync

CONSTANTS r1, r2, r3, p1, p2

\* The profiles share one addon, and each has one the other lacks.
SomeApps == {"apps/a", "apps/b", "apps/c"}
SomeAppsOf ==
  [p \in Profiles |-> IF p = p1 THEN {"apps/a", "apps/b"} ELSE {"apps/a", "apps/c"}]
=============================================================================
