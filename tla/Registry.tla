------------------------------ MODULE Registry ------------------------------
(***************************************************************************)
(* One cluster's row of the fleet_registry table, as internal/registry      *)
(* keeps it: each operator below is one SQL statement of postgres.go (or    *)
(* the condition in its WHERE clause), written as the row the statement     *)
(* leaves behind.  A statement is atomic; everything a registry METHOD does *)
(* beyond it (retries, follow-up reads) belongs to the caller's module.     *)
(*                                                                         *)
(* Columns that no condition reads (provider, region, access, size, the     *)
(* timestamps) are left out.  lease_expires_at is abstracted to `live':     *)
(* whether the client that compares it with its own clock would find it in  *)
(* the future.  `epoch' is not a column: it numbers the incarnations of the *)
(* row, so that properties can tell a row from its namesake created after   *)
(* a DELETE.  No statement reads it.                                        *)
(***************************************************************************)
EXTENDS Naturals, Phases

CONSTANTS
  Holders,    \* the lease holder identities (WithHolder: one per run)
  NoHolder    \* lease_holder IS NULL

ASSUME NoHolderAssumption == NoHolder \notin Holders

\* The phase of a row that is not in the table.
Absent == "absent"

Row == [phase   : PhaseOrder \cup {Absent},
        version : Nat,
        holder  : Holders \cup {NoHolder},
        live    : BOOLEAN,
        epoch   : Nat]

\* What a caller keeps of a row it has read.
Record == [phase   : PhaseOrder \cup {Absent},
           version : Nat,
           epoch   : Nat]

Exists(w) == w.phase # Absent

\* SELECT: the caller's copy of the row.
Read(w) == [phase |-> w.phase, version |-> w.version, epoch |-> w.epoch]

\* NewRecord: a pending record at version 1, without a lease.
NewRow(w) == [phase |-> "pending", version |-> 1, holder |-> NoHolder,
              live |-> FALSE, epoch |-> w.epoch + 1]

\* INSERT ... ON CONFLICT (cluster_id) DO NOTHING
AfterInsert(w) == IF Exists(w) THEN w ELSE NewRow(w)

\* DELETE ... WHERE cluster_id = $1: unconditional, and the lease goes with it.
AfterDelete(w) ==
  [w EXCEPT !.phase = Absent, !.version = 0, !.holder = NoHolder, !.live = FALSE]

\* Mutant of Matches: the update names the row by its key alone.
MatchesByID(w, r) == Exists(w)

\* WHERE cluster_id = $3 AND phase = $4 AND version = $5
Matches(w, r) == Exists(w) /\ w.phase = r.phase /\ w.version = r.version

AfterUpdate(w, r, to) ==
  IF Matches(w, r) THEN [w EXCEPT !.phase = to, !.version = @ + 1] ELSE w

\* Mutant of Acquirable: the comparison with the expiry is reversed.
AcquirableUnexpired(w, h) ==
  Exists(w) /\ (w.holder = NoHolder \/ w.live \/ w.holder = h)

\* lease_holder IS NULL OR lease_expires_at <= now OR lease_holder = holder
Acquirable(w, h) ==
  Exists(w) /\ (w.holder = NoHolder \/ ~w.live \/ w.holder = h)

AfterAcquire(w, h) ==
  IF Acquirable(w, h) THEN [w EXCEPT !.holder = h, !.live = TRUE] ELSE w

\* Mutant of Renewable: any lease may be renewed, and released.
RenewableByAnyone(w, h) == Exists(w)

\* Conditional on the holder alone, not on the lease being unexpired.
Renewable(w, h) == Exists(w) /\ w.holder = h

AfterRenew(w, h) == IF Renewable(w, h) THEN [w EXCEPT !.live = TRUE] ELSE w

AfterRelease(w, h) ==
  IF Renewable(w, h) THEN [w EXCEPT !.holder = NoHolder, !.live = FALSE] ELSE w

\* The lease's expiry instant passes.
AfterLapse(w) == [w EXCEPT !.live = FALSE]

\* matchesOurInsert: the stored row is taken for the caller's own insert when
\* it is at the phase and version of a new record.
LooksLikeOurInsert(w) == w.phase = "pending" /\ w.version = 1

\* The row UpdatePhase takes for its own earlier write.
LooksLikeOurUpdate(w, r, to) == w.phase = to /\ w.version = r.version + 1
=============================================================================
