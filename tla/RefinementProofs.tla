-------------------------- MODULE RefinementProofs --------------------------
(***************************************************************************)
(* Orchestrator implements ClusterLifecycle, for every set of runs and      *)
(* every choice of faults: each step of a run is one step of the one-owner  *)
(* lifecycle, or none.                                                      *)
(***************************************************************************)
EXTENDS OrchestratorCloudProofs, LifecycleMapping
-----------------------------------------------------------------------------
(* A row that is not in the table has no unexpired lease. *)

NoGhostLease == ~Exists(row) => ~row.live

LEMMA StatementsLeaveNoGhost ==
  ASSUME NEW w \in Row, NEW h \in Holders, NEW e \in Record, NEW to \in PhaseOrder,
         ~Exists(w) => ~w.live
  PROVE  \A v \in {w, AfterInsert(w), AfterDelete(w), AfterUpdate(w, e, to),
                   AfterAcquire(w, h), AfterRenew(w, h), AfterRelease(w, h),
                   AfterLapse(w)} : ~Exists(v) => ~v.live
<1>1. to # Absent
  BY DEF PhaseOrder, LivePhases, Absent
<1>2. ~AfterDelete(w).live /\ ~AfterLapse(w).live
  BY DEF AfterDelete, AfterLapse, Row
<1>3. ~Exists(AfterUpdate(w, e, to)) => ~AfterUpdate(w, e, to).live
  BY <1>1 DEF AfterUpdate, Matches, Exists, Row
<1>4. ~Exists(AfterInsert(w)) => ~AfterInsert(w).live
  BY DEF AfterInsert, NewRow
<1>5. ~Exists(AfterAcquire(w, h)) => ~AfterAcquire(w, h).live
  BY DEF AfterAcquire, Acquirable, Exists, Row
<1>6. /\ ~Exists(AfterRenew(w, h)) => ~AfterRenew(w, h).live
      /\ ~Exists(AfterRelease(w, h)) => ~AfterRelease(w, h).live
  BY DEF AfterRenew, AfterRelease, Renewable, Exists, Row
<1> QED
  BY <1>2, <1>3, <1>4, <1>5, <1>6

LEMMA NoGhostLeaseInvariant == Spec => []NoGhostLease
<1>1. Init => NoGhostLease
  <2>1. CASE row = EmptyRow
    BY <2>1 DEF EmptyRow, NoGhostLease
  <2>2. CASE \E old \in Leftovers :
               row = OldRow(old)
    BY <2>2 DEF EmptyRow, OldRow, NoGhostLease
  <2> QED
    BY <2>1, <2>2 DEF Init
<1>2. TypeOK /\ NoGhostLease /\ [Next]_vars => NoGhostLease'
  <2> SUFFICES ASSUME TypeOK, NoGhostLease, [Next]_vars PROVE NoGhostLease'
    OBVIOUS
  <2>1. ASSUME NEW r \in Runs, Progress(r) \/ StageLands(r) \/ Faults(r)
        PROVE  NoGhostLease'
    <3>1. row \in Row /\ r \in Holders /\ rec[r] \in Record /\ Target(r) \in PhaseOrder
      BY RunsAssumption, TargetTyped DEF TypeOK
    <3>2. row' \in {row, InFlight(r), AfterRenew(row, r)}
      BY <2>1, StepShape DEF Outcomes
    <3>3. row' \in {row, AfterInsert(row), AfterDelete(row),
                    AfterUpdate(row, rec[r], Target(r)), AfterAcquire(row, r),
                    AfterRenew(row, r), AfterRelease(row, r), AfterLapse(row)}
      BY <3>2 DEF InFlight
    <3> QED
      BY <3>1, <3>3, StatementsLeaveNoGhost DEF NoGhostLease
  <2>2. CASE Lapse \/ UNCHANGED vars
    BY <2>2 DEF Lapse, AfterLapse, vars, NoGhostLease, Exists, TypeOK, Row
  <2> QED
    BY <2>1, <2>2 DEF Next, AllOver
<1> QED
  BY <1>1, <1>2, TypeCorrect, PTL DEF Spec
-----------------------------------------------------------------------------
(* Each statement of the registry, seen from the lifecycle. *)

\* All that the mapping rests on.
Seen == Known /\ CloudInv /\ NoGhostLease

LEMMA InsertMapped ==
  ASSUME Seen, row' = AfterInsert(row), cloud' = cloud
  PROVE  [Abstract!Next]_(Abstract!vars)
<1>1. CASE Exists(row)
  BY <1>1 DEF AfterInsert, Abstract!vars
<1>2. CASE ~Exists(row)
  <2>1. row' = NewRow(row) /\ ~row.live /\ row.phase = Absent
    BY <1>2 DEF AfterInsert, Seen, NoGhostLease, Exists
  <2>2. row'.phase = "pending" /\ ~row'.live
    BY <2>1 DEF NewRow
  <2>3. Abstract!Register
    BY <2>1, <2>2 DEF Abstract!Register, Owner
  <2> QED
    BY <2>3 DEF Abstract!Next
<1> QED
  BY <1>1, <1>2

LEMMA TakeMapped ==
  ASSUME Seen, NEW r \in Runs, cloud' = cloud,
         row' \in {AfterAcquire(row, r), AfterRenew(row, r)}
  PROVE  [Abstract!Next]_(Abstract!vars)
<1>0. row \in Row
  BY DEF Seen, Known, TypeOK
<1>1. CASE row' = row
  BY <1>1 DEF Abstract!vars
<1>2. CASE Exists(row) /\ (row.holder = NoHolder \/ ~row.live \/ row.holder = r)
           /\ row' = [row EXCEPT !.holder = r, !.live = TRUE]
  <2>1. row'.phase = row.phase /\ row'.live /\ row'.holder = r
    BY <1>0, <1>2 DEF Row
  <2>2. Owner(row') = r
    BY <2>1 DEF Owner
  <2>3. CASE Owner(row) = r
    BY <2>1, <2>2, <2>3 DEF Abstract!vars
  <2>4. CASE Owner(row) = NoHolder
    <3>1. Abstract!Take(r)
      BY <1>2, <2>1, <2>2, <2>4 DEF Abstract!Take, Exists, Owner
    <3> QED
      BY <3>1 DEF Abstract!Next, Runs
  <2> QED
    BY <1>2, <2>3, <2>4 DEF Owner
<1>3. AfterRenew(row, r) # row =>
        /\ Exists(row) /\ row.holder = r
        /\ AfterRenew(row, r) = [row EXCEPT !.holder = r, !.live = TRUE]
  BY <1>0 DEF AfterRenew, Renewable, Row
<1> QED
  BY <1>1, <1>2, <1>3 DEF AfterAcquire, Acquirable

LEMMA ReleaseMapped ==
  ASSUME Seen, NEW r \in Runs, cloud' = cloud, row' = AfterRelease(row, r)
  PROVE  [Abstract!Next]_(Abstract!vars)
<1>0. row \in Row
  BY DEF Seen, Known, TypeOK
<1>1. CASE ~Renewable(row, r)
  BY <1>1 DEF AfterRelease, Abstract!vars
<1>2. CASE Renewable(row, r)
  <2>1. row'.phase = row.phase /\ Owner(row') = NoHolder /\ row.holder = r
    BY <1>0, <1>2 DEF AfterRelease, Renewable, Owner, Row
  <2>2. CASE ~row.live
    BY <2>1, <2>2 DEF Abstract!vars, Owner
  <2>3. CASE row.live
    <3>1. Abstract!Leave(r)
      BY <2>1, <2>3 DEF Abstract!Leave, Owner
    <3> QED
      BY <3>1 DEF Abstract!Next, Runs
  <2> QED
    BY <2>2, <2>3
<1> QED
  BY <1>1, <1>2

\* The run that moves the phase, or deletes the row, owns the cluster.
LEMMA MoverOwns ==
  ASSUME Seen, NEW r \in Runs, Relies(r)
  PROVE  Owner(row) = r
BY DEF Seen, Known, LeaseInv, Secured, Owner

LEMMA UpdateMapped ==
  ASSUME Seen, NEW r \in Runs, pc[r] = "record", Listening(r), cloud' = cloud,
         row' = AfterUpdate(row, rec[r], Target(r))
  PROVE  [Abstract!Next]_(Abstract!vars)
<1>0. row \in Row
  BY DEF Seen, Known, TypeOK
<1>1. CASE ~Matches(row, rec[r])
  BY <1>1 DEF AfterUpdate, Abstract!vars
<1>2. CASE Matches(row, rec[r])
  <2>1. /\ row'.phase = Target(r) /\ row'.holder = row.holder /\ row'.live = row.live
        /\ rec[r].phase = row.phase
    BY <1>0, <1>2 DEF AfterUpdate, Matches, Row
  <2>2. Owner(row) = r /\ Owner(row') = Owner(row)
    BY <2>1, MoversRely, MoverOwns DEF Owner
  <2>3. row.phase \in LivePhases /\ (r \in Applies => row.phase # "ready")
    BY <2>1 DEF Seen, Known, AdvancesLive, Advancing
  <2>4. CASE r \in Deletes
    <3>1. Abstract!Condemn(r)
      BY <2>1, <2>2, <2>3, <2>4
      DEF Abstract!Condemn, Abstract!LivePhases, LivePhases, Target
    <3> QED
      BY <2>4, <3>1 DEF Abstract!Next
  <2>5. CASE r \in Applies
    <3>1. Target(r) = NextPhase(row.phase)
      BY <2>1, <2>5, RunsAssumption DEF Target
    <3>2. Backed(NextPhase(row.phase)) \subseteq cloud
      BY <3>1 DEF Seen, CloudInv, Done
    <3>3. Abstract!Work(Target(r)) \subseteq cloud
      BY <3>1, <2>3, <3>2, BackedSteps DEF Abstract!Work, NextPhase, LivePhases, Resources
    <3>4. Abstract!Advance(r)
      BY <2>1, <2>2, <2>3, <2>5, <3>1, <3>3
      DEF Abstract!Advance, Abstract!LivePhases, LivePhases, Abstract!NextPhase, NextPhase
    <3> QED
      BY <2>5, <3>4 DEF Abstract!Next
  <2> QED
    BY <2>4, <2>5 DEF Runs
<1> QED
  BY <1>1, <1>2

LEMMA DeleteMapped ==
  ASSUME Seen, NEW r \in Runs, pc[r] \in {"forget", "revDelete"}, Listening(r),
         cloud' = cloud, row' = AfterDelete(row)
  PROVE  [Abstract!Next]_(Abstract!vars)
<1>0. row \in Row /\ Done(r) /\ StagePhase(r) /\ r \notin stopped
  BY DEF Seen, Known, TypeOK, CloudInv, StagePhases, Listening, Releasing
<1>1. row'.phase = Absent /\ Owner(row') = NoHolder
  BY <1>0 DEF AfterDelete, Owner, Row
<1>2. Owner(row) = r
  BY MoversRely, MoverOwns
<1>3. cloud = {}
  BY <1>0 DEF Done, Seen, CloudInv, Honest, NothingUnrecorded
<1>4. \/ row.phase = "decommissioning" /\ r \in Deletes
      \/ row.phase = "decommissioned"
  BY <1>0 DEF Done, StagePhase
<1>5. Abstract!Forget(r)
  BY <1>1, <1>2, <1>3, <1>4 DEF Abstract!Forget
<1> QED
  BY <1>5 DEF Abstract!Next, Runs
-----------------------------------------------------------------------------
(* Each step of the system. *)

LEMMA StatementMapped ==
  ASSUME Seen, NEW r \in Runs, Progress(r) \/ Faults(r)
  PROVE  [Abstract!Next]_(Abstract!vars)
<1>1. cloud' = cloud
  BY CloudShape
<1>2. row' \in {row, AfterRenew(row, r)} \/ (Listening(r) /\ row' = InFlight(r))
  BY StepShape DEF Outcomes, Seen, Known
<1>3. CASE row' = row
  BY <1>1, <1>3 DEF Abstract!vars
<1>4. CASE row' = AfterRenew(row, r)
  BY <1>1, <1>4, TakeMapped
<1>5. CASE Listening(r) /\ row' = InFlight(r)
  <2>1. CASE pc[r] \in {"create", "revCreate"}
    BY <1>1, <1>5, <2>1, InsertMapped DEF InFlight, Releasing
  <2>2. CASE pc[r] \in {"acquire", "revAcquire"}
    BY <1>1, <1>5, <2>2, TakeMapped DEF InFlight, Releasing
  <2>3. CASE pc[r] \in {"revDelete", "forget"}
    BY <1>1, <1>5, <2>3, DeleteMapped DEF InFlight, Releasing
  <2>4. CASE pc[r] = "renew"
    BY <1>1, <1>5, <2>4, TakeMapped DEF InFlight, Releasing
  <2>5. CASE pc[r] = "record"
    BY <1>1, <1>5, <2>5, UpdateMapped DEF InFlight, Releasing
  <2>6. CASE pc[r] \in Releasing
    BY <1>1, <1>5, <2>6, ReleaseMapped DEF InFlight, Releasing
  <2>7. CASE pc[r] \notin {"create", "revCreate", "acquire", "revAcquire", "revDelete",
                           "forget", "renew", "record"} \cup Releasing
    BY <1>3, <1>5, <2>7 DEF InFlight
  <2> QED
    BY <2>1, <2>2, <2>3, <2>4, <2>5, <2>6, <2>7
<1> QED
  BY <1>2, <1>3, <1>4, <1>5

LEMMA StageMapped ==
  ASSUME Seen, NEW r \in Runs, StageLands(r)
  PROVE  [Abstract!Next]_(Abstract!vars)
<1>1. /\ pc[r] \in Stages /\ row' = row /\ cloud' # cloud
      /\ cloud' = (cloud \cup Adds(pc[r])) \ Drops(pc[r])
  BY DEF StageLands
<1>2. Owner(row) = r /\ StagePhase(r)
  <2>1. r \in stopped => pc[r] \notin Deletions
    BY <1>1 DEF Deletions, Stages, Building, Tearing
  <2>2. Relies(r)
    BY <1>1, <2>1 DEF Relies, Leased
  <2> QED
    BY <2>2, MoverOwns DEF Seen, Known, StagePhases
<1>3. CASE pc[r] \in Building
  <2>1. r \in Applies /\ row.phase \in LivePhases
    BY <1>1, <1>2, <1>3, StageAtPhase DEF Seen, StagePhase
  <2>2. cloud' = cloud \cup Adds(pc[r])
    BY <1>1, <1>3 DEF Drops, Building
  <2>3. PICK x \in Resources : Adds(pc[r]) = {x}
    BY <1>1, <1>3, <2>2 DEF Adds, Building, Resources
  <2>4. x \in Resources \ cloud
    BY <1>1, <2>2, <2>3
  <2>5. \E y \in Abstract!Work("ready") \ cloud : cloud' = cloud \cup {y}
    BY <2>2, <2>3, <2>4 DEF Abstract!Work, Resources
  <2>6. Abstract!Build(r)
    BY <1>1, <1>2, <2>1, <2>5 DEF Abstract!Build, Abstract!LivePhases, LivePhases
  <2> QED
    BY <2>1, <2>6 DEF Abstract!Next
<1>4. CASE pc[r] \in Tearing
  <2>1. r \in Deletes /\ row.phase = "decommissioning"
    BY <1>1, <1>2, <1>4, StageAtPhase DEF Seen, StagePhase
  <2>2. cloud' \subseteq cloud
    BY <1>1, <1>4 DEF Adds, Tearing
  <2>3. Abstract!Remove(r)
    BY <1>1, <1>2, <2>1, <2>2 DEF Abstract!Remove
  <2> QED
    BY <2>1, <2>3 DEF Abstract!Next
<1> QED
  BY <1>1, <1>3, <1>4 DEF Stages

LEMMA LapseMapped ==
  ASSUME Seen, Lapse
  PROVE  [Abstract!Next]_(Abstract!vars)
<1>1. /\ row \in Row /\ row.live /\ cloud' = cloud
      /\ row'.phase = row.phase /\ ~row'.live
  BY DEF Lapse, AfterLapse, Seen, Known, TypeOK, Row
<1>2. Owner(row) = row.holder /\ Owner(row') = NoHolder
  BY <1>1 DEF Owner
<1>3. CASE row.holder = NoHolder
  BY <1>1, <1>2, <1>3 DEF Abstract!vars
<1>4. CASE row.holder \in Runs
  <2>1. Abstract!Leave(row.holder)
    BY <1>1, <1>2 DEF Abstract!Leave
  <2> QED
    BY <1>4, <2>1 DEF Abstract!Next, Runs
<1> QED
  BY <1>1, <1>3, <1>4, RunsAssumption DEF Row

LEMMA StepMapped == Seen /\ [Next]_vars => [Abstract!Next]_(Abstract!vars)
<1> SUFFICES ASSUME Seen, [Next]_vars PROVE [Abstract!Next]_(Abstract!vars)
  OBVIOUS
<1>1. ASSUME NEW r \in Runs, Progress(r) \/ StageLands(r) \/ Faults(r)
      PROVE  [Abstract!Next]_(Abstract!vars)
  BY <1>1, StatementMapped, StageMapped
<1>2. CASE Lapse
  BY <1>2, LapseMapped
<1>3. CASE UNCHANGED vars
  BY <1>3 DEF vars, Abstract!vars
<1> QED
  BY <1>1, <1>2, <1>3 DEF Next, AllOver

LEMMA StartMapped == Init => Abstract!Init
<1> SUFFICES ASSUME Init PROVE Abstract!Init
  OBVIOUS
<1>1. CASE row = EmptyRow /\ cloud = {}
  BY <1>1 DEF EmptyRow, Abstract!Init, Owner
<1>2. CASE \E old \in Leftovers :
             row = OldRow(old) /\ cloud = old.cloud
  <2>1. PICK old \in Leftovers :
          row = OldRow(old) /\ cloud = old.cloud
    BY <1>2
  <2>2. row.phase = old.phase /\ ~row.live
    BY <2>1 DEF EmptyRow, OldRow
  <2>3. [phase |-> row.phase, cloud |-> cloud] = old
    BY <2>1, <2>2, LeftoversAssumption
  <2> QED
    BY <2>2, <2>3 DEF Abstract!Init, Owner
<1> QED
  BY <1>1, <1>2 DEF Init

\* Whatever runs race, fail, are interrupted or killed, and whichever calls are
\* lost: seen from outside, one owner at a time builds the cluster and records
\* it, or tears it down and forgets it (Apply, Delete).
THEOREM Refinement == CloudAssumptions /\ Spec => ImplementsLifecycle
<1>1. Init => Abstract!Init
  BY StartMapped
<1>2. Seen /\ [Next]_vars => [Abstract!Next]_(Abstract!vars)
  BY StepMapped
<1>3. CloudAssumptions => LeaseAssumptions
  BY DEF CloudAssumptions
<1>4. TypeOK /\ AdvancesLive /\ LeaseInv /\ WorkerIsCurrent /\ StagePhases /\ CloudInv
        /\ NoGhostLease => Seen
  BY DEF Seen, Known
<1> QED
  BY <1>1, <1>2, <1>3, <1>4, TypeCorrect, AdvancesLiveInvariant, LeaseInvariant,
     Currency, StagePhasesInvariant, CloudInvariant, NoGhostLeaseInvariant, PTL
  DEF Spec, ImplementsLifecycle, Abstract!Spec
=============================================================================
