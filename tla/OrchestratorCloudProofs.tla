----------------------- MODULE OrchestratorCloudProofs -----------------------
(***************************************************************************)
(* Theorems about Orchestrator that relate the record to the cloud: the     *)
(* phase says no more than exists, and what exists has a record.            *)
(***************************************************************************)
EXTENDS OrchestratorProofs
-----------------------------------------------------------------------------
(* The phase a stage is entered at, and who enters it: no lease is needed.  *)

StagePhase(r) ==
  /\ pc[r] \in Building \cup {"renew"} => r \in Applies
  /\ pc[r] \in Tearing \cup {"forget"} => r \in Deletes
  /\ pc[r] = "renew" => rec[r].phase \in LivePhases \ {"ready"}
  /\ pc[r] \in {"ensureNetwork", "createCluster"} => rec[r].phase = "pending"
  /\ pc[r] = "seedRepo" => rec[r].phase = "cluster-created"
  /\ pc[r] \in {"installArgoCD", "commitApps"} => rec[r].phase = "repo-pushed"
  /\ pc[r] = "noop" => rec[r].phase \in {"identity-bound", "argocd-installed"}
  /\ pc[r] \in {"reconcileInfra", "reconcileRepo"} => rec[r].phase = "ready"
  /\ pc[r] \in Tearing => rec[r].phase = "decommissioning"

StagePhases == \A r \in Runs : StagePhase(r)

\* The places StagePhase says something of.
Phased == Stages \cup {"renew", "forget"}

LEMMA Unphased ==
  ASSUME NEW r, pc[r] \notin Phased
  PROVE  StagePhase(r)
BY DEF StagePhase, Phased, Stages, Building, Tearing

\* A run walks on with the record w.
LEMMA WalksOnPhased ==
  ASSUME TypeOK, NEW r \in Runs, NEW w, w.phase \in PhaseOrder, Recorded(r, w)
  PROVE  StagePhase(r)'
<1>1. rec'[r].phase = w.phase
  BY DEF Recorded, Read, TypeOK
<1>2. pc'[r] = IF r \in Applies THEN ApplyFrom(w.phase) ELSE DeleteFrom(w.phase)
  BY DEF Recorded, Goto, TypeOK
<1> QED
  BY <1>1, <1>2 DEF StagePhase, ApplyFrom, DeleteFrom, Building, Tearing, PhaseOrder, Runs

LEMMA StagePhaseStep ==
  ASSUME TypeOK, StagePhases, NEW r \in Runs, Progress(r) \/ StageLands(r) \/ Faults(r)
  PROVE  StagePhase(r)'
<1>1. StagePhase(r)
  BY DEF StagePhases
<1>2. CASE Claim(r)
  <2>1. pc'[r] \notin Phased
    BY <1>2 DEF Claim, GetRecord, CreateRecord, CheckCreated, GetAgain,
       ReviveAcquire, ReviveGet, ReviveDelete, ReviveCreate, ReviveCheckCreated,
       AcquireLease, Goto, TypeOK, Phased, Stages, Building, Tearing
  <2> QED
    BY <2>1 DEF StagePhase, Phased, Stages, Building, Tearing
<1>3. CASE Reread(r)
  <2>1. CASE ~Exists(row)
    BY <1>3, <2>1 DEF Reread, Goto, TypeOK, StagePhase, Building, Tearing
  <2>2. CASE Exists(row)
    <3>1. row.phase \in PhaseOrder
      BY <2>2 DEF Exists, TypeOK, Row
    <3>2. Recorded(r, row)
      BY <1>3, <2>2 DEF Reread, Recorded, Goto
    <3> QED
      BY <3>1, <3>2, WalksOnPhased
  <2> QED
    BY <2>1, <2>2
<1>4. CASE RenewBeforeStep(r)
  <2>1. pc[r] = "renew" /\ rec'[r] = rec[r]
    BY <1>4 DEF RenewBeforeStep, At
  <2>2. rec[r].phase \in LivePhases \ {"ready"} /\ r \in Applies
    BY <1>1, <2>1 DEF StagePhase
  <2>3. pc'[r] \in {FirstStage(rec[r].phase), "releaseErr"}
    BY <1>4 DEF RenewBeforeStep, Goto, TypeOK
  <2> QED
    BY <2>1, <2>2, <2>3 DEF StagePhase, FirstStage, LivePhases, Building, Tearing
<1>5. CASE RecordPhase(r)
  <2>1. CASE Matches(row, rec[r])
    <3>1. row'.phase \in PhaseOrder
      BY <1>5, <2>1, TargetTyped DEF RecordPhase, AfterUpdate, TypeOK, Row
    <3> QED
      BY <1>5, <2>1, <3>1, WalksOnPhased DEF RecordPhase
  <2>2. CASE ~Matches(row, rec[r])
    BY <1>5, <2>2 DEF RecordPhase, Goto, TypeOK, StagePhase, Building, Tearing
  <2> QED
    BY <2>1, <2>2
<1>6. CASE CheckRecorded(r)
  <2>1. CASE LooksLikeOurUpdate(row, rec[r], Target(r))
    <3>1. row.phase \in PhaseOrder
      BY <2>1, TargetTyped DEF LooksLikeOurUpdate
    <3> QED
      BY <1>6, <2>1, <3>1, WalksOnPhased DEF CheckRecorded
  <2>2. CASE ~LooksLikeOurUpdate(row, rec[r], Target(r))
    BY <1>6, <2>2 DEF CheckRecorded, Goto, TypeOK, StagePhase, Building, Tearing
  <2> QED
    BY <2>1, <2>2
<1>7. CASE ForgetRecord(r) \/ ReleaseLease(r) \/ Abort(r) \/ Crash(r) \/ StageFails(r)
  <2>1. pc'[r] \notin Phased
    BY <1>7 DEF ForgetRecord, ReleaseLease, Abort, Crash, StageFails, OnError,
       Goto, TypeOK, Phased, Stages, Building, Tearing
  <2> QED
    BY <2>1 DEF StagePhase, Phased, Stages, Building, Tearing
<1>8. CASE StageReturns(r)
  BY <1>8, <1>1 DEF StageReturns, AfterStage, Goto, TypeOK, StagePhase, Stages,
     Building, Tearing
<1>9. CASE StageLands(r) \/ Heartbeat(r) \/ Interrupt(r)
  BY <1>9, <1>1 DEF StageLands, Heartbeat, Interrupt, StagePhase
<1>10. CASE LoseCall(r)
  <2>1. rec' = rec /\ pc'[r] \in {pc[r], OnError(pc[r])}
    BY <1>10 DEF LoseCall, Goto, TypeOK
  <2>2. OnError(pc[r]) \notin Phased
    BY DEF OnError, Phased, Stages, Building, Tearing
  <2> QED
    BY <1>1, <2>1, <2>2 DEF StagePhase, Phased, Stages, Building, Tearing
<1> QED
  BY <1>2, <1>3, <1>4, <1>5, <1>6, <1>7, <1>8, <1>9, <1>10
  DEF Progress, Walk, Answered, Faults

LEMMA StagePhasesInvariant == Spec => []StagePhases
<1>1. Init => StagePhases
  BY DEF Init, StagePhases, StagePhase, Building, Tearing
<1>2. TypeOK /\ StagePhases /\ [Next]_vars => StagePhases'
  <2> SUFFICES ASSUME TypeOK, StagePhases, [Next]_vars PROVE StagePhases'
    OBVIOUS
  <2>1. ASSUME NEW r \in Runs, Progress(r) \/ StageLands(r) \/ Faults(r)
        PROVE  StagePhases'
    <3>1. \A s \in Runs \ {r} : StagePhase(s)'
      BY <2>1, StepShape DEF StagePhases, StagePhase
    <3> QED
      BY <2>1, <3>1, StagePhaseStep DEF StagePhases
  <2>2. CASE Lapse \/ UNCHANGED vars
    BY <2>2 DEF Lapse, vars, StagePhases, StagePhase
  <2> QED
    BY <2>1, <2>2 DEF Next, AllOver
<1> QED
  BY <1>1, <1>2, TypeCorrect, PTL DEF Spec
-----------------------------------------------------------------------------
(* What the record says, and what a run at work has done. *)

\* Nothing but an older binary leaves a row at identity-bound, and the step
\* that resumes there has nothing to do: the repository must be there already.
Backed(p) == IF p = "identity-bound" THEN Built("repo-pushed") ELSE Built(p)

\* The rows of older binaries this is proved for (see run legacyIdentity).
LeftoversHonest ==
  \A old \in Leftovers :
    /\ Backed(old.phase) \subseteq old.cloud
    /\ old.phase = "decommissioned" => old.cloud = {}

\* One assumption more than exclusion needs.
CloudAssumptions == LeaseAssumptions /\ LeftoversHonest

Honest == Backed(row.phase) \subseteq cloud /\ NothingUnrecorded

\* What a run that relies on its lease has brought about, or read, so far.
Done(r) ==
  /\ pc[r] = "createCluster" => "network" \in cloud
  /\ pc[r] = "commitApps" => "argocd" \in cloud
  /\ pc[r] = "record" => Backed(Target(r)) \subseteq cloud
  /\ pc[r] = "deleteNetwork" => {"cluster", "argocd"} \cap cloud = {}
  /\ pc[r] = "deleteRepo" => cloud \subseteq {"repo"}
  /\ pc[r] = "forget" /\ r \notin stopped =>
       cloud = {} /\ row.phase \in {"decommissioning", "decommissioned"}
  /\ pc[r] = "revDelete" /\ r \notin stopped => row.phase = "decommissioned"

CloudInv == Honest /\ \A r \in Runs : Done(r)

\* All that the steps rest on.
Known == TypeOK /\ AdvancesLive /\ LeaseInv /\ WorkerIsCurrent /\ StagePhases

\* What the stages need of each other.
LEMMA BackedSteps ==
  /\ Backed("pending") = {} /\ Backed("decommissioning") = {} /\ Backed(Absent) = {}
  /\ Backed("decommissioned") = {}
  /\ Backed("cluster-created") = {"network", "cluster"}
  /\ Backed("identity-bound") = {"network", "cluster", "repo"}
  /\ Backed("repo-pushed") = {"network", "cluster", "repo"}
  /\ Backed("argocd-installed") = Resources /\ Backed("ready") = Resources
BY DEF Backed, Built, Absent

\* Only a stage that lands changes the cloud.
LEMMA CloudShape ==
  ASSUME NEW r \in Runs, Progress(r) \/ Faults(r)
  PROVE  cloud' = cloud
BY DEF Progress, Claim, GetRecord, CreateRecord, CheckCreated, GetAgain,
   ReviveAcquire, ReviveGet, ReviveDelete, ReviveCreate, ReviveCheckCreated,
   AcquireLease, Walk, Reread, RenewBeforeStep, RecordPhase, CheckRecorded,
   Recorded, ForgetRecord, ReleaseLease, Answered, StageReturns, StageFails,
   Abort, Faults, LoseCall, Heartbeat, Interrupt, Crash

\* How the step of a run may change the phase of the row.
LEMMA RowShape ==
  ASSUME TypeOK, NEW r \in Runs, Progress(r) \/ StageLands(r) \/ Faults(r)
  PROVE  \/ row'.phase = row.phase
         \/ ~Exists(row) /\ row'.phase = "pending"
         \/ pc[r] = "record" /\ row'.phase = Target(r)
         \/ pc[r] \in {"forget", "revDelete"} /\ r \notin stopped /\ row'.phase = Absent
<1>1. row \in Row
  BY DEF TypeOK
<1>2. row' \in {row, AfterRenew(row, r)} \/ (Listening(r) /\ row' = InFlight(r))
  BY StepShape DEF Outcomes
<1>3. /\ AfterInsert(row).phase = row.phase \/ (~Exists(row) /\ AfterInsert(row).phase = "pending")
      /\ AfterAcquire(row, r).phase = row.phase
      /\ AfterRenew(row, r).phase = row.phase
      /\ AfterRelease(row, r).phase = row.phase
      /\ AfterDelete(row).phase = Absent
      /\ AfterUpdate(row, rec[r], Target(r)).phase \in {row.phase, Target(r)}
  BY <1>1 DEF AfterInsert, NewRow, AfterAcquire, AfterRenew, AfterRelease, AfterDelete,
     AfterUpdate, Row
<1>4. Listening(r) /\ pc[r] \in {"forget", "revDelete"} => r \notin stopped
  BY DEF Listening, Releasing
<1> QED
  BY <1>2, <1>3, <1>4 DEF InFlight

\* A run at work finds the record at the phase its stage belongs to.
LEMMA StageAtPhase ==
  ASSUME Known, NEW r \in Runs, pc[r] \in Stages
  PROVE  /\ rec[r].phase = row.phase
         /\ pc[r] \in Building => row.phase \in LivePhases
         /\ pc[r] \in Tearing => row.phase = "decommissioning"
<1>1. rec[r].phase = row.phase
  BY DEF Known, WorkerIsCurrent, Read
<1>2. StagePhase(r)
  BY DEF Known, StagePhases
<1> QED
  BY <1>1, <1>2 DEF StagePhase, Stages, Building, LivePhases

\* What a run is about to record is a phase of a cluster that is not gone.
LEMMA TargetKept ==
  ASSUME Known, NEW r \in Runs, pc[r] = "record"
  PROVE  Target(r) \notin {Absent, "decommissioned"}
<1>1. /\ rec[r].phase \in LivePhases
      /\ r \in Applies => rec[r].phase # "ready"
  BY DEF Known, AdvancesLive, Advancing
<1> QED
  BY <1>1 DEF Target, NextPhase, LivePhases, Absent, Runs

LEMMA HonestStep ==
  ASSUME Known, CloudInv, NEW r \in Runs, Progress(r) \/ StageLands(r) \/ Faults(r)
  PROVE  Honest'
<1>1. CASE StageLands(r)
  <2>1. /\ pc[r] \in Stages /\ row' = row
        /\ cloud' = (cloud \cup Adds(pc[r])) \ Drops(pc[r])
    BY <1>1 DEF StageLands
  <2>2. CASE pc[r] \in Building
    <3>1. Drops(pc[r]) = {}
      BY <2>2 DEF Drops, Building
    <3>2. Exists(row) /\ row.phase # "decommissioned"
      BY <2>1, <2>2, StageAtPhase DEF LivePhases, Exists, Absent
    <3> QED
      BY <2>1, <3>1, <3>2 DEF CloudInv, Honest, NothingUnrecorded, Exists
  <2>3. CASE pc[r] \in Tearing
    <3>1. row.phase = "decommissioning"
      BY <2>1, <2>3, StageAtPhase
    <3> QED
      BY <2>1, <3>1, BackedSteps DEF Honest, NothingUnrecorded, Exists, Absent
  <2> QED
    BY <2>1, <2>2, <2>3 DEF Stages
<1>2. CASE Progress(r) \/ Faults(r)
  <2>1. cloud' = cloud
    BY <1>2, CloudShape
  <2>2. CASE row'.phase = row.phase
    BY <2>1, <2>2 DEF CloudInv, Honest, NothingUnrecorded, Exists
  <2>3. CASE row'.phase = "pending"
    BY <2>3, BackedSteps DEF Honest, NothingUnrecorded, Exists, Absent
  <2>4. CASE pc[r] = "record" /\ row'.phase = Target(r)
    BY <2>1, <2>4, TargetKept DEF CloudInv, Done, Honest, NothingUnrecorded, Exists
  <2>5. CASE pc[r] \in {"forget", "revDelete"} /\ r \notin stopped /\ row'.phase = Absent
    <3>1. cloud = {}
      BY <2>5 DEF CloudInv, Done, Honest, NothingUnrecorded
    <3> QED
      BY <2>1, <2>5, <3>1, BackedSteps DEF Honest, NothingUnrecorded
  <2> QED
    BY <1>2, <2>2, <2>3, <2>4, <2>5, RowShape DEF Known
<1> QED
  BY <1>1, <1>2

\* Another run's step leaves what a run has done.
LEMMA OthersKeepDone ==
  ASSUME Known, CloudInv, NEW r \in Runs, Progress(r) \/ StageLands(r) \/ Faults(r),
         NEW s \in Runs \ {r}
  PROVE  Done(s)'
<1>1. pc'[s] = pc[s] /\ rec'[s] = rec[s] /\ stopped \subseteq stopped'
  BY StepShape DEF Known
<1>2. Done(s)
  BY DEF CloudInv
<1>3. CASE pc[s] \in Stages \cup {"record"}
           \/ (pc[s] \in {"forget", "revDelete"} /\ s \notin stopped)
  <2>1. Relies(s)
    BY <1>3 DEF Relies, Leased, Recording, Deletions, Stages, Building, Tearing
  <2>2. row' = row
    BY <2>1, OthersLeaveRow DEF Known
  <2>3. ~StageLands(r)
    <3>1. StageLands(r) => Relies(r)
      BY DEF StageLands, Relies, Leased, Deletions, Stages, Building, Tearing
    <3> QED
      BY <2>1, <3>1 DEF Known, LeaseInv, Secured
  <2>4. cloud' = cloud
    BY <2>3, CloudShape
  <2> QED
    BY <1>1, <1>2, <2>2, <2>4 DEF Done, Target
<1>4. CASE ~(pc[s] \in Stages \cup {"record"}
             \/ (pc[s] \in {"forget", "revDelete"} /\ s \notin stopped))
  BY <1>1, <1>4 DEF Done, Stages, Building, Tearing
<1> QED
  BY <1>3, <1>4

\* The places Done says something of.
Marked == {"createCluster", "commitApps", "record", "deleteNetwork", "deleteRepo",
           "forget", "revDelete"}

\* Walking on with a record, a run has done nothing it would have to show, but
\* that a tombstone means that all is gone.
LEMMA WalksOnDone ==
  ASSUME TypeOK, NEW r \in Runs, NEW w, w.phase \in PhaseOrder, Recorded(r, w),
         w.phase = row'.phase, w.phase = "decommissioned" => cloud' = {}
  PROVE  Done(r)'
<1>1. pc'[r] = IF r \in Applies THEN ApplyFrom(w.phase) ELSE DeleteFrom(w.phase)
  BY DEF Recorded, Goto, TypeOK
<1>2. CASE r \in Applies
  BY <1>1, <1>2 DEF Done, ApplyFrom
<1>3. CASE r \notin Applies
  <2>1. r \in Deletes /\ Target(r)' = "decommissioning"
    BY <1>3 DEF Runs, Target
  <2>2. pc'[r] \in {"deleteCluster", "record"} \/ (pc'[r] = "forget" /\ w.phase = "decommissioned")
    BY <1>1, <1>3 DEF DeleteFrom
  <2>3. Backed(Target(r)') \subseteq cloud'
    BY <2>1, BackedSteps
  <2> QED
    BY <2>2, <2>3 DEF Done
<1> QED
  BY <1>2, <1>3

\* A stage that returns has done its part.
LEMMA ReturnsDone ==
  ASSUME Known, CloudInv, NEW r \in Runs, StageReturns(r)
  PROVE  Done(r)'
<1>1. /\ pc[r] \in Stages /\ cloud' = cloud /\ rec' = rec /\ row' = row
      /\ Adds(pc[r]) \subseteq cloud /\ Drops(pc[r]) \cap cloud = {}
      /\ pc'[r] = AfterStage(pc[r])
  BY DEF StageReturns, Goto, Known, TypeOK
<1>2. Done(r) /\ Backed(row.phase) \subseteq cloud /\ cloud \subseteq Resources
  BY DEF CloudInv, Honest, Known, TypeOK
<1>3. rec[r].phase = row.phase /\ StagePhase(r)
  BY <1>1, StageAtPhase DEF Known, StagePhases
<1>4. Target(r)' = Target(r)
  BY <1>1 DEF Target
<1>5. Target(r) \in {"decommissioning", NextPhase(row.phase)}
  BY <1>3 DEF Target
<1>6. CASE pc[r] \in Building
  <2>1. CASE pc[r] = "createCluster"
    <3>1. row.phase = "pending" /\ {"network", "cluster"} \subseteq cloud
      BY <1>1, <1>2, <1>3, <2>1 DEF StagePhase, Done, Adds
    <3>2. Backed(Target(r)) \subseteq cloud
      BY <1>5, <3>1, BackedSteps DEF NextPhase
    <3> QED
      BY <1>1, <1>4, <2>1, <3>2 DEF AfterStage, Done
  <2>2. CASE pc[r] = "seedRepo"
    <3>1. row.phase = "cluster-created" /\ {"network", "cluster", "repo"} \subseteq cloud
      BY <1>1, <1>2, <1>3, <2>2, BackedSteps DEF StagePhase, Adds
    <3>2. Backed(Target(r)) \subseteq cloud
      BY <1>5, <3>1, BackedSteps DEF NextPhase
    <3> QED
      BY <1>1, <1>4, <2>2, <3>2 DEF AfterStage, Done
  <2>3. CASE pc[r] = "commitApps"
    <3>1. row.phase = "repo-pushed" /\ Resources \subseteq cloud
      BY <1>1, <1>2, <1>3, <2>3, BackedSteps DEF StagePhase, Done, Resources
    <3>2. Backed(Target(r)) \subseteq cloud
      BY <1>5, <3>1, BackedSteps DEF NextPhase
    <3> QED
      BY <1>1, <1>4, <2>3, <3>2 DEF AfterStage, Done
  <2>4. CASE pc[r] = "noop"
    <3>1. row.phase \in {"identity-bound", "argocd-installed"}
      BY <1>3, <2>4 DEF StagePhase
    <3>2. Backed(Target(r)) \subseteq cloud
      BY <1>2, <1>5, <3>1, BackedSteps DEF NextPhase
    <3> QED
      BY <1>1, <1>4, <2>4, <3>2 DEF AfterStage, Done
  <2>5. CASE pc[r] \in {"ensureNetwork", "installArgoCD", "reconcileInfra", "reconcileRepo"}
    BY <1>1, <2>5 DEF AfterStage, Adds, Done
  <2> QED
    BY <1>6, <2>1, <2>2, <2>3, <2>4, <2>5 DEF Building
<1>7. CASE pc[r] \in Tearing
  <2>1. row.phase = "decommissioning"
    BY <1>1, <1>7, StageAtPhase
  <2> QED
    BY <1>1, <1>2, <1>7, <2>1 DEF AfterStage, Drops, Done, Resources, Tearing
<1> QED
  BY <1>1, <1>6, <1>7 DEF Stages

LEMMA OwnDone ==
  ASSUME Known, CloudInv, LeaseAssumptions, Honest', NEW r \in Runs,
         Progress(r) \/ StageLands(r) \/ Faults(r)
  PROVE  Done(r)'
<1>1. Done(r) /\ TypeOK
  BY DEF CloudInv, Known
<1>2. CASE ReviveGet(r)
  BY <1>1, <1>2 DEF ReviveGet, Goto, TypeOK, Done
<1>3. CASE Claim(r) /\ ~ReviveGet(r)
  <2>1. pc'[r] \notin Marked
    BY <1>1, <1>3 DEF Claim, GetRecord, CreateRecord, CheckCreated, GetAgain,
       ReviveAcquire, ReviveDelete, ReviveCreate, ReviveCheckCreated,
       AcquireLease, Goto, TypeOK, Marked
  <2> QED
    BY <2>1 DEF Done, Marked
<1>4. CASE Reread(r)
  <2>1. CASE ~Exists(row)
    BY <1>1, <1>4, <2>1 DEF Reread, Goto, TypeOK, Done
  <2>2. CASE Exists(row)
    <3>1. row.phase \in PhaseOrder
      BY <1>1, <2>2 DEF Exists, TypeOK, Row
    <3>2. Recorded(r, row) /\ UNCHANGED <<cloud, row>>
      BY <1>4, <2>2 DEF Reread, Recorded, Goto
    <3>3. row.phase = "decommissioned" => cloud = {}
      BY DEF CloudInv, Honest, NothingUnrecorded
    <3> QED
      BY <1>1, <3>1, <3>2, <3>3, WalksOnDone
  <2> QED
    BY <2>1, <2>2
<1>5. CASE RenewBeforeStep(r)
  <2>1. pc'[r] \in {FirstStage(rec[r].phase), "releaseErr"}
    BY <1>1, <1>5 DEF RenewBeforeStep, Goto, TypeOK
  <2> QED
    BY <2>1 DEF FirstStage, Done
<1>6. CASE RecordPhase(r)
  <2>1. CASE Matches(row, rec[r])
    <3>1. row'.phase \in PhaseOrder
      BY <1>1, <1>6, <2>1, TargetTyped DEF RecordPhase, AfterUpdate, TypeOK, Row
    <3>2. row'.phase = "decommissioned" => cloud' = {}
      BY DEF Honest, NothingUnrecorded
    <3> QED
      BY <1>1, <1>6, <2>1, <3>1, <3>2, WalksOnDone DEF RecordPhase
  <2>2. CASE ~Matches(row, rec[r])
    BY <1>1, <1>6, <2>2 DEF RecordPhase, Goto, TypeOK, Done
  <2> QED
    BY <2>1, <2>2
<1>7. CASE CheckRecorded(r)
  <2>1. CASE LooksLikeOurUpdate(row, rec[r], Target(r))
    <3>1. row.phase \in PhaseOrder
      BY <2>1, TargetTyped DEF LooksLikeOurUpdate
    <3>2. row.phase = "decommissioned" => cloud' = {}
      BY <1>7 DEF CheckRecorded, CloudInv, Honest, NothingUnrecorded
    <3>3. Recorded(r, row) /\ row' = row
      BY <1>7, <2>1 DEF CheckRecorded
    <3> QED
      BY <1>1, <3>1, <3>2, <3>3, WalksOnDone
  <2>2. CASE ~LooksLikeOurUpdate(row, rec[r], Target(r))
    BY <1>1, <1>7, <2>2 DEF CheckRecorded, Goto, TypeOK, Done
  <2> QED
    BY <2>1, <2>2
<1>8. CASE ForgetRecord(r) \/ ReleaseLease(r) \/ Abort(r) \/ Crash(r) \/ StageFails(r)
  <2>1. pc'[r] \notin Marked
    BY <1>1, <1>8 DEF ForgetRecord, ReleaseLease, Abort, Crash, StageFails, OnError,
       Goto, TypeOK, Marked
  <2> QED
    BY <2>1 DEF Done, Marked
<1>9. CASE StageReturns(r)
  BY <1>9, ReturnsDone
<1>10. CASE StageLands(r)
  <2>1. /\ pc' = pc /\ row' = row /\ stopped' = stopped /\ pc[r] \in Stages
        /\ cloud' = (cloud \cup Adds(pc[r])) \ Drops(pc[r])
    BY <1>10 DEF StageLands
  <2> QED
    BY <1>1, <2>1 DEF Done, Adds, Drops, Stages, Building, Tearing
<1>11. CASE LoseCall(r)
  <2>1. /\ rec' = rec /\ cloud' = cloud /\ pc'[r] \in {pc[r], OnError(pc[r])}
        /\ pc[r] \notin {"forget", "revDelete"}
    BY <1>1, <1>11 DEF LoseCall, Goto, TypeOK, LeaseAssumptions, Deletions
  <2>2. OnError(pc[r]) \notin Marked
    BY DEF OnError, Marked
  <2> QED
    BY <1>1, <2>1, <2>2 DEF Done, Target, Marked
<1>12. CASE Heartbeat(r) \/ Interrupt(r)
  <2>1. /\ rec' = rec /\ cloud' = cloud /\ pc' = pc /\ stopped \subseteq stopped'
        /\ pc[r] = "revDelete" => r \in stopped'
    BY <1>12 DEF Heartbeat, Interrupt, Leased, Recording, Stages, Building, Tearing
  <2>2. r \notin stopped' => row'.phase = row.phase
    BY <1>1, <1>12 DEF Heartbeat, Interrupt, AfterRenew, TypeOK, Row
  <2> QED
    BY <1>1, <2>1, <2>2 DEF Done, Target
<1> QED
  BY <1>2, <1>3, <1>4, <1>5, <1>6, <1>7, <1>8, <1>9, <1>10, <1>11, <1>12
  DEF Progress, Walk, Answered, Faults

LEMMA CloudInvNext ==
  Known /\ CloudInv /\ LeaseAssumptions /\ [Next]_vars => CloudInv'
<1> SUFFICES ASSUME Known, CloudInv, LeaseAssumptions, [Next]_vars
             PROVE  CloudInv'
  OBVIOUS
<1>1. ASSUME NEW r \in Runs, Progress(r) \/ StageLands(r) \/ Faults(r)
      PROVE  CloudInv'
  <2>1. Honest'
    BY <1>1, HonestStep
  <2>2. Done(r)'
    BY <1>1, <2>1, OwnDone
  <2>3. \A s \in Runs \ {r} : Done(s)'
    BY <1>1, OthersKeepDone
  <2> QED
    BY <2>1, <2>2, <2>3 DEF CloudInv
<1>2. CASE Lapse \/ UNCHANGED vars
  <2>1. row'.phase = row.phase /\ UNCHANGED <<cloud, pc, rec, stopped>>
    BY <1>2 DEF Lapse, AfterLapse, vars, Known, TypeOK, Row
  <2>2. Honest'
    BY <2>1 DEF CloudInv, Honest, NothingUnrecorded, Exists
  <2>3. \A s \in Runs : Done(s)'
    BY <2>1 DEF CloudInv, Done, Target
  <2> QED
    BY <2>2, <2>3 DEF CloudInv
<1> QED
  BY <1>1, <1>2 DEF Next, AllOver

LEMMA CloudInvInit == CloudAssumptions /\ Init => CloudInv
<1> SUFFICES ASSUME CloudAssumptions, Init PROVE CloudInv
  OBVIOUS
<1>1. \A r \in Runs : Done(r)
  BY DEF Init, Done
<1>2. CASE row = EmptyRow /\ cloud = {}
  BY <1>1, <1>2, BackedSteps DEF Honest, NothingUnrecorded, EmptyRow, CloudInv
<1>3. CASE \E old \in Leftovers :
             row = OldRow(old) /\ cloud = old.cloud
  <2>1. PICK old \in Leftovers : row.phase = old.phase /\ cloud = old.cloud
    BY <1>3 DEF EmptyRow, OldRow
  <2>2. old.phase \in PhaseOrder
    BY LeftoversAssumption
  <2> QED
    BY <1>1, <2>1, <2>2 DEF CloudAssumptions, LeftoversHonest, Honest, NothingUnrecorded,
       CloudInv, Exists, Absent, PhaseOrder, LivePhases
<1> QED
  BY <1>2, <1>3 DEF Init

LEMMA CloudInvariant == CloudAssumptions /\ Spec => []CloudInv
<1>1. CloudAssumptions /\ Init => CloudInv
  BY CloudInvInit
<1>2. Known /\ CloudInv /\ LeaseAssumptions /\ [Next]_vars => CloudInv'
  BY CloudInvNext
<1>3. CloudAssumptions => LeaseAssumptions
  BY DEF CloudAssumptions
<1>4. CloudAssumptions /\ [Next]_vars => CloudAssumptions'
  BY DEF CloudAssumptions, LeaseAssumptions, LeftoversHonest, Deletions
<1>5. TypeOK /\ AdvancesLive /\ LeaseInv /\ WorkerIsCurrent /\ StagePhases => Known
  BY DEF Known
<1> QED
  BY <1>1, <1>2, <1>3, <1>4, <1>5, TypeCorrect, AdvancesLiveInvariant, LeaseInvariant,
     Currency, StagePhasesInvariant, PTL DEF Spec

\* Whatever runs race, fail, are interrupted or killed, and whichever calls are
\* lost: the recorded phase says no more than exists in the cloud.
THEOREM RecordedExists == CloudAssumptions /\ Spec => []PhaseHonest
<1>1. CloudInv => PhaseHonest
  BY BackedSteps DEF CloudInv, Honest, PhaseHonest, Backed, Built
<1> QED
  BY <1>1, CloudInvariant, PTL

\* Likewise, whatever exists in the cloud is recorded: when the record goes,
\* nothing of the cluster is left behind.
THEOREM NothingForgotten == CloudAssumptions /\ Spec => []NothingUnrecorded
<1>1. CloudInv => NothingUnrecorded
  BY DEF CloudInv, Honest
<1> QED
  BY <1>1, CloudInvariant, PTL
=============================================================================
