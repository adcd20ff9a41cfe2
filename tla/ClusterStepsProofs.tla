------------------------- MODULE ClusterStepsProofs -------------------------
(***************************************************************************)
(* Theorems about ClusterSteps, for every bound on failed polls, every set  *)
(* of Services, and however often the cloud, the runs and their polls fail. *)
(***************************************************************************)
EXTENDS ClusterSteps, TLAPS
-----------------------------------------------------------------------------
(* Types, and the wait loops. *)

\* The wait loop's count is the number of polls that failed since the cloud
\* last answered, and the loop goes on only below the limit.
CountHonest == pc \in Waits => failures = unanswered /\ failures < MaxErrors

\* The phases an apply works at.
Unfinished == {"pending", "cluster-created", "repo-pushed", "argocd-installed"}

\* Only a cluster that is not ready, and not being torn down, is worked on.
WorksOnUnfinished == pc \in Building => phase \in Unfinished

Typed == TypeOK /\ CountHonest /\ WorksOnUnfinished

\* Wherever a run starts, it is at a step of the provisioning, and past the
\* first one only if the record says the cluster was created.
LEMMA StepsBuild ==
  ASSUME NEW p \in Unfinished
  PROVE  /\ StepOf(p) \in {"ensureNetwork", "seed", "install", "record"}
         /\ StepOf(p) # "ensureNetwork" => p \in Recorded
         /\ NextPhase(p) \in Recorded
         /\ NextPhase(p) # "ready" => NextPhase(p) \in Unfinished
BY DEF StepOf, Recorded, NextPhase, Unfinished

\* A wait that is entered has its count at zero, below the limit.
LEMMA WaitEntered ==
  ASSUME NEW p \in Waits, EnterWait(p)
  PROVE  /\ failures' \in 0..MaxErrors /\ failures' = unanswered' /\ failures' < MaxErrors
         /\ unanswered' \in Nat /\ late' \in BOOLEAN
<1>1. 0 \in 0..MaxErrors /\ 0 < MaxErrors /\ 0 \in Nat
  BY StepsAssumption
<1>2. failures' = 0 /\ unanswered' = 0 /\ late' = FALSE
  BY DEF EnterWait
<1> QED
  BY <1>1, <1>2

LEMMA TypeInit == Init => Typed
<1> SUFFICES ASSUME Init PROVE Typed
  OBVIOUS
<1>1. services \in [Services -> {"none", "present", "going"}]
  BY DEF Init
<1>2. failures \in 0..MaxErrors /\ applies \in 0..MaxApplies /\ faults \in 0..MaxFaults
  BY StepsAssumption DEF Init
<1>3. orphans \subseteq Services /\ left \subseteq listed /\ listed \subseteq Services
  BY DEF Init
<1> QED
  BY <1>1, <1>2, <1>3
     DEF Init, Typed, TypeOK, CountHonest, WorksOnUnfinished, Status, Waits, Building

\* A step of createClusterStep and the steps after it.
LEMMA TypeBuild ==
  ASSUME Typed, Build \/ InstallFails
  PROVE  Typed'
<1> USE StepsAssumption
    DEF Typed, TypeOK, CountHonest, WorksOnUnfinished, world, wait, drain, Goto, End
<1>1. CASE EnsureNetwork
  BY <1>1 DEF EnsureNetwork, Waits, Building
<1>2. CASE Create
  <2>1. EnterWait("waitActive") /\ "waitActive" \in Waits
    BY <1>2 DEF Create, Waits
  <2>2. status' \in Status
    BY <1>2 DEF Create, Status
  <2>3. pc' = "waitActive" /\ pc' \in Building /\ outcome' = outcome
    BY <2>1 DEF EnterWait, Building
  <2>4. phase' \in Unfinished
    BY <1>2 DEF Create, Building
  <2> QED
    BY <1>2, <2>1, <2>2, <2>3, <2>4, WaitEntered DEF Create
<1>3. CASE Reconcile
  BY <1>3 DEF Reconcile, Waits, Building
<1>4. CASE SeedRepo
  BY <1>4 DEF SeedRepo, Waits, Building
<1>5. CASE InstallArgoCD \/ InstallFails
  BY <1>5 DEF InstallArgoCD, InstallFails, Waits, Building
<1>6. CASE Record
  <2>1. phase \in Unfinished
    BY <1>6 DEF Record, Building
  <2>2. phase' \in Recorded /\ (phase' # "ready" => phase' \in Unfinished)
    BY <1>6, <2>1, StepsBuild DEF Record
  <2>3. CASE phase' = "ready"
    BY <1>6, <2>2, <2>3 DEF Record, Waits, Building
  <2>4. CASE phase' # "ready"
    <3>1. pc' = StepOf(phase') /\ outcome' = outcome
      BY <1>6, <2>4 DEF Record
    <3>2. pc' \in {"ensureNetwork", "seed", "install", "record"}
      BY <2>2, <2>4, <3>1, StepsBuild
    <3> QED
      BY <1>6, <2>2, <2>4, <3>1, <3>2 DEF Record, Waits, Building
  <2> QED
    BY <2>3, <2>4
<1> QED
  BY <1>1, <1>2, <1>3, <1>4, <1>5, <1>6 DEF Build

\* A poll of a wait loop, and its deadline.
LEMMA TypePoll ==
  ASSUME Typed, Poll \/ DeadlinePasses
  PROVE  Typed'
<1> USE StepsAssumption
    DEF Typed, TypeOK, CountHonest, WorksOnUnfinished, world, wait, drain, Goto, End
<1>1. CASE PollAnswered
  <2>1. pc' \in {"idle", "reconcile", "deleteNetwork", pc}
    BY <1>1 DEF PollAnswered, PollOn, AfterWait
  <2>2. outcome' \in {outcome, "error"}
    BY <1>1 DEF PollAnswered, PollOn
  <2>3. pc' \in Building => phase' \in Unfinished
    BY <1>1 DEF PollAnswered, PollOn, AfterWait, Waits, Building
  <2>4. failures' = 0 /\ unanswered' = 0 /\ 0 \in 0..MaxErrors /\ 0 < MaxErrors
    BY <1>1 DEF PollAnswered
  <2>5. pc' \in {"idle"} \cup Building \cup Tearing
    BY <1>1, <2>1 DEF PollAnswered, Building, Tearing
  <2> QED
    BY <1>1, <2>2, <2>3, <2>4, <2>5 DEF PollAnswered
<1>2. CASE PollFails
  <2>1. failures + 1 \in 0..MaxErrors
    BY <1>2 DEF PollFails
  <2>2. pc' = "idle" \/ (pc' = pc /\ failures' < MaxErrors)
    <3>1. CASE Enough(failures')
      BY <1>2, <3>1 DEF PollFails
    <3>2. CASE ~Enough(failures')
      <4>1. failures' < MaxErrors
        BY <1>2, <2>1, <3>2 DEF PollFails, Enough
      <4> QED
        BY <1>2, <3>2, <4>1 DEF PollFails, PollOn
    <3> QED
      BY <3>1, <3>2
  <2>3. outcome' \in {outcome, "error"}
    BY <1>2 DEF PollFails, PollOn
  <2>4. pc' \in Building => phase' \in Unfinished
    BY <1>2, <2>2 DEF PollFails, Building
  <2> QED
    BY <1>2, <2>1, <2>2, <2>3, <2>4 DEF PollFails, Fault, Waits
<1>3. CASE DeadlinePasses
  BY <1>3 DEF DeadlinePasses
<1> QED
  BY <1>1, <1>2, <1>3 DEF Poll

\* A step of the teardown.
LEMMA TypeTearDown ==
  ASSUME Typed, TearDown
  PROVE  Typed'
<1> USE StepsAssumption
    DEF Typed, TypeOK, CountHonest, WorksOnUnfinished, world, wait, drain, Goto, End, Waits,
        Tearing, Draining, Fault, Building
<1>1. CASE SkipDrain
  BY <1>1 DEF SkipDrain
<1>2. CASE StopArgoCDSync
  BY <1>2 DEF StopArgoCDSync
<1>3. CASE StopFails
  BY <1>3 DEF StopFails
<1>4. CASE ListServices
  BY <1>4 DEF ListServices
<1>5. ASSUME NEW s \in Services, DeleteService(s)
      PROVE  Typed'
  <2>1. services' \in [Services -> {"none", "present", "going"}]
    BY <1>5 DEF DeleteService
  <2>2. left' \subseteq listed' /\ listed' \subseteq Services
    BY <1>5 DEF DeleteService
  <2>3. pc' \in {"drainDelete", "drainWait"} /\ outcome' = outcome
    BY <1>5 DEF DeleteService, EnterWait
  <2>4. /\ failures' \in 0..MaxErrors /\ unanswered' \in Nat /\ late' \in BOOLEAN
    <3>1. EnterWait("drainWait") \/ UNCHANGED <<failures, unanswered, late>>
      BY <1>5 DEF DeleteService
    <3>2. CASE EnterWait("drainWait")
      <4>1. failures' = 0 /\ unanswered' = 0 /\ late' = FALSE
        BY <3>2 DEF EnterWait
      <4>2. 0 \in 0..MaxErrors /\ 0 \in Nat
        OBVIOUS
      <4> QED
        BY <4>1, <4>2
    <3> QED
      BY <3>1, <3>2
  <2> QED
    BY <1>5, <2>1, <2>2, <2>3, <2>4 DEF DeleteService
<1>6. CASE PollDrain
  BY <1>6 DEF PollDrain
<1>7. CASE DeleteCluster
  <2>1. EnterWait("waitGone") /\ "waitGone" \in Waits
    BY <1>7 DEF DeleteCluster
  <2>2. status' \in Status
    BY <1>7 DEF DeleteCluster, Status
  <2>3. pc' = "waitGone" /\ outcome' = outcome
    BY <2>1 DEF EnterWait
  <2> QED
    BY <1>7, <2>1, <2>2, <2>3, WaitEntered DEF DeleteCluster
<1>8. CASE DeleteNetwork
  BY <1>8 DEF DeleteNetwork
<1>9. CASE DeleteRepo \/ Forget
  <2>1. /\ UNCHANGED <<status, network, services, controller, orphans, wait, drain, applies, faults>>
        /\ repo' \in BOOLEAN
        /\ phase' \in {phase, "absent"} /\ pc' \in {"forget", "idle"}
        /\ outcome' \in {outcome, "ok"}
    BY <1>9 DEF DeleteRepo, Forget
  <2> QED
    BY <2>1
<1>10. CASE DrainLosesCluster \/ DeleteRefused \/ NetworkInUse
  BY <1>10 DEF DrainLosesCluster, DeleteRefused, NetworkInUse
<1> QED
  BY <1>1, <1>2, <1>3, <1>4, <1>5, <1>6, <1>7, <1>8, <1>9, <1>10 DEF TearDown

\* A run starts or stops, or the cloud and the cluster take a step.
LEMMA TypeOthers ==
  ASSUME Typed, StartApply \/ StartDelete \/ RunStops \/ Environment \/ UNCHANGED vars
  PROVE  Typed'
<1> USE StepsAssumption
    DEF Typed, TypeOK, CountHonest, WorksOnUnfinished, world, wait, drain, Goto, End, Waits, Fault
<1>1. CASE StartApply
  <2>1. phase' \in Unfinished /\ phase' \in {phase, "pending"}
    BY <1>1 DEF StartApply, Unfinished, Recorded
  <2>2. pc' = StepOf(phase') /\ outcome' = outcome
    BY <1>1 DEF StartApply
  <2>3. pc' \in {"ensureNetwork", "seed", "install", "record"}
    BY <2>1, <2>2, StepsBuild
  <2>4. applies' \in 0..MaxApplies
    BY <1>1 DEF StartApply
  <2> QED
    BY <1>1, <2>1, <2>2, <2>3, <2>4 DEF StartApply, Building
<1>2. CASE StartDelete
  BY <1>2 DEF StartDelete, Tearing, Draining, Building
<1>3. CASE RunStops
  BY <1>3 DEF RunStops, Building
<1>4. ASSUME NEW s \in Status, Becomes(s), faults' \in 0..MaxFaults
      PROVE  Typed'
  BY <1>4 DEF Becomes
<1>5. CASE CloudProceeds
  BY <1>4, <1>5 DEF CloudProceeds
<1>6. CASE CloudBreaks
  BY <1>4, <1>6 DEF CloudBreaks
<1>7. CASE CloudUpdates
  BY <1>4, <1>7 DEF CloudUpdates, Status
<1>8. CASE ControllerStops
  BY <1>8 DEF ControllerStops
<1>9. ASSUME NEW s \in Services, ServiceGoes(s) \/ Sync(s)
      PROVE  Typed'
  BY <1>9 DEF ServiceGoes, Sync
<1>10. CASE UNCHANGED vars
  BY <1>10 DEF vars
<1> QED
  BY <1>1, <1>2, <1>3, <1>5, <1>6, <1>7, <1>8, <1>9, <1>10 DEF Environment

LEMMA TypeNext == Typed /\ [Next]_vars => Typed'
BY TypeBuild, TypePoll, TypeTearDown, TypeOthers DEF Next, Run, AllOver

LEMMA TypeInvariant == Spec => []Typed
BY TypeInit, TypeNext, PTL DEF Spec

\* The variables keep their types.
THEOREM StepsTyped == Spec => []TypeOK
<1>1. Typed => TypeOK
  BY DEF Typed
<1> QED
  BY <1>1, TypeInvariant, PTL

\* A wait is given up only because the cluster failed, its deadline passed, or
\* MaxErrors polls in a row went unanswered (describeFailure).
THEOREM WaitsLast == Spec => WaitsAreNotCutShort
<1>1. ASSUME Typed, [Next]_vars
      PROVE  GivenUpForCause
  <2> SUFFICES ASSUME pc \in Waits, pc' = "idle", outcome' = "error"
               PROVE  status = "failed" \/ late \/ unanswered' >= MaxErrors
    BY DEF GivenUpForCause
  <2>1. CASE PollAnswered
    BY <2>1 DEF PollAnswered, PollOn, Verdict, Shown, Goto, End, Waits, AfterWait
  <2>2. CASE PollFails
    <3>1. CASE Enough(failures')
      <4>1. failures' = unanswered'
        BY <1>1, <2>2 DEF PollFails, Typed, CountHonest
      <4> QED
        BY <3>1, <4>1 DEF Enough
    <3>2. CASE ~Enough(failures')
      BY <2>2, <3>2 DEF PollFails, PollOn, Goto, Waits
    <3> QED
      BY <3>1, <3>2
  <2> QED
    BY <1>1, <2>1, <2>2
       DEF Next, Run, Build, Poll, TearDown, Environment, AllOver, vars, Goto, End,
           StartApply, StartDelete, RunStops, EnsureNetwork, Create, Reconcile,
           SeedRepo, InstallArgoCD, Record, InstallFails, SkipDrain, StopArgoCDSync,
           StopFails, ListServices, DeleteService, PollDrain, DrainLosesCluster,
           DeleteCluster, DeleteRefused, DeleteNetwork, NetworkInUse, DeleteRepo, Forget,
           DeadlinePasses, CloudProceeds, CloudBreaks, CloudUpdates, Becomes,
           ControllerStops, ServiceGoes, Sync, Waits
<1> QED
  BY <1>1, TypeInvariant, PTL DEF Spec, WaitsAreNotCutShort
-----------------------------------------------------------------------------
(* What is recorded was built. *)

\* The cluster was active once, and is not being deleted.
Up == {"active", "updating", "failed"}

\* A step of an apply is only reached over the ones before it, and a teardown
\* only with its mark in the record.
BuildOrder ==
  /\ pc \in Building \ {"ensureNetwork"} => network
  /\ pc \in {"reconcile", "seed", "install", "record"} => status \in Up
  /\ pc \in Tearing => phase = "decommissioning"
  /\ RecordedWasActive

\* What the cloud does by itself: it moves one cluster's status, and never
\* creates one or starts to delete one.
LEMMA CloudMoves ==
  ASSUME CloudProceeds \/ CloudBreaks \/ CloudUpdates
  PROVE  /\ status' \in Status
         /\ <<status, status'>> \in Proceeds \cup Breaks \cup {<<"active", "updating">>}
         /\ Becomes(status')
         /\ UNCHANGED <<network, repo, phase, pc, wait, drain, outcome, applies>>
<1>1. ASSUME NEW s \in Status, Becomes(s)
      PROVE  status' = s /\ UNCHANGED <<network, repo, phase, pc, wait, drain, outcome, applies>>
  BY <1>1 DEF Becomes
<1>2. CASE CloudProceeds
  BY <1>1, <1>2 DEF CloudProceeds
<1>3. CASE CloudBreaks
  BY <1>1, <1>3 DEF CloudBreaks
<1>4. CASE CloudUpdates
  BY <1>1, <1>4 DEF CloudUpdates, Status
<1> QED
  BY <1>2, <1>3, <1>4

\* The steps that leave the record, the cluster and the network as they are.
LEMMA BuildOrderKept ==
  ASSUME BuildOrder, UNCHANGED <<phase, status, network>>,
         pc' \in {pc, "idle"} \/ (pc \in Tearing /\ pc' \in Tearing)
  PROVE  BuildOrder'
BY DEF BuildOrder, RecordedWasActive, Recorded, Building, Tearing, Draining

\* One step of a run that is building.
LEMMA BuildOrderBuilds ==
  ASSUME Typed, BuildOrder, Build \/ InstallFails \/ Poll
  PROVE  BuildOrder'
<1> USE DEF Goto, End, world, wait, drain, BuildOrder, RecordedWasActive, Recorded, Building,
            Tearing, Draining, Up
<1>1. CASE EnsureNetwork
  BY <1>1 DEF EnsureNetwork
<1>2. CASE Create
  BY <1>2 DEF Create, EnterWait
<1>3. CASE Reconcile
  BY <1>3 DEF Reconcile
<1>4. CASE SeedRepo
  BY <1>4 DEF SeedRepo
<1>5. CASE InstallArgoCD \/ InstallFails
  BY <1>5 DEF InstallArgoCD, InstallFails, Reachable
<1>8. CASE Record
  <2>1. network /\ status \in Up /\ UNCHANGED <<network, status>>
    BY <1>8 DEF Record
  <2>2. pc' \in {"idle", "ensureNetwork", "seed", "install", "record"}
    <3>1. phase \in Unfinished
      BY <1>8 DEF Record, Typed, WorksOnUnfinished
    <3>2. phase' # "ready" => phase' \in Unfinished
      BY <1>8, <3>1, StepsBuild DEF Record
    <3> QED
      BY <1>8, <3>2, StepsBuild DEF Record
  <2> QED
    BY <2>1, <2>2
<1>6. CASE PollAnswered
  <2>1. UNCHANGED <<phase, status, network>> /\ pc \in Waits
    BY <1>6 DEF PollAnswered
  <2>2. CASE Verdict(pc, Shown) = "done"
    <3>1. \/ pc = "waitActive" /\ status = "active" /\ pc' = "reconcile"
          \/ pc = "waitGone" /\ pc' = "deleteNetwork"
      BY <1>6, <2>2 DEF PollAnswered, Verdict, Shown, AfterWait, Waits
    <3> QED
      BY <2>1, <3>1
  <2>3. CASE Verdict(pc, Shown) # "done"
    <3>1. pc' \in {pc, "idle"}
      BY <1>6, <2>3 DEF PollAnswered, PollOn
    <3> QED
      BY <2>1, <3>1, BuildOrderKept
  <2> QED
    BY <2>2, <2>3
<1>7. CASE PollFails
  <2>1. pc' \in {pc, "idle"} /\ UNCHANGED <<phase, status, network>>
    BY <1>7 DEF PollFails, PollOn
  <2> QED
    BY <2>1, BuildOrderKept
<1> QED
  BY <1>1, <1>2, <1>3, <1>4, <1>5, <1>6, <1>7, <1>8 DEF Build, Poll

\* One step of a teardown.
LEMMA BuildOrderTears ==
  ASSUME BuildOrder, TearDown
  PROVE  BuildOrder'
<1> USE DEF Goto, End, world, Tearing, Draining
<1>1. CASE SkipDrain \/ StopArgoCDSync \/ StopFails \/ ListServices \/ PollDrain
  BY <1>1, BuildOrderKept
     DEF SkipDrain, StopArgoCDSync, StopFails, ListServices, PollDrain
<1>2. ASSUME NEW s \in Services, DeleteService(s)
      PROVE  BuildOrder'
  BY <1>2, BuildOrderKept DEF DeleteService, EnterWait
<1>3. CASE DrainLosesCluster \/ DeleteRefused \/ NetworkInUse
  BY <1>3, BuildOrderKept DEF DrainLosesCluster, DeleteRefused, NetworkInUse
<1>4. CASE DeleteCluster
  BY <1>4 DEF DeleteCluster, EnterWait, BuildOrder, RecordedWasActive, Recorded, Building
<1>5. CASE DeleteNetwork
  BY <1>5 DEF DeleteNetwork, BuildOrder, RecordedWasActive, Recorded, Building
<1>6. CASE DeleteRepo \/ Forget
  BY <1>6 DEF DeleteRepo, Forget, BuildOrder, RecordedWasActive, Recorded, Building
<1> QED
  BY <1>1, <1>2, <1>3, <1>4, <1>5, <1>6 DEF TearDown

LEMMA BuildOrderNext == Typed /\ BuildOrder /\ [Next]_vars => BuildOrder'
<1> SUFFICES ASSUME Typed, BuildOrder, [Next]_vars
             PROVE  BuildOrder'
  OBVIOUS
<1>1. CASE StartApply
  <2>1. pc' = StepOf(phase') /\ UNCHANGED <<status, network>>
    BY <1>1 DEF StartApply, Goto, world
  <2>2. phase' \in Unfinished /\ phase' \in {phase, "pending"}
    BY <1>1 DEF StartApply, Typed, TypeOK, Unfinished, Recorded
  <2>3. pc' \in {"ensureNetwork", "seed", "install", "record"}
    BY <2>1, <2>2, StepsBuild
  <2>4. phase' \in Recorded => network /\ status \in Up
    BY <2>2 DEF BuildOrder, RecordedWasActive, Recorded, Up
  <2>5. pc' # "ensureNetwork" => phase' \in Recorded
    BY <2>1, <2>2, StepsBuild
  <2> QED
    BY <2>1, <2>3, <2>4, <2>5
       DEF BuildOrder, RecordedWasActive, Recorded, Building, Tearing, Draining, Up
<1>2. CASE StartDelete
  BY <1>2 DEF StartDelete, Goto, world, BuildOrder, RecordedWasActive, Recorded, Building,
              Tearing, Draining
<1>3. CASE RunStops \/ DeadlinePasses \/ AllOver \/ UNCHANGED vars
  BY <1>3, BuildOrderKept DEF RunStops, DeadlinePasses, AllOver, vars, End, world
<1>4. CASE ControllerStops
  BY <1>4, BuildOrderKept DEF ControllerStops
<1>5. ASSUME NEW s \in Services, ServiceGoes(s) \/ Sync(s)
      PROVE  BuildOrder'
  BY <1>5, BuildOrderKept DEF ServiceGoes, Sync
<1>6. CASE CloudProceeds \/ CloudBreaks \/ CloudUpdates
  <2>1. status \in Up => status' \in Up
    BY <1>6, CloudMoves DEF Proceeds, Breaks, Up
  <2> QED
    BY <1>6, <2>1, CloudMoves DEF BuildOrder, RecordedWasActive, Recorded, Up
<1> QED
  BY <1>1, <1>2, <1>3, <1>4, <1>5, <1>6, BuildOrderBuilds, BuildOrderTears
     DEF Next, Run, Environment

LEMMA BuildOrderInvariant == Spec => []BuildOrder
<1>1. Init => BuildOrder
  BY DEF Init, BuildOrder, RecordedWasActive, Recorded, Building, Tearing, Draining
<1> QED
  BY <1>1, BuildOrderNext, TypeInvariant, PTL DEF Spec

\* The record says created only of a cluster that became active in its network,
\* whichever run requested it and whichever waited for it (createClusterStep).
THEOREM RecordHonest == Spec => []RecordedWasActive
<1>1. BuildOrder => RecordedWasActive
  BY DEF BuildOrder
<1> QED
  BY <1>1, BuildOrderInvariant, PTL
-----------------------------------------------------------------------------
(* What is torn down, and in which order. *)

\* The order of the teardown stands on this: a run starts when the cloud shows
\* what the last one asked for (a request the cloud does not show yet is taken
\* for an absent cluster by WaitUntilGone).
Sequential == ~Overtakes

\* The steps of the teardown after the cluster is gone.
Emptying == {"deleteNetwork", "deleteRepo", "forget"}

\* The network goes after the cluster, and what has no record does not exist.
TearOrder ==
  /\ status = "requested" => pc \in {"waitActive", "idle"}
  /\ status = "deleting" => phase = "decommissioning"
  /\ pc \in Emptying => status = "absent"
  /\ pc \in {"deleteRepo", "forget"} => ~network
  /\ pc = "forget" => ~repo
  /\ GoneMeansGone

\* An apply starts with a step of the provisioning.
LEMMA StartsBuilding ==
  ASSUME Typed, StartApply
  PROVE  pc' \in {"ensureNetwork", "seed", "install", "record"} /\ phase # "decommissioning"
<1>1. phase' \in Unfinished /\ pc' = StepOf(phase') /\ phase # "decommissioning"
  BY DEF StartApply, Goto, Typed, TypeOK, Unfinished, Recorded
<1> QED
  BY <1>1, StepsBuild

\* A run at work has a record.
LEMMA AtWorkIsRecorded ==
  ASSUME Typed, BuildOrder, pc # "idle"
  PROVE  phase # "absent"
BY DEF Typed, TypeOK, WorksOnUnfinished, Unfinished, BuildOrder

\* The steps that leave the record, the network and the repository, and move a
\* cluster's status no further than TearOrder allows.
LEMMA TearOrderKept ==
  ASSUME TearOrder, UNCHANGED <<phase, network, repo>>,
         phase = "absent" => status' = "absent",
         status' = "requested" => pc' \in {"waitActive", "idle"},
         status' = "deleting" => phase = "decommissioning",
         status = "absent" => status' = "absent" \/ pc \notin Emptying,
         pc' \in {"deleteRepo", "forget"} => pc' = pc,
         pc' = "deleteNetwork" => pc = "deleteNetwork" \/ status' = "absent"
  PROVE  TearOrder'
BY DEF TearOrder, GoneMeansGone, Emptying

LEMMA TearOrderBuilds ==
  ASSUME Typed, BuildOrder, TearOrder, Build \/ InstallFails \/ Poll
  PROVE  TearOrder'
<1> USE DEF Goto, End, world, TearOrder
<1>1. phase # "absent"
  BY AtWorkIsRecorded
     DEF Build, InstallFails, Poll, EnsureNetwork, Create, Reconcile, SeedRepo,
         InstallArgoCD, Record, PollAnswered, PollFails, Waits
<1>2. CASE EnsureNetwork
  BY <1>1, <1>2 DEF EnsureNetwork, GoneMeansGone, Emptying
<1>3. CASE Create
  BY <1>1, <1>3 DEF Create, EnterWait, GoneMeansGone, Emptying
<1>4. CASE Reconcile \/ SeedRepo \/ InstallArgoCD \/ Record
  <2>1. status \notin {"requested", "deleting"}
    BY <1>4 DEF Reconcile, SeedRepo, InstallArgoCD, Record, BuildOrder, Up
  <2>2. phase' # "absent" /\ pc' \notin Emptying /\ status' = status
    <3>1. CASE Reconcile \/ SeedRepo \/ InstallArgoCD
      BY <1>1, <3>1 DEF Reconcile, SeedRepo, InstallArgoCD, Emptying
    <3>2. CASE Record
      <4>1. phase \in Unfinished
        BY <3>2 DEF Record, Typed, WorksOnUnfinished, Building
      <4>2. phase' \in Recorded /\ (phase' # "ready" => phase' \in Unfinished)
        BY <3>2, <4>1, StepsBuild DEF Record
      <4>3. pc' \in {"idle", "ensureNetwork", "seed", "install", "record"}
        BY <3>2, <4>2, StepsBuild DEF Record
      <4> QED
        BY <3>2, <4>2, <4>3 DEF Record, Recorded, Emptying
    <3> QED
      BY <1>4, <3>1, <3>2
  <2> QED
    BY <2>1, <2>2 DEF GoneMeansGone, Emptying
<1>5. CASE InstallFails
  BY <1>1, <1>5 DEF InstallFails, GoneMeansGone, Emptying
<1>6. CASE PollAnswered
  <2>1. pc \in Waits /\ UNCHANGED <<phase, network, repo, status>>
    BY <1>6 DEF PollAnswered
  <2>2. CASE Verdict(pc, Shown) = "done"
    <3>1. \/ pc = "waitActive" /\ pc' = "reconcile" /\ status = "active"
          \/ pc = "waitGone" /\ pc' = "deleteNetwork" /\ status = "absent"
      BY <1>6, <2>2 DEF PollAnswered, Verdict, Shown, AfterWait, Waits
    <3> QED
      BY <1>1, <2>1, <3>1, TearOrderKept
  <2>3. CASE Verdict(pc, Shown) # "done"
    <3>1. pc' \in {pc, "idle"}
      BY <1>6, <2>3 DEF PollAnswered, PollOn
    <3> QED
      BY <1>1, <2>1, <3>1, TearOrderKept DEF Waits
  <2> QED
    BY <2>2, <2>3
<1>7. CASE PollFails
  <2>1. pc' \in {pc, "idle"} /\ pc \in Waits /\ UNCHANGED <<phase, network, repo, status>>
    BY <1>7 DEF PollFails, PollOn
  <2> QED
    BY <1>1, <2>1, TearOrderKept DEF Waits
<1> QED
  BY <1>2, <1>3, <1>4, <1>5, <1>6, <1>7 DEF Build, Poll

LEMMA TearOrderTears ==
  ASSUME Typed, BuildOrder, TearOrder, TearDown
  PROVE  TearOrder'
<1> USE DEF Goto, End, world
<1>1. pc \in Tearing
  BY DEF TearDown, SkipDrain, StopArgoCDSync, StopFails, ListServices, DeleteService,
         PollDrain, DrainLosesCluster, DeleteCluster, DeleteRefused, DeleteNetwork,
         NetworkInUse, DeleteRepo, Forget, Tearing, Draining
<1>2. phase = "decommissioning" /\ status # "requested"
  <2>1. pc \notin {"waitActive", "idle"}
    BY <1>1 DEF Tearing, Draining
  <2> QED
    BY <1>1, <2>1 DEF BuildOrder, TearOrder
<1>3. CASE SkipDrain \/ StopArgoCDSync \/ StopFails \/ ListServices \/ PollDrain
  BY <1>2, <1>3, TearOrderKept
     DEF SkipDrain, StopArgoCDSync, StopFails, ListServices, PollDrain
<1>4. ASSUME NEW s \in Services, DeleteService(s)
      PROVE  TearOrder'
  BY <1>2, <1>4, TearOrderKept DEF DeleteService, EnterWait
<1>5. CASE DrainLosesCluster \/ DeleteRefused \/ NetworkInUse
  BY <1>2, <1>5, TearOrderKept DEF DrainLosesCluster, DeleteRefused, NetworkInUse
<1>6. CASE DeleteCluster
  BY <1>2, <1>6, TearOrderKept DEF DeleteCluster, EnterWait
<1>7. CASE DeleteNetwork
  BY <1>2, <1>7 DEF DeleteNetwork, TearOrder, GoneMeansGone, Emptying
<1>8. CASE DeleteRepo \/ Forget
  BY <1>2, <1>8 DEF DeleteRepo, Forget, TearOrder, GoneMeansGone, Emptying
<1> QED
  BY <1>3, <1>4, <1>5, <1>6, <1>7, <1>8 DEF TearDown

LEMMA TearOrderNext ==
  Sequential /\ Typed /\ BuildOrder /\ TearOrder /\ [Next]_vars => TearOrder'
<1> SUFFICES ASSUME Sequential, Typed, BuildOrder, TearOrder, [Next]_vars
             PROVE  TearOrder'
  OBVIOUS
<1>1. CASE StartApply
  <2>1. pc' \in {"ensureNetwork", "seed", "install", "record"}
    BY <1>1, StartsBuilding
  <2>2. status # "requested" /\ phase' \notin {"absent", "decommissioning"}
    BY <1>1 DEF StartApply, Seen, Sequential
  <2>3. status # "deleting"
    BY <1>1 DEF StartApply, TearOrder
  <2> QED
    BY <1>1, <2>1, <2>2, <2>3 DEF StartApply, TearOrder, GoneMeansGone, Emptying, world
<1>2. CASE StartDelete
  BY <1>2 DEF StartDelete, Seen, Sequential, Goto, world, TearOrder, GoneMeansGone, Emptying
<1>3. CASE RunStops \/ DeadlinePasses \/ AllOver \/ UNCHANGED vars
  BY <1>3 DEF RunStops, DeadlinePasses, AllOver, vars, End, world, TearOrder, GoneMeansGone, Emptying
<1>4. CASE ControllerStops
  BY <1>4 DEF ControllerStops, TearOrder, GoneMeansGone, Emptying
<1>5. ASSUME NEW s \in Services, ServiceGoes(s) \/ Sync(s)
      PROVE  TearOrder'
  BY <1>5 DEF ServiceGoes, Sync, TearOrder, GoneMeansGone, Emptying
<1>6. CASE CloudProceeds \/ CloudBreaks \/ CloudUpdates
  <2>1. status # "absent" /\ status' \notin {"requested", "deleting"}
    BY <1>6, CloudMoves DEF Proceeds, Breaks
  <2> QED
    BY <1>6, <2>1, CloudMoves DEF TearOrder, GoneMeansGone, Emptying
<1> QED
  BY <1>1, <1>2, <1>3, <1>4, <1>5, <1>6, TearOrderBuilds, TearOrderTears
     DEF Next, Run, Environment

LEMMA TearOrderInvariant == Sequential /\ Spec => []TearOrder
<1>1. Init => TearOrder
  BY DEF Init, TearOrder, GoneMeansGone, Emptying
<1>2. Sequential /\ TearOrder /\ Typed /\ BuildOrder /\ [Next]_vars => TearOrder'
  BY TearOrderNext
<1>3. Sequential /\ [Next]_vars => Sequential'
  BY DEF Sequential
<1> QED
  BY <1>1, <1>2, <1>3, TypeInvariant, BuildOrderInvariant, PTL DEF Spec

\* When the record goes, the cluster, its network and its repository are gone,
\* however many runs the delete took and wherever they stopped (Delete).
THEOREM GoneForGood == Sequential /\ Spec => []GoneMeansGone
<1>1. TearOrder => GoneMeansGone
  BY DEF TearOrder
<1> QED
  BY <1>1, TearOrderInvariant, PTL

\* "Nothing is deleted while another step might still need it" (Teardown).
THEOREM ReverseTeardown == Sequential /\ Spec => TornDownInReverse
<1>1. ASSUME TearOrder, [Next]_vars
      PROVE  ReverseOrder
  <2>1. CASE DeleteNetwork
    BY <1>1, <2>1 DEF DeleteNetwork, TearOrder, Emptying, ReverseOrder
  <2>2. CASE DeleteRepo \/ Forget
    BY <1>1, <2>2 DEF DeleteRepo, Forget, TearOrder, Emptying, world, ReverseOrder
  <2>3. CASE CloudProceeds \/ CloudBreaks \/ CloudUpdates
    BY <2>3, CloudMoves DEF ReverseOrder
  <2>4. CASE Build \/ InstallFails \/ Poll
    BY <2>4 DEF Build, EnsureNetwork, Create, Reconcile, SeedRepo, InstallArgoCD,
                Record, InstallFails, Poll, PollAnswered, PollFails, world, ReverseOrder
  <2> QED
    BY <1>1, <2>1, <2>2, <2>3, <2>4
       DEF Next, Run, TearDown, Environment, AllOver, vars, world, ReverseOrder,
           StartApply, StartDelete, RunStops, SkipDrain, StopArgoCDSync, StopFails,
           ListServices, DeleteService, PollDrain, DrainLosesCluster, DeleteCluster,
           DeleteRefused, NetworkInUse, DeadlinePasses, ControllerStops,
           ServiceGoes, Sync
<1> QED
  BY <1>1, TearOrderInvariant, PTL DEF Spec, TornDownInReverse
-----------------------------------------------------------------------------
(* The drain. *)

\* The Services that are there, being finalized or not.
Standing == {s \in Services : services[s] # "none"}

\* Unless the drain was skipped or cut short: the Services it did not list, and
\* by the time the cluster is deleted all that are left, are ones Argo CD has
\* created since.  A load balancer that was orphaned stays known.
DrainOrder ==
  /\ status \in {"absent", "requested", "creating"} => Standing = {}
  /\ pc \in {"drainDelete", "drainWait"} => Standing \subseteq listed \cup recreated
  /\ pc = "deleteCluster" /\ ~gaveUp => Standing \subseteq recreated
  /\ status = "deleting" /\ ~gaveUp => Standing \subseteq recreated
  /\ orphans # {} => status = "absent" /\ phase = "decommissioning"
  /\ DrainIsThorough
  /\ pc \in {"deleteRepo", "forget"} => orphans = {}

\* The steps that leave all of that as it is, and lead on to no later stage of
\* the drain.
LEMMA DrainOrderKept ==
  ASSUME DrainOrder,
         UNCHANGED <<services, orphans, listed, gaveUp, recreated>>,
         status' = status, phase' = phase \/ orphans = {},
         pc' = pc \/ pc' \notin Draining \cup {"deleteCluster", "deleteRepo", "forget"}
                  \/ pc' = "drainStop"
  PROVE  DrainOrder'
BY DEF DrainOrder, DrainIsThorough, Standing, Draining

LEMMA DrainOrderBuilds ==
  ASSUME Typed, BuildOrder, DrainOrder, Build \/ InstallFails \/ Poll
  PROVE  DrainOrder'
<1> USE DEF Goto, End, world, drain
<1>1. CASE EnsureNetwork \/ InstallFails
  BY <1>1, DrainOrderKept DEF EnsureNetwork, InstallFails, Draining
<1>2. CASE Create
  <2>1. orphans = {}
    BY <1>2 DEF Create, Typed, WorksOnUnfinished, Unfinished, DrainOrder, Building
  <2> QED
    BY <1>2, <2>1 DEF Create, EnterWait, DrainOrder, DrainIsThorough, Standing
<1>3. CASE Reconcile \/ SeedRepo
  <2>1. orphans = {}
    BY <1>3 DEF Reconcile, SeedRepo, Typed, WorksOnUnfinished, Unfinished, DrainOrder, Building
  <2> QED
    BY <1>3, <2>1, DrainOrderKept DEF Reconcile, SeedRepo, Draining
<1>4. CASE InstallArgoCD
  BY <1>4 DEF InstallArgoCD, Reachable, DrainOrder, DrainIsThorough, Standing
<1>6. CASE Record
  <2>1. phase \in Unfinished
    BY <1>6 DEF Record, Typed, WorksOnUnfinished, Building
  <2>2. orphans = {}
    BY <2>1 DEF Unfinished, DrainOrder
  <2>3. phase' # "ready" => phase' \in Unfinished
    BY <1>6, <2>1, StepsBuild DEF Record
  <2>4. pc' \in {"idle", "ensureNetwork", "seed", "install", "record"}
    BY <1>6, <2>3, StepsBuild DEF Record
  <2> QED
    BY <1>6, <2>2, <2>4, DrainOrderKept DEF Record, Draining
<1>5. CASE PollAnswered \/ PollFails
  <2>1. pc' \in {pc, "idle", "reconcile", "deleteNetwork"}
    <3>1. CASE PollAnswered
      BY <3>1 DEF PollAnswered, PollOn, AfterWait
    <3>2. CASE PollFails
      BY <3>2 DEF PollFails, PollOn
    <3> QED
      BY <1>5, <3>1, <3>2
  <2>2. UNCHANGED <<status, services, orphans, phase, listed, gaveUp, recreated>>
    BY <1>5 DEF PollAnswered, PollFails
  <2> QED
    BY <2>1, <2>2, DrainOrderKept DEF Draining
<1> QED
  BY <1>1, <1>2, <1>3, <1>4, <1>5, <1>6 DEF Build, Poll

\* The drain itself.
LEMMA DrainOrderDrains ==
  ASSUME Typed, DrainOrder,
         \/ SkipDrain \/ StopArgoCDSync \/ StopFails \/ ListServices
         \/ \E s \in Services : DeleteService(s)
         \/ PollDrain \/ DrainLosesCluster
  PROVE  DrainOrder'
<1> USE DEF Goto, End, world, drain
<1>1. CASE SkipDrain
  BY <1>1 DEF SkipDrain, DrainOrder, DrainIsThorough, Standing
<1>2. CASE StopArgoCDSync
  BY <1>2 DEF StopArgoCDSync, Reachable, DrainOrder, DrainIsThorough, Standing
<1>3. CASE StopFails
  BY <1>3 DEF StopFails, Reachable, DrainOrder, DrainIsThorough, Standing
<1>4. CASE ListServices
  <2>1. listed' = Standing /\ Standing' = Standing
    BY <1>4 DEF ListServices, Standing
  <2>2. pc' \in {"deleteCluster", "drainDelete"} /\ (pc' = "deleteCluster" => listed' = {})
    BY <1>4 DEF ListServices
  <2>3. status \in {"active", "updating"} /\ orphans = {} /\ UNCHANGED <<status, orphans, phase>>
    BY <1>4 DEF ListServices, Reachable, DrainOrder
  <2> QED
    BY <2>1, <2>2, <2>3 DEF DrainOrder, DrainIsThorough
<1>5. ASSUME NEW s \in Services, DeleteService(s)
      PROVE  DrainOrder'
  <2>1. pc' \in {"drainDelete", "drainWait"} /\ pc = "drainDelete"
    BY <1>5 DEF DeleteService, EnterWait
  <2>2. Standing' \subseteq Standing
    BY <1>5 DEF DeleteService, Typed, TypeOK, Standing
  <2>3. status \in {"active", "updating"} /\ UNCHANGED <<status, orphans, phase, listed, gaveUp, recreated>>
    BY <1>5 DEF DeleteService, Reachable
  <2> QED
    BY <2>1, <2>2, <2>3 DEF DrainOrder, DrainIsThorough
<1>6. CASE PollDrain
  <2>1. CASE pc' = "deleteCluster" /\ gaveUp' = (gaveUp \/ Remaining # {})
    <3>1. ~gaveUp' => Standing \subseteq recreated
      <4>1. ~gaveUp' => Remaining = {}
        BY <2>1
      <4>2. Remaining = {} => \A s \in listed : s \notin Standing
        BY DEF Remaining, Standing
      <4>3. Standing \subseteq listed \cup recreated
        BY <1>6 DEF PollDrain, DrainOrder
      <4> QED
        BY <4>1, <4>2, <4>3
    <3>2. orphans = {} /\ status \in {"active", "updating"}
      BY <1>6 DEF PollDrain, Reachable, DrainOrder
    <3>3. UNCHANGED <<status, orphans, phase, recreated>> /\ Standing' = Standing
      BY <1>6 DEF PollDrain, Standing
    <3> QED
      BY <2>1, <3>1, <3>2, <3>3 DEF DrainOrder, DrainIsThorough
  <2>2. CASE pc' = pc /\ gaveUp' = gaveUp
    BY <1>6, <2>2, DrainOrderKept DEF PollDrain
  <2> QED
    BY <1>6, <2>1, <2>2 DEF PollDrain
<1>7. CASE DrainLosesCluster
  BY <1>7, DrainOrderKept DEF DrainLosesCluster, Draining
<1> QED
  BY <1>1, <1>2, <1>3, <1>4, <1>5, <1>6, <1>7

\* The rest of the teardown.
LEMMA DrainOrderTears ==
  ASSUME TearOrder, DrainOrder,
         DeleteCluster \/ DeleteRefused \/ DeleteNetwork \/ NetworkInUse \/ DeleteRepo \/ Forget
  PROVE  DrainOrder'
<1> USE DEF Goto, End, world, drain
<1>1. CASE DeleteCluster
  BY <1>1 DEF DeleteCluster, EnterWait, DrainOrder, DrainIsThorough, Standing, Shown
<1>2. CASE DeleteRefused \/ NetworkInUse
  BY <1>2, DrainOrderKept DEF DeleteRefused, NetworkInUse, Draining
<1>3. CASE DeleteNetwork
  BY <1>3 DEF DeleteNetwork, DrainOrder, DrainIsThorough, Standing
<1>4. CASE DeleteRepo \/ Forget
  BY <1>4 DEF DeleteRepo, Forget, DrainOrder, DrainIsThorough, Standing
<1> QED
  BY <1>1, <1>2, <1>3, <1>4

\* The cloud, and what runs in the cluster.
LEMMA DrainOrderElsewhere ==
  ASSUME Typed, TearOrder, DrainOrder, Environment
  PROVE  DrainOrder'
<1>1. CASE CloudProceeds \/ CloudBreaks \/ CloudUpdates
  <2>1. CASE status' = "absent"
    <3>1. status = "deleting" /\ phase = "decommissioning" /\ orphans = {}
      BY <1>1, <2>1, CloudMoves DEF Proceeds, Breaks, TearOrder, DrainOrder
    <3>2. Standing' = {} /\ orphans' = Standing
      BY <1>1, <2>1, <3>1, CloudMoves DEF Becomes, Standing
    <3>3. UNCHANGED <<phase, pc, gaveUp, recreated>>
      BY <1>1, <2>1, CloudMoves DEF Becomes, drain
    <3>4. DrainIsThorough'
      BY <3>1, <3>2, <3>3 DEF DrainOrder, DrainIsThorough
    <3>5. pc \notin {"deleteRepo", "forget"}
      BY <3>1 DEF TearOrder, Emptying
    <3> QED
      BY <2>1, <3>1, <3>2, <3>3, <3>4, <3>5 DEF DrainOrder
  <2>2. CASE status' # "absent"
    <3>1. UNCHANGED <<services, orphans, listed, gaveUp, recreated, phase, pc>>
      BY <1>1, <2>2, CloudMoves DEF Becomes, drain
    <3>2. /\ status # "absent" /\ status' # "deleting"
          /\ status' \in {"requested", "creating"} => status \in {"requested", "creating"}
      BY <1>1, <2>2, CloudMoves DEF Proceeds, Breaks
    <3>3. orphans = {} /\ Standing' = Standing
      BY <3>1, <3>2 DEF DrainOrder, Standing
    <3> QED
      BY <2>2, <3>1, <3>2, <3>3 DEF DrainOrder, DrainIsThorough
  <2> QED
    BY <2>1, <2>2
<1>2. CASE ControllerStops
  BY <1>2 DEF ControllerStops, DrainOrder, DrainIsThorough, Standing, drain
<1>3. ASSUME NEW s \in Services, ServiceGoes(s)
      PROVE  DrainOrder'
  <2>1. Standing' \subseteq Standing
    BY <1>3 DEF ServiceGoes, Typed, TypeOK, Standing
  <2> QED
    BY <1>3, <2>1 DEF ServiceGoes, DrainOrder, DrainIsThorough, drain
<1>4. ASSUME NEW s \in Services, Sync(s)
      PROVE  DrainOrder'
  <2>1. Standing' \subseteq Standing \cup {s} /\ recreated' = recreated \cup {s}
    BY <1>4 DEF Sync, Typed, TypeOK, Standing
  <2>2. /\ status \in {"active", "updating"} /\ orphans = {}
        /\ UNCHANGED <<status, orphans, phase, pc, listed, gaveUp>>
    BY <1>4 DEF Sync, Reachable, DrainOrder
  <2> QED
    BY <2>1, <2>2 DEF DrainOrder, DrainIsThorough
<1> QED
  BY <1>1, <1>2, <1>3, <1>4 DEF Environment

LEMMA DrainOrderNext ==
  Typed /\ BuildOrder /\ TearOrder /\ DrainOrder /\ [Next]_vars => DrainOrder'
<1> SUFFICES ASSUME Typed, BuildOrder, TearOrder, DrainOrder, [Next]_vars
             PROVE  DrainOrder'
  OBVIOUS
<1>1. CASE StartApply
  <2>1. pc' \in {"ensureNetwork", "seed", "install", "record"} /\ phase # "decommissioning"
    BY <1>1, StartsBuilding
  <2>2. orphans = {}
    BY <2>1 DEF DrainOrder
  <2> QED
    BY <1>1, <2>1, <2>2, DrainOrderKept DEF StartApply, world, drain, Draining
<1>2. CASE StartDelete
  BY <1>2 DEF StartDelete, Goto, world, drain, DrainOrder, DrainIsThorough, Standing
<1>3. CASE RunStops \/ DeadlinePasses \/ AllOver \/ UNCHANGED vars
  BY <1>3, DrainOrderKept
     DEF RunStops, DeadlinePasses, AllOver, vars, End, world, drain, Draining
<1> QED
  BY <1>1, <1>2, <1>3, DrainOrderBuilds, DrainOrderDrains, DrainOrderTears,
     DrainOrderElsewhere
     DEF Next, Run, TearDown

LEMMA DrainOrderInvariant == Sequential /\ Spec => []DrainOrder
<1>1. Init => DrainOrder
  BY DEF Init, DrainOrder, DrainIsThorough, Standing
<1>2. DrainOrder /\ Typed /\ BuildOrder /\ TearOrder /\ [Next]_vars => DrainOrder'
  BY DrainOrderNext
<1> QED
  BY <1>1, <1>2, TypeInvariant, BuildOrderInvariant, TearOrderInvariant, PTL DEF Spec

\* A load balancer outlives its cluster only if the drain before it was
\* skipped, timed out, or could not stop Argo CD, or if Argo CD created its
\* Service after the drain had listed them (drainLoadBalancers).
THEOREM OrphansAreKnown == Sequential /\ Spec => []DrainIsThorough
<1>1. DrainOrder => DrainIsThorough
  BY DEF DrainOrder
<1> QED
  BY <1>1, DrainOrderInvariant, PTL
=============================================================================
