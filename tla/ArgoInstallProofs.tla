-------------------------- MODULE ArgoInstallProofs --------------------------
(***************************************************************************)
(* Theorems about ArgoInstall, for every set of versions, and however often *)
(* the profile changes, calls fail and runs are killed.                     *)
(***************************************************************************)
EXTENDS ArgoInstall, SequenceTheorems, TLAPS
-----------------------------------------------------------------------------
(* Histories *)

Revisions == [status : Statuses, version : Versions]

DeployedIn(h) == {i \in 1..Len(h) : h[i].status = "deployed"}

\* Helm adds a revision.
LEMMA Extended ==
  ASSUME NEW h \in Seq(Revisions), NEW e \in Revisions, e.status # "deployed"
  PROVE  /\ Append(h, e) \in Seq(Revisions) /\ Append(h, e) # <<>>
         /\ Append(h, e)[Len(Append(h, e))] = e
         /\ DeployedIn(Append(h, e)) = DeployedIn(h)
<1>1. Len(h) \in Nat
  BY LenProperties
<1>2. /\ Append(h, e) \in Seq(Revisions) /\ Append(h, e) # <<>>
      /\ Len(Append(h, e)) = Len(h) + 1
      /\ \A i \in 1..Len(h) : Append(h, e)[i] = h[i]
      /\ Append(h, e)[Len(h) + 1] = e
  BY AppendProperties
<1>3. ASSUME NEW i \in 1..(Len(h) + 1)
      PROVE  i \in DeployedIn(Append(h, e)) <=> i \in DeployedIn(h)
  <2>1. CASE i = Len(h) + 1
    BY <1>1, <1>2, <2>1 DEF DeployedIn
  <2>2. CASE i \in 1..Len(h)
    BY <1>1, <1>2, <2>2 DEF DeployedIn
  <2> QED
    BY <1>1, <2>1, <2>2
<1>4. DeployedIn(h) \subseteq 1..(Len(h) + 1) /\ DeployedIn(Append(h, e)) \subseteq 1..(Len(h) + 1)
  BY <1>1, <1>2 DEF DeployedIn
<1> QED
  BY <1>2, <1>3, <1>4

\* Helm rewrites revisions in place.
LEMMA Rewritten ==
  ASSUME NEW h \in Seq(Revisions), NEW g, g = [i \in DOMAIN h |-> g[i]],
         \A i \in DOMAIN h : g[i] \in Revisions
  PROVE  /\ g \in Seq(Revisions) /\ Len(g) = Len(h)
         /\ h # <<>> => g # <<>>
<1>1. Len(h) \in Nat /\ DOMAIN h = 1..Len(h)
  BY LenProperties
<1>2. g \in [1..Len(h) -> Revisions]
  BY <1>1
<1>3. g \in Seq(Revisions)
  BY <1>1, <1>2, SeqDef
<1>4. Len(g) \in Nat /\ DOMAIN g = 1..Len(g)
  BY <1>3, LenProperties
<1>5. Len(g) = Len(h)
  BY <1>1, <1>2, <1>4
<1>6. h # <<>> => g # <<>>
  BY <1>5, EmptySeq
<1> QED
  BY <1>3, <1>5, <1>6

\* The latest revision of a history.
LEMMA LatestTyped ==
  ASSUME NEW h \in Seq(Revisions), h # <<>>
  PROVE  /\ Len(h) \in Nat \ {0} /\ Len(h) \in 1..Len(h) /\ DOMAIN h = 1..Len(h)
         /\ h[Len(h)] \in Revisions
<1>1. Len(h) \in Nat \ {0}
  BY EmptySeq
<1>2. DOMAIN h = 1..Len(h)
  BY LenProperties
<1> QED
  BY <1>1, <1>2, ElementOfSeq

\* A status an action of Helm gives the revision it deploys.
LEMMA PendingTyped ==
  /\ Pending = {"pending-install", "pending-upgrade", "pending-rollback"}
  /\ \A a \in HelmActions : PendingOf[a] \in Pending
BY DEF Pending, PendingOf, HelmActions
-----------------------------------------------------------------------------
(* The invariant *)

\* No two revisions are deployed.
OneDeployed == \A i, j \in DeployedIn(history) : i = j

\* In the middle of an action of Helm's, the latest revision is its own.
ActionHonest ==
  pc \in HelmActions /\ stage # "create" =>
    /\ history # <<>> /\ Latest.status = PendingOf[pc]
    /\ pc # "rollback" => Latest.version = wanted
    /\ stage \in {"supersede", "record"} => live = Latest.version
    /\ pc = "install" \/ stage = "record" => DeployedIn(history) = {}

\* What releaseExists and upToDate found when they chose the action.
ChoiceHonest ==
  /\ pc = "install" /\ stage = "create" => history = <<>>
  /\ pc = "check" \/ (pc = "upgrade" /\ stage = "create") =>
       history # <<>> /\ Latest.status \notin Pending
  /\ pc = "rollback" /\ stage = "create" => DeployedIn(history) # {}
  /\ pc \in UninstallSteps => history # <<>> /\ DeployedIn(history) = {}

\* If the latest revision is deployed, its manifests are in the cluster.
LatestRuns == history # <<>> /\ Latest.status = "deployed" => live = Latest.version

\* Manifests of some version are in the cluster if any revision is deployed.
SomethingRuns == DeployedIn(history) # {} => live # "none"

Inv == /\ TypeOK /\ OneDeployed /\ ActionHonest /\ ChoiceHonest
       /\ LatestRuns /\ SomethingRuns /\ InstalledMeansLive

\* The revision lastDeployedRevision finds.
LEMMA LastDeployedFound ==
  ASSUME TypeOK, OneDeployed, DeployedIn(history) # {}
  PROVE  /\ LastDeployedRevision \in DeployedIn(history)
         /\ LastDeployedRevision # 0
         /\ history[LastDeployedRevision] \in Revisions
<1>1. PICK i \in DeployedIn(history) : \A j \in DeployedIn(history) : j = i
  BY DEF OneDeployed
<1>2. i \in 1..Len(history) /\ Len(history) \in Nat
  BY LenProperties DEF DeployedIn, TypeOK
<1>3. \A j \in DeployedIn(history) : j <= i
  BY <1>1, <1>2
<1>4. LastDeployedRevision \in DeployedIn(history)
  BY <1>1, <1>3 DEF LastDeployedRevision, DeployedIn
<1>5. LastDeployedRevision = i
  BY <1>1, <1>4
<1>6. history \in Seq(Revisions)
  BY DEF TypeOK, Revisions
<1>7. history[i] \in Revisions
  BY <1>2, <1>6, ElementOfSeq
<1> QED
  BY <1>2, <1>4, <1>5, <1>7

LEMMA NoneDeployed ==
  ASSUME TypeOK, DeployedIn(history) = {}
  PROVE  LastDeployedRevision = 0
BY DEF LastDeployedRevision, DeployedIn

LEMMA InvInit == Init => Inv
<1> SUFFICES ASSUME Init PROVE Inv
  OBVIOUS
<1>1. history = <<>> /\ history \in Seq(Revisions) /\ DeployedIn(history) = {}
  BY EmptySeq DEF Init, DeployedIn
<1>2. changes \in 0..MaxChanges /\ faults \in 0..MaxFaults
  BY ArgoAssumption DEF Init
<1>3. history \in Seq([status : Statuses, version : Versions])
  BY <1>1 DEF Revisions
<1>4. TypeOK
  BY <1>2, <1>3 DEF Init, TypeOK, Stages
<1> QED
  BY <1>1, <1>4 DEF Init, Inv, OneDeployed, ActionHonest, ChoiceHonest, LatestRuns,
     SomethingRuns, InstalledMeansLive, HelmActions, UninstallSteps
-----------------------------------------------------------------------------
(* Every step keeps it *)

Helms == <<history, live, wanted, pc, stage>>

\* What the invariant says of more than types does not depend on the rest.
Meaning == OneDeployed /\ ActionHonest /\ ChoiceHonest /\ LatestRuns /\ SomethingRuns
           /\ InstalledMeansLive

\* A step that leaves Helm alone, and is between two of Install's choices.
LEMMA NotHelm ==
  ASSUME Inv, UNCHANGED <<history, live>>, pc' \notin HelmActions \cup UninstallSteps,
         pc' # "check",
         pc' \in {"credentials", "root", "commit"} => wanted' = wanted /\ InstalledMeansLive'
  PROVE  Meaning'
BY DEF Inv, Meaning, OneDeployed, ActionHonest, ChoiceHonest, LatestRuns, SomethingRuns,
   InstalledMeansLive, DeployedIn, Latest, HelmActions, UninstallSteps

\* releaseExists and upToDate.
LEMMA InvChoice ==
  ASSUME Inv, StartApply \/ ReleaseExists \/ Check \/ CheckUnreadable
  PROVE  Inv'
<1> USE DEF Goto, cluster, mapper
<1>1. CASE StartApply
  <2>1. changes' \in 0..MaxChanges
    BY <1>1, ArgoAssumption DEF StartApply, Inv, TypeOK
  <2>2. TypeOK'
    BY <1>1, <2>1 DEF StartApply, Inv, TypeOK
  <2>3. Meaning'
    BY <1>1, NotHelm DEF StartApply, HelmActions, UninstallSteps
  <2> QED
    BY <2>2, <2>3 DEF Inv, Meaning
<1>2. CASE ReleaseExists
  <2>1. /\ UNCHANGED <<cluster, phase, wanted, mapper, changes, faults, outcome>>
        /\ stage' = "create"
        /\ \/ pc' = "install" /\ history = <<>>
           \/ pc' = "check" /\ history # <<>> /\ Latest.status \notin Pending
           \/ pc' = "uninstall" /\ history # <<>> /\ LastDeployedRevision = 0
           \/ pc' = "rollback" /\ LastDeployedRevision # 0
    BY <1>2 DEF ReleaseExists
  <2>2. TypeOK'
    BY <2>1 DEF Inv, TypeOK, HelmActions, UninstallSteps, Stages
  <2>3. LastDeployedRevision = 0 <=> DeployedIn(history) = {}
    BY LastDeployedFound, NoneDeployed DEF Inv
  <2> QED
    BY <2>1, <2>2, <2>3 DEF Inv, OneDeployed, ActionHonest, ChoiceHonest, LatestRuns,
       SomethingRuns, InstalledMeansLive, DeployedIn, Latest, HelmActions, UninstallSteps
<1>3. CASE Check \/ CheckUnreadable
  <2>1. /\ UNCHANGED <<cluster, phase, wanted, mapper, changes, outcome>>
        /\ stage' = "create" /\ pc = "check"
        /\ \/ pc' = "upgrade"
           \/ pc' \in {"credentials", "commit"} /\ Latest = Revision("deployed", wanted)
    BY <1>3 DEF Check, CheckUnreadable, AfterInstall, UpToDate
  <2>2. faults' \in 0..MaxFaults
    BY <1>3, ArgoAssumption DEF Check, CheckUnreadable, Fault, Inv, TypeOK
  <2>3. TypeOK'
    BY <2>1, <2>2 DEF Inv, TypeOK, HelmActions, Stages
  <2>4. history # <<>> /\ Latest.status \notin Pending
    BY <2>1 DEF Inv, ChoiceHonest
  <2>5. Latest = Revision("deployed", wanted) => live = wanted
    BY <2>4 DEF Inv, LatestRuns, Revision
  <2> QED
    BY <2>1, <2>3, <2>4, <2>5 DEF Inv, OneDeployed, ActionHonest, ChoiceHonest, LatestRuns,
       SomethingRuns, InstalledMeansLive, DeployedIn, Latest, HelmActions, UninstallSteps
<1> QED
  BY <1>1, <1>2, <1>3

\* The manifests after Install, and everything that ends a run.
LEMMA InvElsewhere ==
  ASSUME Inv, \/ Manifests \/ DeadlinePasses \/ CallFails \/ HelmRefuses
              \/ Established \/ UNCHANGED vars
  PROVE  Inv'
<1> USE DEF Goto, End, cluster, mapper
<1>1. CASE Manifests
  <2>1. /\ UNCHANGED <<history, live, wanted>> /\ stage' = "create"
        /\ pc \in {"credentials", "root", "commit"}
        /\ pc' \in {"idle", "root", "commit"}
    BY <1>1 DEF Manifests, ApplyCredentials, ApplyRoot, NoMatch, Commit, NextManifest
  <2>2. TypeOK'
    BY <1>1, <2>1 DEF Manifests, ApplyCredentials, ApplyRoot, NoMatch, Commit, Reset,
       Inv, TypeOK, Stages
  <2>3. InstalledMeansLive'
    BY <2>1 DEF Inv, InstalledMeansLive, Latest
  <2>4. Meaning'
    BY <2>1, <2>3, NotHelm DEF HelmActions, UninstallSteps
  <2> QED
    BY <2>2, <2>4 DEF Inv, Meaning
<1>2. CASE CallFails \/ HelmRefuses
  <2>1. UNCHANGED <<history, live>> /\ pc' = "idle" /\ stage' = "create" /\ outcome' = "error"
    BY <1>2 DEF CallFails, HelmRefuses
  <2>2. faults' \in 0..MaxFaults
    BY <1>2, ArgoAssumption DEF CallFails, HelmRefuses, Fault, Inv, TypeOK
  <2>3. TypeOK'
    BY <1>2, <2>1, <2>2 DEF CallFails, HelmRefuses, Inv, TypeOK, Stages
  <2>4. Meaning'
    BY <2>1, NotHelm DEF HelmActions, UninstallSteps
  <2> QED
    BY <2>3, <2>4 DEF Inv, Meaning
<1>3. CASE DeadlinePasses \/ Established \/ UNCHANGED vars
  <2>1. UNCHANGED Helms
    BY <1>3 DEF DeadlinePasses, Established, vars, Helms
  <2>2. TypeOK'
    <3>1. CASE DeadlinePasses
      BY <3>1 DEF DeadlinePasses, Inv, TypeOK
    <3>2. CASE Established
      BY <3>2 DEF Established, Inv, TypeOK
    <3>3. CASE UNCHANGED vars
      BY <3>3 DEF vars, Inv, TypeOK
    <3> QED
      BY <1>3, <3>1, <3>2, <3>3
  <2> QED
    BY <2>1, <2>2 DEF Helms, Inv, OneDeployed, ActionHonest, ChoiceHonest, LatestRuns,
       SomethingRuns, InstalledMeansLive, DeployedIn, Latest
<1> QED
  BY <1>1, <1>2, <1>3

\* A revision is added, and its manifests submitted.
LEMMA InvDeploys ==
  ASSUME Inv, HelmCreates \/ HelmSubmits
  PROVE  Inv'
<1>1. CASE HelmCreates
  <2> DEFINE e == Revision(PendingOf[pc], Target)
  <2>1. pc \in HelmActions /\ pc' = pc /\ stage = "create" /\ stage' = "submit"
    BY <1>1 DEF HelmCreates
  <2>2. history \in Seq(Revisions)
    BY DEF Inv, TypeOK, Revisions
  <2>3. Target \in Versions
    <3>1. CASE pc = "rollback"
      <4>1. DeployedIn(history) # {}
        BY <2>1, <3>1 DEF Inv, ChoiceHonest
      <4>2. history[LastDeployedRevision] \in Revisions
        BY <4>1, LastDeployedFound DEF Inv
      <4> QED
        BY <3>1, <4>2 DEF Target, Revisions
    <3>2. CASE pc # "rollback"
      BY <3>2 DEF Target, Inv, TypeOK
    <3> QED
      BY <3>1, <3>2
  <2>4. PendingOf[pc] \in Pending /\ PendingOf[pc] # "deployed" /\ PendingOf[pc] \in Statuses
    BY <2>1, PendingTyped DEF Statuses
  <2>5. e \in Revisions /\ e.status = PendingOf[pc] /\ e.version = Target
    BY <2>3, <2>4 DEF Revision, Revisions
  <2>6. history' = Append(history, e)
    BY <1>1 DEF HelmCreates
  <2>7. /\ history' \in Seq(Revisions) /\ history' # <<>>
        /\ history'[Len(history')] = e
        /\ DeployedIn(history') = DeployedIn(history)
    BY <2>2, <2>4, <2>5, <2>6, Extended
  <2>8. TypeOK'
    BY <1>1, <2>7 DEF HelmCreates, Inv, TypeOK, Revisions, Stages, mapper
  <2>9. OneDeployed' /\ SomethingRuns'
    BY <1>1, <2>7 DEF HelmCreates, Inv, OneDeployed, SomethingRuns
  <2>10. ActionHonest'
    <3>1. pc = "install" => DeployedIn(history) = {}
      BY <2>1, <2>2, LenProperties DEF Inv, ChoiceHonest, DeployedIn
    <3>2. pc # "rollback" => Target = wanted' 
      BY <1>1 DEF HelmCreates, Target
    <3> QED
      BY <2>1, <2>5, <2>7, <3>1, <3>2 DEF ActionHonest, Latest
  <2>11. ChoiceHonest' /\ InstalledMeansLive' /\ LatestRuns'
    BY <2>1, <2>4, <2>5, <2>7 DEF ChoiceHonest, InstalledMeansLive, LatestRuns, Latest,
       HelmActions, UninstallSteps
  <2> QED
    BY <2>8, <2>9, <2>10, <2>11 DEF Inv
<1>2. CASE HelmSubmits
  <2>1. pc \in HelmActions /\ stage = "submit" /\ pc' = pc /\ history' = history
    BY <1>2 DEF HelmSubmits
  <2>2. history # <<>> /\ Latest.status = PendingOf[pc]
    BY <2>1 DEF Inv, ActionHonest
  <2>3. Latest \in Revisions
    BY <2>2, LatestTyped DEF Latest, Inv, TypeOK, Revisions
  <2>4. Latest.version \in Versions /\ Latest.version # "none" /\ Latest.status # "deployed"
    BY <2>1, <2>2, <2>3, ArgoAssumption, PendingTyped DEF Revisions
  <2>5. TypeOK'
    BY <1>2, <2>1, <2>4 DEF HelmSubmits, Inv, TypeOK, Stages, mapper
  <2>6. SomethingRuns' /\ LatestRuns' /\ OneDeployed'
    BY <1>2, <2>1, <2>4 DEF HelmSubmits, Inv, SomethingRuns, LatestRuns, OneDeployed, Latest,
       DeployedIn
  <2>7. ActionHonest' /\ ChoiceHonest' /\ InstalledMeansLive'
    BY <1>2, <2>1, <2>4 DEF HelmSubmits, Inv, ActionHonest, ChoiceHonest,
       InstalledMeansLive, Latest, DeployedIn, HelmActions, UninstallSteps
  <2> QED
    BY <2>5, <2>6, <2>7 DEF Inv
<1> QED
  BY <1>1, <1>2

\* What rewriting in place leaves of the deployed revisions.
LEMMA FewerDeployed ==
  ASSUME NEW h \in Seq(Revisions), NEW g \in Seq(Revisions), Len(g) = Len(h),
         \A i \in 1..Len(h) : g[i].status = "deployed" => h[i].status = "deployed"
  PROVE  DeployedIn(g) \subseteq DeployedIn(h)
BY DEF DeployedIn

\* An action fails.
LEMMA InvFails ==
  ASSUME Inv, HelmFails
  PROVE  Inv'
<1>1. /\ pc \in HelmActions /\ stage = "submit" /\ live' \in {live, "mixed"}
      /\ pc' = "idle" /\ stage' = "create" /\ outcome' = "error"
  BY DEF HelmFails, End
<1>2. history \in Seq(Revisions) /\ history # <<>>
  BY <1>1 DEF Inv, TypeOK, ActionHonest, Revisions
<1>3. /\ history' = [i \in DOMAIN history |-> history'[i]]
      /\ \A i \in DOMAIN history : history'[i] \in
           {history[i], [history[i] EXCEPT !.status = "failed"],
            [history[i] EXCEPT !.status = "superseded"]}
      /\ history'[Len(history)] = [history[Len(history)] EXCEPT !.status = "failed"]
  <2>1. /\ Len(history) \in DOMAIN history
        /\ history' = [i \in DOMAIN history |->
             CASE i = Len(history) -> [history[i] EXCEPT !.status = "failed"]
               [] i = Len(history) - 1 /\ pc = "rollback" ->
                    [history[i] EXCEPT !.status = "superseded"]
               [] OTHER -> history[i]]
    BY <1>2, LatestTyped DEF HelmFails
  <2>2. Len(history) \in Nat
    BY <1>2, LenProperties
  <2>3. ASSUME NEW i \in DOMAIN history
        PROVE  /\ history'[i] \in {history[i], [history[i] EXCEPT !.status = "failed"],
                                   [history[i] EXCEPT !.status = "superseded"]}
               /\ i = Len(history) => history'[i] = [history[i] EXCEPT !.status = "failed"]
    <3>1. CASE i = Len(history)
      BY <2>1, <3>1
    <3>2. CASE i # Len(history)
      BY <2>1, <2>2, <3>2
    <3> QED
      BY <3>1, <3>2
  <2> QED
    BY <2>1, <2>3
<1>4. \A i \in DOMAIN history : history'[i] \in Revisions
                               /\ (history'[i].status = "deployed" => history[i].status = "deployed")
  <2> SUFFICES ASSUME NEW i \in DOMAIN history
               PROVE  history'[i] \in Revisions
                      /\ (history'[i].status = "deployed" => history[i].status = "deployed")
    OBVIOUS
  <2>1. history[i] \in Revisions
    BY <1>2, LenProperties, ElementOfSeq
  <2> QED
    BY <1>3, <2>1 DEF Revisions, Statuses
<1>5. history' \in Seq(Revisions) /\ Len(history') = Len(history) /\ history' # <<>>
  BY <1>2, <1>3, <1>4, Rewritten
<1>6. DeployedIn(history') \subseteq DeployedIn(history)
  BY <1>2, <1>4, <1>5, LenProperties, FewerDeployed
<1>7. Latest'.status = "failed"
  BY <1>2, <1>3, <1>5, LatestTyped DEF Latest, Revisions
<1>8. faults' \in 0..MaxFaults
  BY ArgoAssumption DEF HelmFails, Fault, Inv, TypeOK
<1>9. TypeOK'
  BY <1>1, <1>5, <1>8 DEF HelmFails, Inv, TypeOK, Stages, Revisions, mapper
<1>10. OneDeployed' /\ SomethingRuns'
  BY <1>1, <1>6 DEF Inv, OneDeployed, SomethingRuns
<1>11. LatestRuns' /\ ActionHonest' /\ ChoiceHonest' /\ InstalledMeansLive'
  BY <1>1, <1>7 DEF LatestRuns, ActionHonest, ChoiceHonest, InstalledMeansLive, HelmActions,
     UninstallSteps
<1> QED
  BY <1>9, <1>10, <1>11 DEF Inv

\* The process is killed.
LEMMA InvKilled ==
  ASSUME Inv, Killed
  PROVE  Inv'
<1>1. /\ pc' = "idle" /\ stage' = "create" /\ outcome' = "stopped" /\ history' = history
      /\ live' # live => live' = "mixed" /\ pc \in HelmActions /\ stage = "submit"
  BY DEF Killed, End
<1>2. faults' \in 0..MaxFaults
  BY ArgoAssumption DEF Killed, Fault, Inv, TypeOK
<1>3. TypeOK'
  BY <1>1, <1>2 DEF Killed, Inv, TypeOK, Stages, mapper
<1>4. live' # live => history # <<>> /\ Latest.status # "deployed"
  BY <1>1, PendingTyped DEF Inv, ActionHonest, Pending
<1>5. Latest' = Latest /\ DeployedIn(history') = DeployedIn(history)
  BY <1>1 DEF Latest
<1>6. OneDeployed' /\ SomethingRuns'
  BY <1>1, <1>5 DEF Inv, OneDeployed, SomethingRuns
<1>7. LatestRuns'
  BY <1>1, <1>4, <1>5 DEF Inv, LatestRuns
<1>8. ActionHonest' /\ ChoiceHonest' /\ InstalledMeansLive'
  BY <1>1 DEF ActionHonest, ChoiceHonest, InstalledMeansLive, HelmActions, UninstallSteps
<1> QED
  BY <1>3, <1>6, <1>7, <1>8 DEF Inv

\* What an upgrade replaces is in the history.
LEMMA OriginalBound ==
  ASSUME NEW h \in Seq(Revisions), \A i, j \in DeployedIn(h) : i = j
  PROVE  Original(h) \in 0..Len(h)
<1>1. Len(h) \in Nat
  BY LenProperties
<1>2. CASE DeployedIn(h) # {}
  <2>1. PICK i \in DeployedIn(h) : DeployedIn(h) = {i}
    BY <1>2
  <2>2. i \in 1..Len(h)
    BY DEF DeployedIn
  <2>3. Original(h) = i
    BY <1>1, <2>1, <2>2 DEF Original, DeployedIn
  <2> QED
    BY <1>1, <2>2, <2>3
<1>3. CASE DeployedIn(h) = {}
  BY <1>1, <1>3 DEF Original, DeployedIn
<1> QED
  BY <1>2, <1>3

\* What a rollback supersedes, and what an upgrade does, is all that was deployed.
LEMMA AllSuperseded ==
  ASSUME Inv, HelmSupersedes
  PROVE  DeployedIn(history') = {}
<1>0. pc \in HelmActions
  BY DEF HelmSupersedes
<1>1. /\ pc \in HelmActions /\ stage = "supersede"
      /\ history' = [i \in DOMAIN history |->
           IF \/ pc = "rollback" /\ history[i].status = "deployed"
              \/ pc = "upgrade" /\ i = Original(SubSeq(history, 1, Len(history) - 1))
             THEN [history[i] EXCEPT !.status = "superseded"] ELSE history[i]]
  BY DEF HelmSupersedes
<1>2. history \in Seq(Revisions) /\ history # <<>> /\ Latest.status = PendingOf[pc]
  BY <1>1 DEF Inv, TypeOK, ActionHonest, Revisions
<1>3. /\ Len(history) \in Nat \ {0} /\ DOMAIN history = 1..Len(history)
      /\ \A i \in 1..Len(history) : history[i] \in Revisions
  BY <1>2, LatestTyped, ElementOfSeq
<1>4. \A i \in DOMAIN history : history'[i].status # "deployed"
  <2> SUFFICES ASSUME NEW i \in DOMAIN history, history[i].status = "deployed"
               PROVE  history'[i].status # "deployed"
    BY <1>1, <1>3 DEF Revisions
  <2>1. CASE pc = "rollback"
    BY <1>1, <1>3, <2>1 DEF Revisions
  <2>2. CASE pc = "upgrade"
    <3> DEFINE s == SubSeq(history, 1, Len(history) - 1)
    <3>1. i \in 1..(Len(history) - 1)
      <4>1. i # Len(history)
        BY <1>2, <2>2, PendingTyped DEF Latest, HelmActions, Pending
      <4> QED
        BY <1>3, <4>1
    <3>2. Len(s) = Len(history) - 1 /\ \A j \in 1..(Len(history) - 1) : s[j] = history[j]
      BY <1>3, SubSeqProperties
    <3>3. \A j \in 1..Len(s) : s[j].status = "deployed" => j = i
      BY <1>3, <3>1, <3>2 DEF Inv, OneDeployed, DeployedIn
    <3>4. i \in 1..Len(s) /\ s[i].status = "deployed"
      BY <3>1, <3>2
    <3>5. {j \in 1..Len(s) : s[j].status = "deployed"} = {i}
      BY <3>3, <3>4
    <3>6. Original(s) = i
      BY <1>3, <3>1, <3>5 DEF Original
    <3> QED
      BY <1>1, <1>3, <2>2, <3>6 DEF Revisions
  <2>3. CASE pc = "install"
    <3>1. DeployedIn(history) = {}
      BY <1>0, <1>1, <2>3 DEF Inv, ActionHonest
    <3> QED
      BY <1>3, <3>1 DEF DeployedIn
  <2> QED
    BY <1>0, <2>1, <2>2, <2>3 DEF HelmActions
<1>5. history' \in Seq(Revisions) /\ Len(history') = Len(history)
  <2>1. \A i \in DOMAIN history : history'[i] \in Revisions
    BY <1>1, <1>3 DEF Revisions, Statuses
  <2>2. history' = [i \in DOMAIN history |-> history'[i]]
    BY <1>1
  <2> QED
    BY <1>2, <2>1, <2>2, Rewritten
<1> QED
  BY <1>3, <1>4, <1>5 DEF DeployedIn

\* The revision an action replaces is superseded, its own recorded.
LEMMA InvRecords ==
  ASSUME Inv, HelmSupersedes \/ HelmRecords
  PROVE  Inv'
<1>1. /\ pc \in HelmActions /\ stage # "create" /\ history # <<>>
      /\ Latest.status = PendingOf[pc] /\ live = Latest.version
      /\ pc # "rollback" => Latest.version = wanted
  BY DEF HelmSupersedes, HelmRecords, Inv, ActionHonest
<1>2. history \in Seq(Revisions)
  BY DEF Inv, TypeOK, Revisions
<1>3. /\ Len(history) \in Nat \ {0} /\ DOMAIN history = 1..Len(history)
      /\ Len(history) \in 1..Len(history)
      /\ \A i \in 1..Len(history) : history[i] \in Revisions
  BY <1>1, <1>2, LatestTyped, ElementOfSeq
<1>4. CASE HelmSupersedes
  <2>1. /\ pc' = pc /\ stage = "supersede" /\ stage' = "record"
        /\ UNCHANGED <<live, served, creds, root, phase, wanted, mapper, outcome, changes, faults>>
        /\ DOMAIN history' = DOMAIN history
        /\ history' = [i \in DOMAIN history |-> history'[i]]
        /\ \A i \in DOMAIN history : history'[i] \in
             {history[i], [history[i] EXCEPT !.status = "superseded"]}
    BY <1>4 DEF HelmSupersedes
  <2>2. \A i \in DOMAIN history : history'[i] \in Revisions
    BY <1>3, <2>1 DEF Revisions, Statuses
  <2>3. history' \in Seq(Revisions) /\ Len(history') = Len(history) /\ history' # <<>>
    BY <1>1, <1>2, <2>1, <2>2, Rewritten
  <2>4. DeployedIn(history') = {}
    BY <1>4, AllSuperseded
  <2>5. Latest' = Latest
    <3> DEFINE s == SubSeq(history, 1, Len(history) - 1)
    <3>1. Original(s) # Len(history)
      <4>1. s \in Seq(Revisions) /\ Len(s) = Len(history) - 1
            /\ \A i \in 1..(Len(history) - 1) : s[i] = history[i]
        BY <1>3, SubSeqProperties
      <4>2. \A i, j \in DeployedIn(s) : i = j
        BY <1>3, <4>1 DEF Inv, OneDeployed, DeployedIn
      <4>3. Original(s) \in 0..Len(s)
        BY <4>1, <4>2, OriginalBound
      <4> HIDE DEF s
      <4> QED
        BY <1>3, <4>1, <4>3
    <3>2. Latest.status # "deployed"
      BY <1>1, PendingTyped DEF Pending
    <3>3. history'[Len(history)] = history[Len(history)]
      BY <1>3, <1>4, <3>1, <3>2 DEF HelmSupersedes, Latest
    <3> QED
      BY <2>3, <3>3 DEF Latest
  <2>6. TypeOK'
    BY <2>1, <2>3 DEF Inv, TypeOK, Stages, Revisions, mapper
  <2>7. OneDeployed' /\ SomethingRuns'
    BY <2>4 DEF OneDeployed, SomethingRuns
  <2>8. ActionHonest'
    BY <1>1, <2>1, <2>3, <2>4, <2>5 DEF ActionHonest
  <2>9. LatestRuns' /\ ChoiceHonest' /\ InstalledMeansLive'
    BY <1>1, <2>1, <2>5 DEF LatestRuns, ChoiceHonest, InstalledMeansLive, HelmActions,
       UninstallSteps
  <2> QED
    BY <2>6, <2>7, <2>8, <2>9 DEF Inv
<1>5. CASE HelmRecords
  <2>1. /\ stage = "record" /\ stage' = "create" /\ outcome' = outcome
        /\ history' = [history EXCEPT ![Len(history)].status = "deployed"]
        /\ UNCHANGED <<live, served, creds, root, phase, wanted, mapper, changes, faults>>
        /\ pc' = IF pc = "rollback" THEN "check" ELSE AfterInstall
    BY <1>5 DEF HelmRecords, Goto
  <2>2. DeployedIn(history) = {}
    BY <1>1, <2>1 DEF Inv, ActionHonest
  <2> DEFINE e == [Latest EXCEPT !.status = "deployed"]
  <2>3. /\ e \in Revisions /\ e.status = "deployed" /\ e.version = Latest.version
        /\ e = Revision("deployed", Latest.version)
    BY <1>3 DEF Latest, Revisions, Revision, Statuses
  <2>4. history' = [history EXCEPT ![Len(history)] = e]
    BY <2>1 DEF Latest
  <2>5. /\ history' \in Seq(Revisions) /\ Len(history') = Len(history)
        /\ \A j \in 1..Len(history) :
             history'[j] = IF j = Len(history) THEN e ELSE history[j]
    BY <1>2, <1>3, <2>3, <2>4, ExceptSeq
  <2>6. history' # <<>> /\ Latest' = e
    BY <1>3, <2>5, EmptySeq DEF Latest
  <2>7. DeployedIn(history') = {Len(history)}
    <3>1. \A i \in 1..Len(history) : history[i].status # "deployed"
      BY <2>2 DEF DeployedIn
    <3>2. \A i \in 1..Len(history) : history'[i].status = "deployed" <=> i = Len(history)
      BY <2>3, <2>5, <3>1
    <3> QED
      BY <1>3, <2>5, <3>2 DEF DeployedIn
  <2>8. pc' \in {"check", "credentials", "commit"} /\ (pc' # "check" => pc # "rollback")
    BY <2>1 DEF AfterInstall
  <2>9. TypeOK'
    BY <2>1, <2>5, <2>8 DEF Inv, TypeOK, Stages, Revisions, mapper
  <2>10. OneDeployed' /\ LatestRuns'
    BY <1>1, <2>1, <2>3, <2>6, <2>7 DEF OneDeployed, LatestRuns
  <2>11. SomethingRuns'
    BY <1>1, <1>3, <2>1, ArgoAssumption DEF SomethingRuns, Latest, Revisions
  <2>12. InstalledMeansLive'
    BY <1>1, <2>1, <2>3, <2>6, <2>8 DEF InstalledMeansLive
  <2>13. ActionHonest' /\ ChoiceHonest'
    BY <2>1, <2>3, <2>6, <2>8, PendingTyped DEF ActionHonest, ChoiceHonest, HelmActions,
       UninstallSteps
  <2> QED
    BY <2>9, <2>10, <2>11, <2>12, <2>13 DEF Inv
<1> QED
  BY <1>4, <1>5

\* An uninstall of a release that was never deployed.
LEMMA InvUninstalls ==
  ASSUME Inv, HelmUninstalls
  PROVE  Inv'
<1>1. /\ pc \in UninstallSteps /\ history # <<>> /\ DeployedIn(history) = {}
      /\ history \in Seq(Revisions)
      /\ UNCHANGED <<served, creds, root, phase, wanted, mapper, changes, faults>>
      /\ stage' = "create" /\ outcome' = outcome
      /\ pc' \in {"uninstalling", "purge", "install"}
      /\ live' \in {live, "none"}
  BY DEF HelmUninstalls, Goto, Inv, ChoiceHonest, TypeOK, Revisions
<1>2. /\ history' \in Seq(Revisions) /\ DeployedIn(history') = {}
      /\ pc' # "install" => history' # <<>>
      /\ pc' = "install" => history' = <<>>
  <2>1. CASE pc = "uninstall"
    <3> DEFINE e == [Latest EXCEPT !.status = "uninstalling"]
    <3>1. history' = [history EXCEPT ![Len(history)] = e] /\ pc' = "uninstalling"
      BY <2>1 DEF HelmUninstalls, Goto, Latest
    <3>2. e \in Revisions /\ e.status # "deployed" /\ Len(history) \in 1..Len(history)
      BY <1>1, LatestTyped DEF Latest, Revisions, Statuses
    <3>3. /\ history' \in Seq(Revisions) /\ Len(history') = Len(history)
          /\ \A j \in 1..Len(history) :
               history'[j] = IF j = Len(history) THEN e ELSE history[j]
      BY <1>1, <3>1, <3>2, ExceptSeq
    <3>4. history' # <<>>
      BY <3>2, <3>3, EmptySeq
    <3>5. DeployedIn(history') = {}
      BY <1>1, <3>2, <3>3 DEF DeployedIn
    <3> QED
      BY <3>1, <3>3, <3>4, <3>5
  <2>2. CASE pc = "uninstalling"
    BY <1>1, <2>2 DEF HelmUninstalls, Goto
  <2>3. CASE pc = "purge"
    <3>1. history' = <<>> /\ pc' = "install"
      BY <2>3 DEF HelmUninstalls, Goto
    <3>2. DeployedIn(history') = {}
      BY <3>1, EmptySeq DEF DeployedIn
    <3> QED
      BY <3>1, <3>2, EmptySeq
  <2> QED
    BY <1>1, <2>1, <2>2, <2>3 DEF UninstallSteps
<1>3. TypeOK'
  BY <1>1, <1>2 DEF Inv, TypeOK, Stages, HelmActions, UninstallSteps, Revisions, mapper
<1>4. OneDeployed' /\ SomethingRuns' /\ ActionHonest' /\ InstalledMeansLive'
  BY <1>1, <1>2 DEF OneDeployed, SomethingRuns, ActionHonest, InstalledMeansLive
<1>5. ChoiceHonest'
  BY <1>1, <1>2 DEF ChoiceHonest, UninstallSteps
<1>6. LatestRuns'
  <2> SUFFICES ASSUME history' # <<>>, Latest'.status = "deployed"
               PROVE  FALSE
    BY DEF LatestRuns
  <2>1. Len(history') \in 1..Len(history')
    BY <1>2, LatestTyped
  <2> QED
    BY <1>2, <2>1 DEF DeployedIn, Latest
<1> QED
  BY <1>3, <1>4, <1>5, <1>6 DEF Inv

LEMMA InvNext == Inv /\ [Next]_vars => Inv'
<1> SUFFICES ASSUME Inv, [Next]_vars PROVE Inv'
  OBVIOUS
<1>1. CASE StartApply \/ ReleaseExists \/ Check \/ CheckUnreadable
  BY <1>1, InvChoice
<1>2. CASE \/ Manifests \/ DeadlinePasses \/ CallFails \/ HelmRefuses
           \/ Established \/ UNCHANGED vars
  BY <1>2, InvElsewhere
<1>3. CASE HelmCreates \/ HelmSubmits
  BY <1>3, InvDeploys
<1>4. CASE HelmFails
  BY <1>4, InvFails
<1>5. CASE Killed
  BY <1>5, InvKilled
<1>6. CASE HelmSupersedes \/ HelmRecords
  BY <1>6, InvRecords
<1>7. CASE HelmUninstalls
  BY <1>7, InvUninstalls
<1> QED
  BY <1>1, <1>2, <1>3, <1>4, <1>5, <1>6, <1>7 DEF Next, Install

LEMMA Invariant == Spec => []Inv
BY InvInit, InvNext, PTL DEF Spec
-----------------------------------------------------------------------------
(* The theorems *)

\* Every variable keeps its type, however long the history grows.
THEOREM ArgoTyped == Spec => []TypeOK
BY Invariant, PTL DEF Inv

\* However many runs were killed or failed on the way, past Install the
\* cluster runs the version the profile asks for.
THEOREM InstalledRuns == Spec => []InstalledMeansLive
BY Invariant, PTL DEF Inv

\* No recovery takes down a release while a revision says it is deployed.
THEOREM DeployedStays == Spec => []DeployedKeepsRunning
<1>1. Inv => DeployedKeepsRunning
  <2> SUFFICES ASSUME Inv, NEW i \in DOMAIN history, history[i].status = "deployed"
               PROVE  live # "none"
    BY DEF DeployedKeepsRunning
  <2>1. i \in DeployedIn(history)
    BY LenProperties DEF DeployedIn, Inv, TypeOK
  <2> QED
    BY <2>1 DEF Inv, SomethingRuns
<1> QED
  BY <1>1, Invariant, PTL

\* Install always picks an action of Helm that Helm accepts, unless an
\* uninstall was interrupted.
THEOREM ChoicesAccepted == Spec => []NeverRefused
<1>1. Inv => NeverRefused
  <2> SUFFICES ASSUME Inv, pc \in HelmActions, stage = "create", ~Stuck
               PROVE  Accepts(pc)
    BY DEF NeverRefused
  <2>1. CASE pc = "install"
    BY <2>1 DEF Inv, ChoiceHonest, Accepts
  <2>2. CASE pc = "rollback"
    BY <2>2, LastDeployedFound DEF Inv, ChoiceHonest, Accepts
  <2>3. CASE pc = "upgrade"
    <3>1. history # <<>> /\ Latest.status \notin Pending
      BY <2>3 DEF Inv, ChoiceHonest
    <3>2. history \in Seq(Revisions)
      BY DEF Inv, TypeOK, Revisions
    <3>3. Len(history) \in Nat \ {0} /\ Latest \in Revisions
      BY <3>1, <3>2, LatestTyped DEF Latest
    <3>4. Latest.status \in {"deployed", "superseded", "failed"}
      BY <3>1, <3>3 DEF Stuck, Revisions, Statuses
    <3>5. CASE DeployedIn(history) # {}
      <4>1. Original(history) = LastDeployedRevision
        BY <3>5 DEF Original, LastDeployedRevision, DeployedIn
      <4> QED
        BY <2>3, <3>1, <3>5, <4>1, LastDeployedFound DEF Inv, Accepts
    <3>6. CASE DeployedIn(history) = {}
      <4>1. Latest.status # "deployed"
        BY <3>3, <3>6 DEF DeployedIn, Latest
      <4>2. Original(history) = Len(history)
        BY <3>1, <3>4, <3>6, <4>1 DEF Original, DeployedIn, Latest
      <4> QED
        BY <2>3, <3>1, <3>3, <4>2 DEF Accepts
    <3> QED
      BY <3>5, <3>6
  <2> QED
    BY <2>1, <2>2, <2>3 DEF HelmActions
<1> QED
  BY <1>1, Invariant, PTL
-----------------------------------------------------------------------------
(* restMapping *)

\* While the kinds of the root Application are looked for, the mapper remembers
\* nothing: the lookup that comes next asks the API server.
CacheClear == pc = "root" => cached = "empty"

LEMMA CacheStaysClear == CacheClear /\ [Next]_vars => CacheClear'
<1> SUFFICES ASSUME CacheClear, [Next]_vars, pc' = "root"
             PROVE  cached' = "empty"
  BY DEF CacheClear
<1>1. CASE ApplyCredentials \/ ApplyRoot \/ NoMatch
  BY <1>1 DEF ApplyCredentials, ApplyRoot, NoMatch, Reset
<1>2. CASE DeadlinePasses \/ Established \/ UNCHANGED vars
  BY <1>2 DEF DeadlinePasses, Established, vars, mapper, CacheClear
<1>3. CASE StartApply \/ Commit \/ CallFails \/ Killed
  BY <1>3 DEF StartApply, Commit, CallFails, Killed, End
<1>4. CASE ReleaseExists \/ Check \/ CheckUnreadable
  BY <1>4 DEF ReleaseExists, Check, CheckUnreadable, Goto, AfterInstall, End
<1>5. CASE HelmCreates \/ HelmRefuses \/ HelmSubmits \/ HelmSupersedes
  BY <1>5 DEF HelmCreates, HelmRefuses, HelmSubmits, HelmSupersedes, End, HelmActions
<1>6. CASE HelmRecords \/ HelmFails \/ HelmUninstalls
  BY <1>6 DEF HelmRecords, HelmFails, HelmUninstalls, End, Goto, AfterInstall
<1> QED
  BY <1>1, <1>2, <1>3, <1>4, <1>5, <1>6 DEF Next, Install, Manifests

\* Apply gives up on a kind because the API server does not serve it at that
\* moment, never because its cache says so (restMapping resets the mapper).
THEOREM GivesUpInEarnest == Spec => GivesUpOnlyIfNotServed
<1>1. Init => CacheClear
  BY DEF Init, CacheClear
<1>2. CacheClear /\ [Next]_vars => [GivesUpInTruth]_vars
  <2> SUFFICES ASSUME CacheClear, Next, pc = "root", outcome' = "unserved", pc' = "idle"
               PROVE  ~served
    BY DEF GivesUpInTruth
  <2>1. NoMatch
    <3>1. ~(StartApply \/ Install \/ HelmFails)
      BY DEF StartApply, Install, HelmFails, ReleaseExists, Check, CheckUnreadable, HelmCreates,
             HelmRefuses, HelmSubmits, HelmSupersedes, HelmRecords, HelmUninstalls, HelmActions,
             UninstallSteps
    <3>2. ~(CallFails \/ Killed \/ DeadlinePasses \/ Established)
      BY DEF CallFails, Killed, DeadlinePasses, Established, End
    <3>3. ~(ApplyCredentials \/ ApplyRoot \/ Commit)
      BY DEF ApplyCredentials, ApplyRoot, Commit, Goto, NextManifest
    <3> QED
      BY <3>1, <3>2, <3>3 DEF Next, Manifests
  <2> QED
    BY <2>1 DEF NoMatch, Discovered, CacheClear
<1> QED
  BY <1>1, <1>2, CacheStaysClear, PTL DEF Spec, GivesUpOnlyIfNotServed
=============================================================================
