----------------------------- MODULE ArgoInstall -----------------------------
(***************************************************************************)
(* Argo CD on one cluster, as successive applies install and upgrade it:    *)
(* HelmInstaller.Install (internal/argocd/install.go), DynamicApplier.Apply *)
(* (apply.go) and the two callers, installArgoCDStep and ReadyReconcile     *)
(* (internal/orchestrator/steps.go).  A run may be killed between any two   *)
(* writes of Helm's, and the next run goes by the revisions it finds.       *)
(*                                                                         *)
(* Helm itself (v3, history in Secrets) and the API server are external:    *)
(* what they do is what install.go and apply.go rely on.                    *)
(***************************************************************************)
EXTENDS Naturals, Sequences

CONSTANTS
  Versions,    \* the chart versions, with their values, a profile asks for
  MaxChanges,  \* bound: how often the profile changes
  MaxFaults    \* bound: calls that fail, runs that are killed

ASSUME ArgoAssumption ==
  /\ Versions # {} /\ {"none", "mixed"} \cap Versions = {}
  /\ MaxChanges \in Nat /\ MaxFaults \in Nat

VARIABLES
  history,  \* the revisions of the release, oldest first
  live,     \* the version whose manifests the cluster runs
  served,   \* whether the API server serves Argo CD's kinds
  creds,    \* the repository's credentials are in the cluster
  root,     \* the root Application is
  phase,    \* the cluster's recorded phase, as far as it matters here
  wanted,   \* the version the run's profile resolved
  pc,       \* where the run is
  stage,    \* within a Helm action, the write it makes next
  cached,   \* the mapper's discovery document
  late,     \* restMapping's deadline has passed
  outcome,  \* how the last run ended
  changes, faults

cluster == <<history, live, served, creds, root>>
mapper == <<cached, late>>
vars == <<cluster, phase, wanted, pc, stage, mapper, outcome, changes, faults>>

\* The status of a revision that an action is about to deploy.
PendingOf == [install |-> "pending-install", upgrade |-> "pending-upgrade",
              rollback |-> "pending-rollback"]

Pending == {PendingOf[a] : a \in DOMAIN PendingOf}
Statuses == Pending \cup {"deployed", "superseded", "failed", "uninstalling"}
HelmActions == {"install", "upgrade", "rollback"}
Stages == {"create", "submit", "supersede", "record"}
UninstallSteps == {"uninstall", "uninstalling", "purge"}

Revision(s, v) == [status |-> s, version |-> v]

Init ==
  /\ history = <<>> /\ live = "none"
  /\ served = FALSE /\ creds = FALSE /\ root = FALSE
  /\ phase = "repo-pushed" /\ wanted \in Versions
  /\ pc = "idle" /\ stage = "create"
  /\ cached = "empty" /\ late = FALSE
  /\ outcome = "none" /\ changes = 0 /\ faults = 0

Latest == history[Len(history)]

Goto(p) == pc' = p /\ stage' = "create" /\ UNCHANGED outcome
End(o) == pc' = "idle" /\ stage' = "create" /\ outcome' = o
Fault == faults < MaxFaults /\ faults' = faults + 1

\* Install has returned: the first time, the manifests follow; on a ready
\* cluster, the repository's files.
AfterInstall == IF phase = "ready" THEN "commit" ELSE "credentials"

-----------------------------------------------------------------------------
(* releaseExists and recoverPendingRelease. *)

\* An apply, with the same profile or another one.
StartApply ==
  /\ pc = "idle"
  /\ \/ UNCHANGED <<wanted, changes>>
     \/ /\ changes < MaxChanges /\ changes' = changes + 1
        /\ wanted' \in Versions \ {wanted}
  /\ pc' = "history" /\ outcome' = "none"
  /\ UNCHANGED <<cluster, phase, stage, mapper, faults>>

\* Mutant of LastDeployedRevision: looks at the revision before the latest.
LastDeployedBefore ==
  IF Len(history) > 1 /\ history[Len(history) - 1].status = "deployed"
    THEN Len(history) - 1 ELSE 0

\* The last revision that is deployed, or 0.
LastDeployedRevision ==
  LET deployed == {i \in 1..Len(history) : history[i].status = "deployed"}
  IN IF deployed = {} THEN 0 ELSE CHOOSE i \in deployed : \A j \in deployed : j <= i

\* Mutant of ReleaseExists: a pending release is one that exists.
ReleaseExistsPending ==
  /\ pc = "history"
  /\ Goto(IF history = <<>> THEN "install" ELSE "check")
  /\ UNCHANGED <<cluster, phase, wanted, mapper, changes, faults>>

\* A release whose latest revision is pending was interrupted: roll it back,
\* or, with nothing to roll back to, uninstall it.
ReleaseExists ==
  /\ pc = "history"
  /\ Goto(IF history = <<>> THEN "install"
          ELSE IF Latest.status \notin Pending THEN "check"
          ELSE IF LastDeployedRevision = 0 THEN "uninstall" ELSE "rollback")
  /\ UNCHANGED <<cluster, phase, wanted, mapper, changes, faults>>

\* Mutant of UpToDate: whatever became of the revision.
UpToDateAnyStatus == Latest.version = wanted

\* upToDate, of the latest revision.
UpToDate == Latest = Revision("deployed", wanted)

Check ==
  /\ pc = "check"
  /\ Goto(IF UpToDate THEN AfterInstall ELSE "upgrade")
  /\ UNCHANGED <<cluster, phase, wanted, mapper, changes, faults>>

\* "An unreadable release is a reason to converge."
CheckUnreadable ==
  /\ pc = "check"
  /\ Fault
  /\ Goto("upgrade")
  /\ UNCHANGED <<cluster, phase, wanted, mapper, changes>>
-----------------------------------------------------------------------------
(* Helm: each action is a revision created pending, the manifests submitted *)
(* and waited for, and the outcome recorded.                                *)

\* What an upgrade replaces: the deployed revision, or else the latest one if
\* it failed or was superseded; 0 where Helm finds neither.
Original(h) ==
  LET deployed == {i \in 1..Len(h) : h[i].status = "deployed"}
  IN CASE deployed # {} -> CHOOSE i \in deployed : \A j \in deployed : j <= i
       [] deployed = {} /\ h # <<>> /\ h[Len(h)].status \in {"failed", "superseded"} -> Len(h)
       [] OTHER -> 0

Accepts(action) ==
  CASE action = "install" -> history = <<>>
    [] action = "upgrade" ->
         history # <<>> /\ Latest.status \notin Pending /\ Original(history) # 0
    [] OTHER -> LastDeployedRevision # 0

\* Install and upgrade deploy what the profile asks for; a rollback what was
\* deployed last.
Target == IF pc = "rollback" THEN history[LastDeployedRevision].version ELSE wanted

HelmCreates ==
  /\ pc \in HelmActions /\ stage = "create" /\ Accepts(pc)
  /\ history' = Append(history, Revision(PendingOf[pc], Target))
  /\ stage' = "submit"
  /\ UNCHANGED <<live, served, creds, root, phase, wanted, pc, mapper, outcome, changes, faults>>

HelmRefuses ==
  /\ pc \in HelmActions /\ stage = "create" /\ ~Accepts(pc)
  /\ End("error")
  /\ UNCHANGED <<cluster, phase, wanted, mapper, changes, faults>>

HelmSubmits ==
  /\ pc \in HelmActions /\ stage = "submit"
  /\ live' = Latest.version
  /\ stage' = IF pc = "install" THEN "record" ELSE "supersede"
  /\ UNCHANGED <<history, served, creds, root, phase, wanted, pc, mapper, outcome, changes, faults>>

\* The manifests are refused, the wait times out, or the operator presses
\* Ctrl-C: Helm records the failure and leaves the cluster as it is (Atomic is
\* off).  A failed rollback also supersedes the revision it found.
HelmFails ==
  /\ pc \in HelmActions /\ stage = "submit"
  /\ Fault
  /\ live' \in {live, "mixed"}
  /\ history' = [i \in DOMAIN history |->
       CASE i = Len(history) -> [history[i] EXCEPT !.status = "failed"]
         [] i = Len(history) - 1 /\ pc = "rollback" ->
              [history[i] EXCEPT !.status = "superseded"]
         [] OTHER -> history[i]]
  /\ End("error")
  /\ UNCHANGED <<served, creds, root, phase, wanted, mapper, changes>>

\* First the revision that was replaced is superseded ...
HelmSupersedes ==
  /\ pc \in HelmActions /\ stage = "supersede"
  /\ history' = [i \in DOMAIN history |->
       IF \/ pc = "rollback" /\ history[i].status = "deployed"
          \/ pc = "upgrade" /\ i = Original(SubSeq(history, 1, Len(history) - 1))
         THEN [history[i] EXCEPT !.status = "superseded"] ELSE history[i]]
  /\ stage' = "record"
  /\ UNCHANGED <<live, served, creds, root, phase, wanted, pc, mapper, outcome, changes, faults>>

\* ... and then the new one is deployed.
HelmRecords ==
  /\ pc \in HelmActions /\ stage = "record"
  /\ history' = [history EXCEPT ![Len(history)].status = "deployed"]
  /\ Goto(IF pc = "rollback" THEN "check" ELSE AfterInstall)
  /\ UNCHANGED <<live, served, creds, root, phase, wanted, mapper, changes, faults>>

\* Uninstall: the latest revision is marked, what it deployed is deleted (not
\* the kinds: the chart keeps its CRDs), and then the history.
HelmUninstalls ==
  /\ pc \in UninstallSteps
  /\ CASE pc = "uninstall" ->
            /\ history' = [history EXCEPT ![Len(history)].status = "uninstalling"]
            /\ Goto("uninstalling") /\ UNCHANGED live
       [] pc = "uninstalling" -> live' = "none" /\ Goto("purge") /\ UNCHANGED history
       [] OTHER -> history' = <<>> /\ Goto("install") /\ UNCHANGED live
  /\ UNCHANGED <<served, creds, root, phase, wanted, mapper, changes, faults>>
-----------------------------------------------------------------------------
(* installArgoCDStep's manifests, and Apply's restMapping. *)

\* The credentials, the root Application, the Applications in the repository.
NextManifest ==
  CASE pc = "credentials" -> "root"
    [] OTHER              -> "commit"

\* A Secret is of a kind every API server serves.
ApplyCredentials ==
  /\ pc = "credentials"
  /\ creds' = TRUE
  /\ cached' = "empty" /\ late' = FALSE
  /\ Goto(NextManifest)
  /\ UNCHANGED <<history, live, served, root, phase, wanted, changes, faults>>

\* RESTMapping: what discovery says, asked once and then remembered.
Discovered == IF cached = "empty" THEN (IF served THEN "has" ELSE "lacks") ELSE cached

\* Mutant of Reset: the discovery document stays.
ResetNothing == cached' = Discovered

\* mapper.Reset.
Reset == cached' = "empty"

ApplyRoot ==
  /\ pc = "root" /\ Discovered = "has"
  /\ root' = TRUE
  /\ cached' = "empty"
  /\ Goto(NextManifest)
  /\ UNCHANGED <<history, live, served, creds, phase, wanted, late, changes, faults>>

\* No match: the deadline is tested, the cache is reset, and the kind is
\* looked up again an interval later.
NoMatch ==
  /\ pc = "root" /\ Discovered = "lacks"
  /\ \/ late /\ End("unserved") /\ cached' = "empty"
     \/ ~late /\ Goto(pc) /\ Reset
  /\ UNCHANGED <<cluster, phase, wanted, late, changes, faults>>

DeadlinePasses ==
  /\ pc = "root" /\ ~late
  /\ late' = TRUE
  /\ UNCHANGED <<cluster, phase, wanted, pc, stage, cached, outcome, changes, faults>>

\* ReconcileAppOfApps (module RepoSync); the orchestrator records the phase.
Commit ==
  /\ pc = "commit"
  /\ phase' = "ready"
  /\ End("ok")
  /\ UNCHANGED <<cluster, wanted, mapper, changes, faults>>
-----------------------------------------------------------------------------
\* Any other call fails, and the run with it; an uninstall that cannot delete
\* something stops where it is.
CallFails ==
  /\ pc \in {"history", "credentials", "root", "commit"} \cup UninstallSteps
  /\ Fault
  /\ End("error")
  /\ UNCHANGED <<cluster, phase, wanted, mapper, changes>>

\* The process is killed, or loses its cluster for good.
Killed ==
  /\ pc # "idle"
  /\ Fault
  /\ live' \in {live} \cup (IF pc \in HelmActions /\ stage = "submit" THEN {"mixed"} ELSE {})
  /\ End("stopped")
  /\ UNCHANGED <<history, served, creds, root, phase, wanted, mapper, changes>>

\* The API server establishes the kinds of a chart that was submitted.
Established ==
  /\ live # "none" /\ ~served
  /\ served' = TRUE
  /\ UNCHANGED <<history, live, creds, root, phase, wanted, pc, stage, mapper, outcome, changes, faults>>

Install ==
  \/ ReleaseExists \/ Check \/ CheckUnreadable
  \/ HelmCreates \/ HelmRefuses \/ HelmSubmits \/ HelmSupersedes \/ HelmRecords
  \/ HelmUninstalls

Manifests == ApplyCredentials \/ ApplyRoot \/ NoMatch \/ Commit

Next ==
  \/ StartApply \/ Install \/ HelmFails \/ Manifests \/ DeadlinePasses
  \/ CallFails \/ Killed \/ Established

\* A run that is alive goes on, an apply that failed is repeated, and the API
\* server gets round to the kinds it was given.
Fairness ==
  /\ WF_vars(Install \/ Manifests)
  /\ WF_vars(outcome # "ok" /\ StartApply)
  /\ WF_vars(Established)

Spec == Init /\ [][Next]_vars /\ Fairness
-----------------------------------------------------------------------------
(* What must hold. *)

\* Every variable keeps its type.
TypeOK ==
  /\ history \in Seq([status : Statuses, version : Versions])
  /\ live \in Versions \cup {"none", "mixed"}
  /\ served \in BOOLEAN /\ creds \in BOOLEAN /\ root \in BOOLEAN
  /\ phase \in {"repo-pushed", "ready"} /\ wanted \in Versions
  /\ pc \in {"idle", "history", "check", "credentials", "root", "commit"}
            \cup HelmActions \cup UninstallSteps
  /\ stage \in Stages
  /\ cached \in {"empty", "has", "lacks"} /\ late \in BOOLEAN
  /\ outcome \in {"none", "ok", "error", "stopped", "unserved"}
  /\ changes \in 0..MaxChanges /\ faults \in 0..MaxFaults

\* "Installed argocd means Argo CD is actually running" (Install), and the
\* version the profile asks for: past Install, the manifests in the cluster are
\* those of the wanted version, whatever killed or failed runs left behind.
InstalledMeansLive ==
  pc \in {"credentials", "root", "commit"} =>
    live = wanted /\ Latest = Revision("deployed", wanted)

\* While a revision is recorded deployed, Argo CD runs, at that version or half
\* way to another: a recovery uninstalls only a release with no such revision
\* (recoverPendingRelease: "there is nothing to roll back to").
DeployedKeepsRunning ==
  (\E i \in DOMAIN history : history[i].status = "deployed") => live # "none"

\* An uninstall that was interrupted, which no later run completes.
Stuck == history # <<>> /\ Latest.status = "uninstalling"

\* Install picks an action that Helm accepts: no run ends with "another
\* operation is in progress" or "cannot re-use a name" (releaseExists).
NeverRefused == pc \in HelmActions /\ stage = "create" => Accepts(pc) \/ Stuck

\* Apply gives up on a kind only if it is not served at that moment, and not
\* because its cache says so (restMapping: "retrying without clearing it would
\* spin until the timeout").
GivesUpInTruth ==
  pc = "root" /\ outcome' = "unserved" /\ pc' = "idle" => ~served

GivesUpOnlyIfNotServed == [][GivesUpInTruth]_vars

Failed == outcome \in {"error", "stopped", "unserved"}

\* "The retry re-enters here and converges": an apply that failed succeeds if
\* it is repeated, unless an uninstall was interrupted.
RetriesConverge == Failed ~> outcome = "ok" \/ Stuck

\* Of a cluster that was ready, hence had Argo CD deployed, without the
\* exception: recovery "clears a release stuck mid-operation" by "rolling back",
\* as "a prior successful revision exists" (recoverPendingRelease).
ReadyRetriesConverge == Failed /\ phase = "ready" ~> outcome = "ok"
=============================================================================
