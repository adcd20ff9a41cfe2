----------------------------- MODULE ClusterSteps -----------------------------
(***************************************************************************)
(* The steps of internal/orchestrator/steps.go that build and tear down ONE *)
(* cluster against an asynchronous cloud: createClusterStep and Teardown,   *)
(* with the wait loops of internal/provisioner/provisioner.go and the drain *)
(* of load balancers.  Runs come one after the other (Orchestrator's        *)
(* WorkExclusive), each may stop anywhere, and the cloud, the cluster's     *)
(* controllers and Argo CD go on meanwhile.                                 *)
(***************************************************************************)
EXTENDS Phases, Naturals

CONSTANTS
  MaxErrors,   \* WaitOptions.MaxDescribeErrors
  Services,    \* the Services of type LoadBalancer an addon may have
  Overtakes,   \* may a run start before the cloud shows what the last requested?
  MaxApplies,  \* bound: runs of apply
  MaxFaults    \* bound: failed calls and polls, stopped runs, cloud failures

ASSUME StepsAssumption ==
  /\ MaxErrors \in Nat \ {0}
  /\ Overtakes \in BOOLEAN
  /\ MaxApplies \in Nat /\ MaxFaults \in Nat

VARIABLES
  status,      \* the cluster in the cloud; "requested" is not shown yet
  network,     \* does the network exist?
  repo,        \* does the repository exist?
  services,    \* each Service: "none", "present", or "going" (being finalized)
  controller,  \* Argo CD's application controller
  orphans,     \* load balancers whose cluster went before them
  phase,       \* the phase of the cluster's record
  pc,          \* the step the current run is at, "idle" between runs
  failures,    \* consecutive failed polls, as the wait loop counts them
  late,        \* has the deadline of the current wait passed?
  listed,      \* toDelete of the drain
  left,        \* the part of it the drain has not deleted yet
  outcome,     \* how the last run ended
  unanswered,  \* history: failed polls since the cloud last answered this wait
  gaveUp,      \* history: the last drain was skipped or cut short
  recreated,   \* history: the Services Argo CD has created since the drain listed them
  applies, faults

world == <<status, network, repo, services, controller, orphans>>
drain == <<listed, left, gaveUp, recreated>>
wait  == <<failures, late, unanswered>>
vars  == <<world, phase, pc, wait, drain, outcome, applies, faults>>
-----------------------------------------------------------------------------
Status == {"absent", "requested", "creating", "active", "updating", "deleting",
           "failed"}

Waits    == {"waitActive", "waitGone"}
Building == {"ensureNetwork", "create", "waitActive", "reconcile", "seed", "install",
             "record"}
Draining == {"drainStop", "drainList", "drainDelete", "drainWait"}
Tearing  == Draining \cup {"deleteCluster", "waitGone", "deleteNetwork", "deleteRepo",
                         "forget"}

\* What Describe says of the cluster.
Shown == IF status = "requested" THEN "absent" ELSE status

\* An API server that answers.
Reachable == status \in {"active", "updating"}

Init ==
  /\ status = "absent" /\ network = FALSE /\ repo = FALSE
  /\ services = [s \in Services |-> "none"]
  /\ controller = "none" /\ orphans = {}
  /\ phase = "absent" /\ pc = "idle"
  /\ failures = 0 /\ late = FALSE /\ unanswered = 0
  /\ listed = {} /\ left = {} /\ gaveUp = FALSE /\ recreated = {}
  /\ outcome = "none" /\ applies = 0 /\ faults = 0

Goto(p) == pc' = p /\ UNCHANGED outcome

End(how) == pc' = "idle" /\ outcome' = how

\* Enter a wait: a fresh deadline, no failures counted.
EnterWait(p) ==
  /\ Goto(p)
  /\ failures' = 0 /\ late' = FALSE /\ unanswered' = 0

Fault == faults < MaxFaults /\ faults' = faults + 1
-----------------------------------------------------------------------------
(* The runs. *)

\* The next run starts when the cloud shows what the last one asked for.
Seen == Overtakes \/ status # "requested"

\* Where the step of a phase begins; argocd-installed has nothing to do.
StepOf(p) ==
  CASE p = "pending"          -> "ensureNetwork"
    [] p = "cluster-created"  -> "seed"
    [] p = "repo-pushed"      -> "install"
    [] p = "argocd-installed" -> "record"

StartApply ==
  /\ pc = "idle" /\ Seen
  /\ phase \notin {"ready", "decommissioning"}
  /\ applies < MaxApplies
  /\ applies' = applies + 1
  /\ phase' = IF phase = "absent" THEN "pending" ELSE phase
  /\ Goto(StepOf(phase'))
  /\ UNCHANGED <<world, wait, drain, faults>>

StartDelete ==
  /\ pc = "idle" /\ Seen
  /\ phase # "absent"
  /\ phase' = "decommissioning"
  /\ Goto("drainStop")
  /\ UNCHANGED <<world, wait, drain, applies, faults>>

\* A step returns an error having done nothing, or the run is interrupted or
\* killed; what it did before stays.
RunStops ==
  /\ pc # "idle"
  /\ Fault
  /\ End("stopped")
  /\ UNCHANGED <<world, phase, wait, drain, applies>>
-----------------------------------------------------------------------------
(* createClusterStep, and the steps after it as far as Teardown undoes them. *)

EnsureNetwork ==
  /\ pc = "ensureNetwork"
  /\ network' = TRUE
  /\ Goto("create")
  /\ UNCHANGED <<status, repo, services, controller, orphans, phase, wait, drain, applies, faults>>

\* Accepted, the cluster is creating, or not even shown yet; a cluster that
\* exists, in whatever state, is left as it is.
Create ==
  /\ pc = "create"
  /\ \/ status = "absent" /\ status' \in {"requested", "creating"}
     \/ status # "absent" /\ UNCHANGED status
  /\ EnterWait("waitActive")
  /\ UNCHANGED <<network, repo, services, controller, orphans, phase, drain, applies, faults>>

\* Node pools are attached once the control plane is active.
Reconcile ==
  /\ pc = "reconcile"
  /\ Goto("record")
  /\ UNCHANGED <<world, phase, wait, drain, applies, faults>>

SeedRepo ==
  /\ pc = "seed"
  /\ repo' = TRUE
  /\ Goto("record")
  /\ UNCHANGED <<status, network, services, controller, orphans, phase, wait, drain, applies, faults>>

InstallArgoCD ==
  /\ pc = "install" /\ Reachable
  /\ controller' = "running"
  /\ Goto("record")
  /\ UNCHANGED <<status, network, repo, services, orphans, phase, wait, drain, applies, faults>>

\* The work of the step is done: advance records the next phase and goes on.
Record ==
  /\ pc = "record"
  /\ phase' = NextPhase(phase)
  /\ IF phase' = "ready" THEN End("ok") ELSE Goto(StepOf(phase'))
  /\ UNCHANGED <<world, wait, drain, applies, faults>>
-----------------------------------------------------------------------------
(* WaitUntilActive and WaitUntilGone. *)

\* Mutants of Verdict: a deletion that is under way is taken for done; an
\* update for active.
VerdictHasty(p, s) ==
  CASE p = "waitActive" /\ s = "active"             -> "done"
    [] p = "waitGone" /\ s \in {"absent", "deleting"} -> "done"
    [] s = "failed"                                 -> "failed"
    [] OTHER                                        -> "wait"

VerdictOptimistic(p, s) ==
  CASE p = "waitActive" /\ s \in {"active", "creating"} -> "done"
    [] p = "waitGone" /\ s = "absent"                   -> "done"
    [] s = "failed"                                     -> "failed"
    [] OTHER                                            -> "wait"

\* What an answered poll means to the wait.
Verdict(p, s) ==
  CASE p = "waitActive" /\ s = "active" -> "done"
    [] p = "waitGone" /\ s = "absent"   -> "done"
    [] s = "failed"                     -> "failed"
    [] OTHER                            -> "wait"

AfterWait(p) == IF p = "waitActive" THEN "reconcile" ELSE "deleteNetwork"

\* Mutant of PollOn: the deadline is not tested.
PollOnForever == Goto(pc)

\* The deadline is tested after the poll, whatever the poll said.
PollOn == IF late THEN End("error") ELSE Goto(pc)

\* Mutant of PollAnswered: failures are counted, consecutive or not.
PollAnsweredKeepsCount ==
  /\ pc \in Waits
  /\ failures' = failures /\ unanswered' = 0
  /\ CASE Verdict(pc, Shown) = "done"   -> Goto(AfterWait(pc))
       [] Verdict(pc, Shown) = "failed" -> End("error")
       [] OTHER                         -> PollOn
  /\ UNCHANGED <<world, phase, late, drain, applies, faults>>

PollAnswered ==
  /\ pc \in Waits
  /\ failures' = 0 /\ unanswered' = 0
  /\ CASE Verdict(pc, Shown) = "done"   -> Goto(AfterWait(pc))
       [] Verdict(pc, Shown) = "failed" -> End("error")
       [] OTHER                         -> PollOn
  /\ UNCHANGED <<world, phase, late, drain, applies, faults>>

\* describeFailure: how many consecutive failures end the wait.
Enough(n) == n >= MaxErrors

PollFails ==
  /\ pc \in Waits
  /\ Fault
  /\ failures' = failures + 1 /\ unanswered' = unanswered + 1
  /\ IF Enough(failures') THEN End("error") ELSE PollOn
  /\ UNCHANGED <<world, phase, late, drain, applies>>

DeadlinePasses ==
  /\ pc \in Waits \cup {"drainWait"} /\ ~late
  /\ late' = TRUE
  /\ UNCHANGED <<world, phase, pc, failures, unanswered, drain, outcome, applies, faults>>
-----------------------------------------------------------------------------
(* Teardown: drainLoadBalancers, the cluster, the network, the repository. *)

\* Mutant of SkipDrain: a cluster that cannot be reached is taken to be gone.
SkipDrainAndCluster ==
  /\ pc \in {"drainStop", "drainList"}
  /\ \/ ~Reachable /\ UNCHANGED faults
     \/ Reachable /\ Fault
  /\ Goto("deleteNetwork")
  /\ UNCHANGED <<world, phase, wait, drain, applies>>

\* restConfigFor fails on a cluster that is not there, or whose API server
\* cannot be reached: the drain is skipped.
SkipDrain ==
  /\ pc \in {"drainStop", "drainList"}
  /\ \/ ~Reachable /\ UNCHANGED faults
     \/ Reachable /\ Fault
  /\ gaveUp' = (gaveUp \/ status # "absent")
  /\ Goto("deleteCluster")
  /\ UNCHANGED <<world, phase, wait, listed, left, recreated, applies>>

\* stopArgoCDSync: scale the application controller to zero, and do not wait
\* for it to stop.
StopArgoCDSync ==
  /\ pc = "drainStop" /\ Reachable
  /\ controller' = IF controller = "running" THEN "stopping" ELSE controller
  /\ gaveUp' = FALSE
  /\ Goto("drainList")
  /\ UNCHANGED <<status, network, repo, services, orphans, phase, wait, listed, left, recreated, applies, faults>>

\* The update, or the listing of controllers, fails: drain anyway.
StopFails ==
  /\ pc = "drainStop" /\ Reachable
  /\ Fault
  /\ gaveUp' = TRUE
  /\ Goto("drainList")
  /\ UNCHANGED <<world, phase, wait, listed, left, recreated, applies>>

ListServices ==
  /\ pc = "drainList" /\ Reachable
  /\ listed' = {s \in Services : services[s] # "none"}
  /\ left' = listed' /\ recreated' = {}
  /\ Goto(IF listed' = {} THEN "deleteCluster" ELSE "drainDelete")
  /\ UNCHANGED <<world, phase, wait, gaveUp, applies, faults>>

\* A Service that is gone by now is no error; its finalizer removes the load
\* balancer of one that is not.
DeleteService(s) ==
  /\ pc = "drainDelete" /\ Reachable
  /\ s \in left
  /\ left' = left \ {s}
  /\ services' = [services EXCEPT ![s] = IF @ = "present" THEN "going" ELSE @]
  /\ IF left' = {} THEN EnterWait("drainWait") ELSE Goto(pc) /\ UNCHANGED wait
  /\ UNCHANGED <<status, network, repo, controller, orphans, phase, listed, gaveUp, recreated, applies, faults>>

Remaining == {s \in listed : services[s] # "none"}

\* Mutant of PollDrain: drained as soon as every Service is being deleted.
PollDrainHasty ==
  /\ pc = "drainWait" /\ Reachable
  /\ Goto("deleteCluster")
  /\ UNCHANGED <<world, phase, wait, drain, applies, faults>>

\* Drained, or out of time: a stuck drain must not wedge the delete.
PollDrain ==
  /\ pc = "drainWait" /\ Reachable
  /\ \/ /\ Remaining = {} \/ late
        /\ gaveUp' = (gaveUp \/ Remaining # {})
        /\ Goto("deleteCluster")
     \/ /\ Remaining # {} /\ ~late
        /\ Goto(pc)
        /\ UNCHANGED gaveUp
  /\ UNCHANGED <<world, phase, wait, listed, left, recreated, applies, faults>>

\* The cluster can no longer be reached: the check fails, and the run with it.
DrainLosesCluster ==
  /\ pc \in {"drainDelete", "drainWait"} /\ ~Reachable
  /\ End("error")
  /\ UNCHANGED <<world, phase, wait, drain, applies, faults>>

\* Mutant of DeleteCluster: deleting what is not there is an error.
DeleteClusterStrict ==
  /\ pc = "deleteCluster"
  /\ \/ /\ status \in {"active", "updating", "creating", "failed"}
        /\ status' = "deleting"
        /\ EnterWait("waitGone")
     \/ Shown \in {"absent", "deleting"} /\ End("error") /\ UNCHANGED <<status, wait>>
  /\ UNCHANGED <<network, repo, services, controller, orphans, phase, drain, applies, faults>>

\* A request to delete; a cluster that is gone or going is left to it.
DeleteCluster ==
  /\ pc = "deleteCluster"
  /\ \/ status \in {"active", "updating", "creating", "failed"} /\ status' = "deleting"
     \/ Shown \in {"absent", "deleting"} /\ UNCHANGED status
  /\ EnterWait("waitGone")
  /\ UNCHANGED <<network, repo, services, controller, orphans, phase, drain, applies, faults>>

\* A cloud that does not delete a cluster in the middle of a change.
DeleteRefused ==
  /\ pc = "deleteCluster"
  /\ status \in {"creating", "updating"}
  /\ End("error")
  /\ UNCHANGED <<world, phase, wait, drain, applies, faults>>

DeleteNetwork ==
  /\ pc = "deleteNetwork" /\ orphans = {}
  /\ network' = FALSE
  /\ Goto("deleteRepo")
  /\ UNCHANGED <<status, repo, services, controller, orphans, phase, wait, drain, applies, faults>>

\* A load balancer nobody owns any more still uses the network.
NetworkInUse ==
  /\ pc = "deleteNetwork" /\ orphans # {}
  /\ End("error")
  /\ UNCHANGED <<world, phase, wait, drain, applies, faults>>

\* The repository goes last, ...
DeleteRepo ==
  /\ pc = "deleteRepo"
  /\ repo' = FALSE
  /\ Goto("forget")
  /\ UNCHANGED <<status, network, services, controller, orphans, phase, wait, drain, applies, faults>>

\* ... and then the record.
Forget ==
  /\ pc = "forget"
  /\ phase' = "absent"
  /\ End("ok")
  /\ UNCHANGED <<world, wait, drain, applies, faults>>
-----------------------------------------------------------------------------
(* The cloud and the cluster, which nobody waits for unless a wait does. *)

Proceeds == {<<"requested", "creating">>, <<"creating", "active">>,
             <<"updating", "active">>, <<"deleting", "absent">>}
Breaks   == {<<"creating", "failed">>, <<"active", "failed">>, <<"deleting", "failed">>}

\* A cluster that goes takes what runs in it along, not its load balancers.
Becomes(s) ==
  /\ status' = s
  /\ IF s = "absent"
       THEN /\ services' = [v \in Services |-> "none"]
            /\ controller' = "none"
            /\ orphans' = orphans \cup {v \in Services : services[v] # "none"}
       ELSE UNCHANGED <<services, controller, orphans>>
  /\ UNCHANGED <<network, repo, phase, pc, wait, drain, outcome, applies>>

CloudProceeds ==
  /\ \E s \in Status : <<status, s>> \in Proceeds /\ Becomes(s)
  /\ UNCHANGED faults

CloudBreaks ==
  /\ Fault
  /\ \E s \in Status : <<status, s>> \in Breaks /\ Becomes(s)

CloudUpdates ==
  /\ status = "active" /\ Fault
  /\ Becomes("updating")

\* The finalizer of a deleted Service is done: its load balancer is gone.
ServiceGoes(s) ==
  /\ Reachable /\ services[s] = "going"
  /\ services' = [services EXCEPT ![s] = "none"]
  /\ UNCHANGED <<status, network, repo, controller, orphans, phase, pc, wait, drain, outcome, applies, faults>>

\* Argo CD creates the addons' Services, and recreates one that is gone, until
\* its controller has stopped.
Sync(s) ==
  /\ Reachable
  /\ controller \in {"running", "stopping"}
  /\ services[s] = "none"
  /\ services' = [services EXCEPT ![s] = "present"]
  /\ recreated' = recreated \cup {s}
  /\ UNCHANGED <<status, network, repo, controller, orphans, phase, pc, wait, listed, left, gaveUp, outcome, applies, faults>>

ControllerStops ==
  /\ controller = "stopping"
  /\ controller' = "stopped"
  /\ UNCHANGED <<status, network, repo, services, orphans, phase, pc, wait, drain, outcome, applies, faults>>
-----------------------------------------------------------------------------
Build == EnsureNetwork \/ Create \/ Reconcile \/ SeedRepo \/ InstallArgoCD \/ Record

Poll == PollAnswered \/ PollFails

TearDown ==
  \/ SkipDrain \/ StopArgoCDSync \/ StopFails \/ ListServices
  \/ \E s \in Services : DeleteService(s)
  \/ PollDrain \/ DrainLosesCluster \/ DeleteCluster \/ DeleteRefused
  \/ DeleteNetwork \/ NetworkInUse \/ DeleteRepo \/ Forget

\* An installation that cannot reach its cluster fails.
InstallFails ==
  /\ pc = "install" /\ ~Reachable
  /\ End("error")
  /\ UNCHANGED <<world, phase, wait, drain, applies, faults>>

Run == Build \/ InstallFails \/ Poll \/ TearDown

Environment ==
  \/ CloudProceeds \/ CloudBreaks \/ CloudUpdates \/ ControllerStops
  \/ \E s \in Services : ServiceGoes(s) \/ Sync(s)

\* The cluster is gone and nobody applies it again.
AllOver ==
  /\ pc = "idle" /\ phase = "absent" /\ applies = MaxApplies
  /\ UNCHANGED vars

Next ==
  \/ StartApply \/ StartDelete \/ RunStops \/ Run \/ DeadlinePasses
  \/ Environment \/ AllOver

Repeat == phase = "decommissioning" /\ StartDelete

\* A run that is alive goes on, time passes, and the operator repeats a delete
\* that failed.
Fairness == WF_vars(Run) /\ WF_vars(DeadlinePasses) /\ WF_vars(Repeat)

\* The cloud finishes what it accepted, and finalizers run: assumed only where
\* a property says so.
CloudWorks ==
  /\ WF_vars(CloudProceeds)
  /\ \A s \in Services : WF_vars(ServiceGoes(s))

Spec == Init /\ [][Next]_vars /\ Fairness
-----------------------------------------------------------------------------
(* What must hold. *)

\* The phases that say the cluster was created.
Recorded == {"cluster-created", "repo-pushed", "argocd-installed", "ready"}

\* Every variable keeps its type.
TypeOK ==
  /\ status \in Status /\ network \in BOOLEAN /\ repo \in BOOLEAN
  /\ services \in [Services -> {"none", "present", "going"}]
  /\ controller \in {"none", "running", "stopping", "stopped"}
  /\ orphans \subseteq Services
  /\ phase \in {"absent", "pending", "decommissioning"} \cup Recorded
  /\ pc \in {"idle"} \cup Building \cup Tearing
  /\ failures \in 0..MaxErrors /\ unanswered \in Nat /\ late \in BOOLEAN
  /\ left \subseteq listed /\ listed \subseteq Services
  /\ gaveUp \in BOOLEAN /\ recreated \subseteq Services
  /\ outcome \in {"none", "ok", "error", "stopped"}
  /\ applies \in 0..MaxApplies /\ faults \in 0..MaxFaults

\* A wait is given up only for cause (WaitOptions.MaxDescribeErrors): the
\* cluster failed, the deadline passed, or that many polls in a row failed.
\* A blip the cloud recovered from counts for nothing.
GivenUpForCause ==
  pc \in Waits /\ pc' = "idle" /\ outcome' = "error"
    => status = "failed" \/ late \/ unanswered' >= MaxErrors

WaitsAreNotCutShort == [][GivenUpForCause]_vars

\* "A resumed run never believes a still-creating cluster is finished"
\* (createClusterStep): the record says created only of a cluster that became
\* active, whichever run requested it and whichever waited for it.
RecordedWasActive ==
  phase \in Recorded => network /\ status \in {"active", "updating", "failed"}

\* "Nothing is deleted while another step might still need it" (Teardown): the
\* network outlives the cluster, the repository outlives both.
ReverseOrder ==
  /\ network /\ ~network' => status = "absent"
  /\ repo /\ ~repo' => status = "absent" /\ ~network

TornDownInReverse == [][ReverseOrder]_vars

\* A cluster without a record does not exist, however many runs of delete it
\* took, whatever they found under way and wherever they stopped.
GoneMeansGone == phase = "absent" => status = "absent" /\ ~network /\ ~repo

\* Unless the drain was skipped, timed out, or could not stop Argo CD, a load
\* balancer is orphaned only if Argo CD created its Service after the drain had
\* listed them: of those it listed, the drain leaves none (drainLoadBalancers).
DrainIsThorough == gaveUp \/ orphans \subseteq recreated

\* Argo CD is stopped "so nothing recreates the Services drainLoadBalancers is
\* about to delete" (stopArgoCDSync): no load balancer is orphaned but by a
\* delete whose drain was skipped, timed out, or could not stop it.  Not true of
\* a controller that syncs before it has stopped, hence of no run.
NoSilentOrphans == orphans # {} => gaveUp

\* Every run ends, whatever the cloud does or leaves undone: each wait has its
\* deadline, the drain too.
RunsEnd == pc # "idle" ~> pc = "idle"

\* In a cloud that works, a delete that is repeated converges (Teardown: "every
\* step here is idempotent"), unless a load balancer was orphaned.
DeleteConverges ==
  CloudWorks => (phase = "decommissioning" ~> phase = "absent" \/ orphans # {})
=============================================================================
