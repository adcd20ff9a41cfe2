---------------------------- MODULE Orchestrator ----------------------------
(***************************************************************************)
(* `kubespin apply' and `kubespin delete' runs of internal/orchestrator     *)
(* working on ONE cluster through the shared registry row (module Registry) *)
(* and the cloud, git host and cluster API behind the steps.  Clusters do   *)
(* not interact: every statement names one cluster_id.                      *)
(*                                                                         *)
(* A run is a process of its own, identified by its lease holder, and makes *)
(* one registry call or cloud step at a time: pc says which.  A registry    *)
(* call is retried by internal/registry/retry.go when the connection drops, *)
(* whether or not the statement landed; the heartbeat goroutine renews the  *)
(* lease beside the call in flight; a run may be interrupted (Ctrl-C) or    *)
(* killed at any pc the constants allow.                                    *)
(***************************************************************************)
EXTENDS Registry, FiniteSets

CONSTANTS
  Applies,        \* the runs of `kubespin apply'
  Deletes,        \* the runs of `kubespin delete'
  Attempts,       \* RetryPolicy.Attempts
  MaxLost,        \* bound: calls whose request or reply is lost
  Lossy,          \* the pcs at which a call may be lost
  Lapses,         \* may the lease of a live run expire (its renewals fail)?
  Flaky,          \* may a step whose prerequisites are in place fail?
  Interruptible,  \* the runs Ctrl-C may reach
  Crashable,      \* the runs that may be killed
  Leftovers       \* the [phase, cloud] an earlier run or binary may have left

Runs == Applies \cup Deletes

ASSUME RunsAssumption ==
  /\ Holders = Runs
  /\ Applies \cap Deletes = {}
  /\ Attempts \in Nat \ {0}
  /\ MaxLost \in Nat
  /\ Lapses \in BOOLEAN
  /\ Flaky \in BOOLEAN

VARIABLES
  row,      \* the cluster's row of fleet_registry
  cloud,    \* the resources that exist outside the registry
  pc,       \* what each run is waiting for
  rec,      \* each run's registry.Record, as last read or written
  tries,    \* retry's attempt number of the call each run is in
  lost,     \* how many calls have been lost so far
  stopped   \* the runs whose context is cancelled

vars == <<row, cloud, pc, rec, tries, lost, stopped>>

Resources == {"network", "cluster", "repo", "argocd"}

ASSUME LeftoversAssumption ==
  Leftovers \subseteq [phase : PhaseOrder, cloud : SUBSET Resources]
-----------------------------------------------------------------------------
(* Where a run can be. *)

\* Calls made before Apply or Delete holds the lease under a heartbeat.
Claiming == {"get", "create", "createCheck", "reget", "acquire"}

\* reregister, which replaces a tombstone; it has no heartbeat.
Reviving == {"revAcquire", "revGet", "revDelete", "revCreate", "revCreateCheck"}

\* Calls of o.release, on a context detached from the caller's cancellation.
Releasing == {"revRelease", "revReleaseGo", "releaseOk", "releaseErr"}

\* Registry calls made under the heartbeat.
Recording == {"reread", "renew", "record", "recordCheck", "forget"}

\* Cloud, git and cluster work done under the heartbeat.
Building == {"ensureNetwork", "createCluster", "seedRepo", "installArgoCD",
             "commitApps", "noop", "reconcileInfra", "reconcileRepo"}
Tearing == {"deleteCluster", "deleteNetwork", "deleteRepo"}
Stages == Building \cup Tearing

Leased == Recording \cup Stages
Calls  == Claiming \cup Reviving \cup Releasing \cup Recording
Ended  == {"done", "failed", "crashed"}
Places == Calls \cup Stages \cup Ended

ASSUME LossyAssumption == Lossy \subseteq Calls
-----------------------------------------------------------------------------
(* The steps' effects: steps.go, seen from the phase machine. *)

\* The stage that starts the step registered for a phase.
FirstStage(p) ==
  CASE p = "pending"         -> "ensureNetwork"
    [] p = "cluster-created" -> "seedRepo"
    [] p = "repo-pushed"     -> "installArgoCD"
    [] OTHER                 -> "noop"

AfterStage(s) ==
  CASE s = "ensureNetwork"  -> "createCluster"
    [] s = "installArgoCD"  -> "commitApps"
    [] s = "reconcileInfra" -> "reconcileRepo"
    [] s = "reconcileRepo"  -> "releaseOk"
    [] s = "deleteCluster"  -> "deleteNetwork"
    [] s = "deleteNetwork"  -> "deleteRepo"
    [] s = "deleteRepo"     -> "forget"
    [] OTHER                -> "record"

Adds(s) ==
  CASE s = "ensureNetwork"  -> {"network"}
    [] s = "createCluster"  -> {"cluster"}
    [] s = "seedRepo"       -> {"repo"}
    [] s = "installArgoCD"  -> {"argocd"}
    [] s = "reconcileInfra" -> {"argocd"}
    [] OTHER                -> {}

\* Argo CD runs inside the cluster and goes with it.
Drops(s) ==
  CASE s = "deleteCluster" -> {"cluster", "argocd"}
    [] s = "deleteNetwork" -> {"network"}
    [] s = "deleteRepo"    -> {"repo"}
    [] OTHER               -> {}

\* What must exist for a stage to do anything at all ...
Needs(s) ==
  CASE s = "createCluster"                     -> {"network"}
    [] s \in {"installArgoCD", "reconcileInfra"} -> {"cluster"}
    [] s \in {"commitApps", "reconcileRepo"}   -> {"repo"}
    [] OTHER                                   -> {}

\* ... and what must not: a network still in use cannot be deleted.
BlockedBy(s) == IF s = "deleteNetwork" THEN {"cluster"} ELSE {}

Possible(s) == Needs(s) \subseteq cloud /\ BlockedBy(s) \cap cloud = {}
-----------------------------------------------------------------------------
(* Initial states and shared pieces of the actions. *)

NoRecord == [phase |-> Absent, version |-> 0, epoch |-> 0]

EmptyRow == [phase |-> Absent, version |-> 0, holder |-> NoHolder,
             live |-> FALSE, epoch |-> 0]

\* A row nobody is working on; only a pending one is still at its first version.
OldRow(old) ==
  [EmptyRow EXCEPT !.phase = old.phase,
                   !.version = IF old.phase = "pending" THEN 1 ELSE 3]

\* A new cluster ID, or a row left by an earlier run or an older binary.
Init ==
  /\ \/ row = EmptyRow /\ cloud = {}
     \/ \E old \in Leftovers :
          /\ row = OldRow(old)
          /\ cloud = old.cloud
  /\ pc = [r \in Runs |-> "get"]
  /\ rec = [r \in Runs |-> NoRecord]
  /\ tries = [r \in Runs |-> 1]
  /\ lost = 0
  /\ stopped = {}

\* The call returned: move on, and the next call starts at attempt 1.
Goto(r, p) ==
  /\ pc' = [pc EXCEPT ![r] = p]
  /\ tries' = [tries EXCEPT ![r] = 1]

\* A call is only made, and its reply only used, on a context that is not
\* cancelled; o.release detaches from the run's.
Listening(r) == r \notin stopped \/ pc[r] \in Releasing

At(r, p) == pc[r] = p /\ Listening(r)

\* The phase the run's UpdatePhase call is writing.
Target(r) == IF r \in Deletes THEN "decommissioning" ELSE NextPhase(rec[r].phase)

\* The row as the statement in flight leaves it.
InFlight(r) ==
  CASE pc[r] \in {"create", "revCreate"}   -> AfterInsert(row)
    [] pc[r] \in {"acquire", "revAcquire"} -> AfterAcquire(row, r)
    [] pc[r] \in {"revDelete", "forget"}   -> AfterDelete(row)
    [] pc[r] = "renew"                     -> AfterRenew(row, r)
    [] pc[r] = "record"                    -> AfterUpdate(row, rec[r], Target(r))
    [] pc[r] \in Releasing                 -> AfterRelease(row, r)
    [] OTHER                               -> row

\* What the row may be after a call whose reply never comes.
Outcomes(r) == {row} \cup IF Listening(r) THEN {InFlight(r)} ELSE {}

\* Mutant of OnError: a release is repeated, whatever became of it.
OnErrorReleasesAgain(p) ==
  CASE p = "createCheck"             -> "reget"
    [] p \in {"revGet", "revDelete"} -> "revRelease"
    [] p \in Releasing               -> p
    [] p \in Leased                  -> "releaseErr"
    [] OTHER                         -> "failed"

\* Mutant of OnError: a run that fails under its lease returns without giving it back.
OnErrorKeepsLease(p) ==
  CASE p = "createCheck"             -> "reget"
    [] p \in {"revGet", "revDelete"} -> "revRelease"
    [] p = "revReleaseGo"            -> "acquire"
    [] p = "releaseOk"               -> "done"
    [] OTHER                         -> "failed"

\* Where the error of a call or a stage takes the run.
OnError(p) ==
  CASE p = "createCheck"             -> "reget"
    [] p \in {"revGet", "revDelete"} -> "revRelease"
    [] p = "revReleaseGo"            -> "acquire"
    [] p = "releaseOk"               -> "done"
    [] p \in Leased                  -> "releaseErr"
    [] OTHER                         -> "failed"
-----------------------------------------------------------------------------
(* ensureRecord and reregister: a row to work on. *)

\* ensureRecord's first Get; Delete's Get.
GetRecord(r) ==
  /\ At(r, "get")
  /\ Goto(r, CASE row.phase = "decommissioned" /\ r \in Applies -> "revAcquire"
               [] ~Exists(row) /\ r \in Applies                  -> "create"
               [] ~Exists(row) /\ r \in Deletes                  -> "failed"
               [] OTHER                                          -> "acquire")
  /\ UNCHANGED <<row, cloud, rec, lost, stopped>>

\* Create: an insert that finds the row there may be our own earlier attempt.
CreateRecord(r) ==
  /\ At(r, "create")
  /\ row' = AfterInsert(row)
  /\ Goto(r, CASE Exists(row) /\ tries[r] > 1 -> "createCheck"
               [] Exists(row) /\ tries[r] = 1 -> "reget"
               [] OTHER                       -> "acquire")
  /\ UNCHANGED <<cloud, rec, lost, stopped>>

\* matchesOurInsert; ErrAlreadyExists is not an error to ensureRecord.
CheckCreated(r) ==
  /\ At(r, "createCheck")
  /\ Goto(r, IF LooksLikeOurInsert(row) THEN "acquire" ELSE "reget")
  /\ UNCHANGED <<row, cloud, rec, lost, stopped>>

GetAgain(r) ==
  /\ At(r, "reget")
  /\ Goto(r, IF Exists(row) THEN "acquire" ELSE "failed")
  /\ UNCHANGED <<row, cloud, rec, lost, stopped>>

\* The swap of a tombstone for a new record runs under the lease.
ReviveAcquire(r) ==
  /\ At(r, "revAcquire")
  /\ row' = AfterAcquire(row, r)
  /\ Goto(r, IF Acquirable(row, r) THEN "revGet" ELSE "failed")
  /\ UNCHANGED <<cloud, rec, lost, stopped>>

\* Mutant of ReviveGet: does not look whether another run revived it first.
ReviveGetUnchecked(r) ==
  /\ At(r, "revGet")
  /\ Goto(r, IF Exists(row) THEN "revDelete" ELSE "revRelease")
  /\ UNCHANGED <<row, cloud, rec, lost, stopped>>

\* The Get under the lease: another run may have revived the ID first.
ReviveGet(r) ==
  /\ At(r, "revGet")
  /\ Goto(r, CASE ~Exists(row)                   -> "revRelease"
               [] row.phase = "decommissioned"   -> "revDelete"
               [] OTHER                          -> "revReleaseGo")
  /\ UNCHANGED <<row, cloud, rec, lost, stopped>>

\* The row goes, and the lease with it.
ReviveDelete(r) ==
  /\ At(r, "revDelete")
  /\ row' = AfterDelete(row)
  /\ Goto(r, "revCreate")
  /\ UNCHANGED <<cloud, rec, lost, stopped>>

\* Here ErrAlreadyExists is an error: the apply fails.
ReviveCreate(r) ==
  /\ At(r, "revCreate")
  /\ row' = AfterInsert(row)
  /\ Goto(r, CASE Exists(row) /\ tries[r] > 1 -> "revCreateCheck"
               [] Exists(row) /\ tries[r] = 1 -> "failed"
               [] OTHER                       -> "acquire")
  /\ UNCHANGED <<cloud, rec, lost, stopped>>

ReviveCheckCreated(r) ==
  /\ At(r, "revCreateCheck")
  /\ Goto(r, IF LooksLikeOurInsert(row) THEN "acquire" ELSE "failed")
  /\ UNCHANGED <<row, cloud, rec, lost, stopped>>
-----------------------------------------------------------------------------
(* Apply and Delete: the walk under the lease. *)

AcquireLease(r) ==
  /\ At(r, "acquire")
  /\ row' = AfterAcquire(row, r)
  /\ Goto(r, IF Acquirable(row, r) THEN "reread" ELSE "failed")
  /\ UNCHANGED <<cloud, rec, lost, stopped>>

\* Mutant of ApplyFrom: a teardown under way is not refused.
ApplyFromAnything(p) == IF p = "ready" THEN "reconcileInfra" ELSE "renew"

\* What an apply does with the record it finds, here and after each advance.
ApplyFrom(p) ==
  CASE p \in {"decommissioning", "decommissioned"} -> "releaseErr"
    [] p = "ready"                                 -> "reconcileInfra"
    [] OTHER                                       -> "renew"

\* Mutants of DeleteFrom: a live cluster is torn down unmarked; a teardown
\* under way is taken for a finished one; a tombstone is left alone.
DeleteFromUnmarked(p) == IF p = "decommissioned" THEN "forget" ELSE "deleteCluster"

DeleteFromFinished(p) ==
  IF p \in {"decommissioning", "decommissioned"} THEN "forget" ELSE "record"

DeleteFromKeepsTombstone(p) ==
  CASE p = "decommissioning" -> "deleteCluster"
    [] p = "decommissioned"  -> "releaseErr"
    [] OTHER                 -> "record"

\* What a delete does with the record it finds.
DeleteFrom(p) ==
  CASE p = "decommissioning" -> "deleteCluster"
    [] p = "decommissioned"  -> "forget"
    [] OTHER                 -> "record"

\* The Get under the lease that decides what is left to do.
Reread(r) ==
  /\ At(r, "reread")
  /\ rec' = [rec EXCEPT ![r] = Read(row)]
  /\ Goto(r, CASE ~Exists(row)                 -> "releaseErr"
               [] Exists(row) /\ r \in Applies -> ApplyFrom(row.phase)
               [] OTHER                        -> DeleteFrom(row.phase))
  /\ UNCHANGED <<row, cloud, lost, stopped>>

\* advance's RenewLease before each step.
RenewBeforeStep(r) ==
  /\ At(r, "renew")
  /\ row' = AfterRenew(row, r)
  /\ Goto(r, IF Renewable(row, r) THEN FirstStage(rec[r].phase) ELSE "releaseErr")
  /\ UNCHANGED <<cloud, rec, lost, stopped>>

\* Mutant of Recorded: the walk goes on with the record it had.
RecordedKeepsOld(r, w) ==
  /\ UNCHANGED rec
  /\ Goto(r, IF r \in Applies THEN ApplyFrom(w.phase) ELSE DeleteFrom(w.phase))

\* UpdatePhase returned the record w: walk on.
Recorded(r, w) ==
  /\ rec' = [rec EXCEPT ![r] = Read(w)]
  /\ Goto(r, IF r \in Applies THEN ApplyFrom(w.phase) ELSE DeleteFrom(w.phase))

RecordPhase(r) ==
  /\ At(r, "record")
  /\ row' = AfterUpdate(row, rec[r], Target(r))
  /\ \/ Matches(row, rec[r]) /\ Recorded(r, row')
     \/ /\ ~Matches(row, rec[r])
        /\ Goto(r, IF tries[r] > 1 THEN "recordCheck" ELSE "releaseErr")
        /\ UNCHANGED rec
  /\ UNCHANGED <<cloud, lost, stopped>>

\* A retried update that matched nothing may have landed earlier.
CheckRecorded(r) ==
  /\ At(r, "recordCheck")
  /\ \/ LooksLikeOurUpdate(row, rec[r], Target(r)) /\ Recorded(r, row)
     \/ /\ ~LooksLikeOurUpdate(row, rec[r], Target(r))
        /\ Goto(r, "releaseErr")
        /\ UNCHANGED rec
  /\ UNCHANGED <<row, cloud, lost, stopped>>

\* forget: the last act of a teardown.
ForgetRecord(r) ==
  /\ At(r, "forget")
  /\ row' = AfterDelete(row)
  /\ Goto(r, "releaseOk")
  /\ UNCHANGED <<cloud, rec, lost, stopped>>

\* The deferred release, and reregister's; its failure is only logged.
ReleaseLease(r) ==
  /\ pc[r] \in Releasing
  /\ row' = AfterRelease(row, r)
  /\ Goto(r, OnError(pc[r]))
  /\ UNCHANGED <<cloud, rec, lost, stopped>>
-----------------------------------------------------------------------------
(* The steps themselves. *)

\* The stage's request takes effect in the cloud, before the run hears of it.
StageLands(r) ==
  /\ pc[r] \in Stages
  /\ r \notin stopped
  /\ Possible(pc[r])
  /\ cloud' = (cloud \cup Adds(pc[r])) \ Drops(pc[r])
  /\ cloud' # cloud
  /\ UNCHANGED <<row, pc, rec, tries, lost, stopped>>

\* The stage returns once the cloud reports what it was to bring about
\* (WaitUntilActive, WaitUntilGone); finding it there already is the same.
StageReturns(r) ==
  /\ pc[r] \in Stages
  /\ r \notin stopped
  /\ Possible(pc[r])
  /\ Adds(pc[r]) \subseteq cloud
  /\ Drops(pc[r]) \cap cloud = {}
  /\ Goto(r, AfterStage(pc[r]))
  /\ UNCHANGED <<row, cloud, rec, lost, stopped>>

StageFails(r) ==
  /\ pc[r] \in Stages
  /\ r \notin stopped
  /\ Flaky \/ ~Possible(pc[r])
  /\ Goto(r, "releaseErr")
  /\ UNCHANGED <<row, cloud, rec, lost, stopped>>
-----------------------------------------------------------------------------
(* What happens to a run, rather than by it. *)

\* Mutant of MayRetry: one attempt too many.
MayRetryOnceMore(r) == tries[r] <= Attempts

\* retry: attempts counts up to the policy's limit.
MayRetry(r) == tries[r] < Attempts

\* retry: the connection drops before or after the statement landed.
LoseCall(r) ==
  /\ pc[r] \in Lossy
  /\ Listening(r)
  /\ lost < MaxLost
  /\ lost' = lost + 1
  /\ row' \in Outcomes(r)
  /\ IF MayRetry(r)
       THEN tries' = [tries EXCEPT ![r] = @ + 1] /\ UNCHANGED pc
       ELSE Goto(r, OnError(pc[r]))
  /\ UNCHANGED <<cloud, rec, stopped>>

\* keepLeaseAlive's tick.  A renewal that fails for any other reason is only
\* logged, which is no step at all.
Heartbeat(r) ==
  /\ pc[r] \in Leased
  /\ r \notin stopped
  /\ \/ Renewable(row, r) /\ row' = AfterRenew(row, r) /\ UNCHANGED stopped
     \/ /\ ~Renewable(row, r)
        /\ stopped' = stopped \cup {r}
        /\ row' \in Outcomes(r)
  /\ UNCHANGED <<cloud, pc, rec, tries, lost>>

\* Ctrl-C: the statement in flight is abandoned, landed or not.
Interrupt(r) ==
  /\ r \in Interruptible \ stopped
  /\ pc[r] \notin Ended \cup Releasing
  /\ stopped' = stopped \cup {r}
  /\ row' \in Outcomes(r)
  /\ UNCHANGED <<cloud, pc, rec, tries, lost>>

\* A cancelled run's call, or its next one, fails at once; retry does not try
\* again.
Abort(r) ==
  /\ r \in stopped
  /\ pc[r] \notin Ended \cup Releasing
  /\ Goto(r, OnError(pc[r]))
  /\ UNCHANGED <<row, cloud, rec, lost, stopped>>

\* The process is killed: no deferred release runs.
Crash(r) ==
  /\ r \in Crashable
  /\ pc[r] \notin Ended
  /\ row' \in Outcomes(r)
  /\ Goto(r, "crashed")
  /\ UNCHANGED <<cloud, rec, lost, stopped>>

\* lease_expires_at passes: the holder stopped renewing, or its renewals are
\* not getting through.
Lapse ==
  /\ row.live
  /\ Lapses \/ (row.holder \in Runs /\ pc[row.holder] \in Ended)
  /\ row' = AfterLapse(row)
  /\ UNCHANGED <<cloud, pc, rec, tries, lost, stopped>>
-----------------------------------------------------------------------------
Claim(r) ==
  \/ GetRecord(r) \/ CreateRecord(r) \/ CheckCreated(r) \/ GetAgain(r)
  \/ ReviveAcquire(r) \/ ReviveGet(r) \/ ReviveDelete(r)
  \/ ReviveCreate(r) \/ ReviveCheckCreated(r) \/ AcquireLease(r)

Walk(r) ==
  \/ Reread(r) \/ RenewBeforeStep(r) \/ RecordPhase(r) \/ CheckRecorded(r)
  \/ ForgetRecord(r) \/ ReleaseLease(r)

Answered(r) == StageReturns(r) \/ StageFails(r)

\* The steps a run that is scheduled, and answered, takes.
Progress(r) == Claim(r) \/ Walk(r) \/ Answered(r) \/ Abort(r)

Faults(r) == LoseCall(r) \/ Heartbeat(r) \/ Interrupt(r) \/ Crash(r)

\* Every run is over.
AllOver ==
  /\ \A r \in Runs : pc[r] \in Ended
  /\ UNCHANGED vars

Next ==
  \/ \E r \in Runs : Progress(r) \/ StageLands(r) \/ Faults(r)
  \/ Lapse
  \/ AllOver

\* A run that is not killed keeps executing: each call it makes is answered
\* or times out, and the cloud does what it accepted to do.  The lease of a
\* run that ended expires.
Fairness ==
  /\ WF_vars(Lapse)
  /\ \A r \in Runs : WF_vars(Progress(r)) /\ WF_vars(StageLands(r))

Spec == Init /\ [][Next]_vars /\ Fairness
-----------------------------------------------------------------------------
(* What must hold. *)

\* Every variable keeps its type.
TypeOK ==
  /\ row \in Row
  /\ cloud \in SUBSET Resources
  /\ pc \in [Runs -> Places]
  /\ rec \in [Runs -> Record]
  /\ tries \in [Runs -> 1..Attempts]
  /\ lost \in 0..MaxLost
  /\ stopped \in SUBSET Runs

\* The lease's purpose (lease.go, ErrLeaseLost): two runs never mutate one
\* cluster's cloud resources at the same time.
WorkExclusive ==
  \A r, s \in Runs : pc[r] \in Stages /\ pc[s] \in Stages => r = s

\* A run at work goes by the record as it stands: the re-read under the lease
\* (Apply, Delete) and the lease together leave no room for a stale one.
WorkerIsCurrent ==
  \A r \in Runs : pc[r] \in Stages \cup {"renew"} => rec[r] = Read(row)

\* What must exist in the cloud when the record is at a phase, for the next
\* run to be able to resume there.
Built(p) ==
  CASE p \in {"cluster-created", "identity-bound"}   -> {"network", "cluster"}
    [] p = "repo-pushed"                             -> {"network", "cluster", "repo"}
    [] p \in {"argocd-installed", "ready"}           -> Resources
    [] OTHER                                         -> {}

\* The phase is only recorded once its work is done (createClusterStep), and
\* no concurrent run undoes that work behind the record.
PhaseHonest == Built(row.phase) \subseteq cloud

\* The registry is a resume log (Delete): whatever exists in the cloud, a
\* record says so, and once the record is gone nothing is left behind.
NothingUnrecorded ==
  ~Exists(row) \/ row.phase = "decommissioned" => cloud = {}

\* Within one incarnation of the row, a phase changes by a legal transition
\* and takes the next version with it; whoever writes, and however stale.
LegalMove ==
  row'.epoch = row.epoch /\ Exists(row) /\ Exists(row') /\ row'.phase # row.phase
    => CanTransition(row.phase, row'.phase) /\ row'.version = row.version + 1

LegalMoves == [][LegalMove]_vars

\* A cluster whose teardown started is never provisioned again under the same
\* record (ErrDecommissioning): the only way out is the record's removal.
OneWay ==
  row.phase = "decommissioning" /\ row'.phase # "decommissioning" => ~Exists(row')

DecommissioningIsOneWay == [][OneWay]_vars

\* An existing record is moved, or removed, only while a run that holds its
\* unexpired lease is the one making the call.
MovedByHolder ==
  Exists(row) /\ row'.phase # row.phase
    => \E r \in Runs :
         /\ row.holder = r /\ row.live
         /\ pc[r] \in {"record", "forget", "revDelete"}

OnlyHolderMoves == [][MovedByHolder]_vars

\* A lease only outlives a run that was not killed when Ctrl-C reached it in the
\* very call that took the lease, before it had a release to defer.
KeptByInterrupt(r) == r \in stopped /\ rec[r] = NoRecord

\* Every way out of Apply, Delete and reregister gives the lease back (the
\* deferred release, on a context of its own), as long as no call is lost.
LeaseGivenBack ==
  \A r \in Runs :
    lost = 0 /\ row.holder = r /\ pc[r] \in {"done", "failed"} => KeptByInterrupt(r)

\* A phase is written over the row it was read from, not over a later cluster's
\* (the contract of Registry).
WriteNotStale ==
  row'.epoch = row.epoch /\ Exists(row) /\ Exists(row') /\ row'.phase # row.phase
    => \E r \in Runs : pc[r] = "record" /\ rec[r].epoch = row.epoch

StaleWritesRejected == [][WriteNotStale]_vars

\* Every run ends, and the cluster does not stay blocked behind one that died.
ClusterComesFree == <>[](~row.live /\ \A r \in Runs : pc[r] \in Ended)

\* A teardown another run left half done, that no delete of these took up: each
\* was turned away by the lease before it read the record.
TeardownLeftAsFound ==
  /\ row.phase = "decommissioning"
  /\ \A d \in Deletes : pc[d] = "failed" /\ rec[d] = NoRecord

\* From whatever an earlier run left, once its lease is gone, when no call is
\* lost, no step fails and nobody is interrupted or killed, runs that race for
\* the cluster get it ready or remove it, and leave half of neither (Apply,
\* Delete).  They only leave a teardown as they found it, when an apply that
\* will refuse it (ErrDecommissioning) holds the lease while every delete asks
\* for it.
Converges ==
  <>[](\/ row.phase = "ready" /\ cloud = Resources
       \/ ~Exists(row) /\ cloud = {}
       \/ TeardownLeftAsFound)

\* Apply drives a cluster to ready, resuming from whatever phase it is in.
ApplySucceeds == \A r \in Applies : pc[r] # "failed"
=============================================================================
