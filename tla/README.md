# kubespin in TLA+

TLA+ modules, TLC runs and TLAPS proofs about kubespin, the tool that
provisions Kubernetes clusters on AWS, GCP and Azure and hands them to Argo CD.
What is modelled is what several processes can get wrong together: two operators
who run `kubespin apply` or `kubespin delete` for one cluster, a registry that
loses replies, leases that expire, a cloud that takes its time, runs that are
interrupted or killed between any two calls, a Helm release left half done, and
a Git repository that others push to.  `PROJECT.json` maps every definition to the
lines it models and lists runs, mutants, findings, hazards and theorems.

## The system

`apply` and `delete` are processes on an operator's or CI machine.  They share
no memory; they meet in the registry (one Postgres table, one row per cluster),
in the cloud account, in the cluster's GitHub repository and in the cluster
itself.

| component | state it keeps | operations | hard because |
|---|---|---|---|
| phases (`core/phase.go`) | none | `Next`, `CanTransition` | a legacy phase is still resumed |
| registry (`registry/`) | per cluster: phase, version, lease holder and expiry | `Get`, `Create`, `UpdatePhase` (compare and swap on phase and version), `Delete` (unconditional), `AcquireLease`, `RenewLease`, `ReleaseLease` | every call is retried when the connection drops, whether or not the statement landed |
| orchestrator (`orchestrator/orchestrator.go`, `delete.go`) | a copy of the record | `Apply`, `Delete`, `reregister`, `advance`, `release` | reads before and after the lease, tombstones revived by two runs, every exit must release |
| heartbeat (`orchestrator/lease.go`) | a ticker | renews during a step, cancels the run when the lease is another's | slow calls, clocks that differ, missed renewals |
| steps (`orchestrator/steps.go`) | none | network, cluster, repository, Argo CD; reverse order in `Teardown` | partial failure, resume, resources that land after the run died |
| cluster repository (`repo/`) | one branch: `cluster.yaml`, `addons.yaml`, `.state.yaml`, `apps/*` | `Create`, `Clone`, `Push`, `Seed`, `ReconcileAddons`, `ReconcileAppOfApps`, `Delete` | reads are not transactions, the branch moves, a push is retried, a run dies between commits |
| wait loops (`provisioner/provisioner.go`) | deadline, consecutive failures | `WaitUntilActive`, `WaitUntilGone` | polling an asynchronous cloud another run may have set going |
| cloud provisioners (`provisioner/aws`, `gcp`, `azure`) | none; the cloud does | `Create`, `Describe`, `Reconcile`, `Delete`, networks | many calls each, each may be the last one |
| Argo CD (`argocd/`) | Helm release history | `Install`, `Apply`, rendering | pending releases of killed runs, CRDs that appear late |
| catalog (`catalog/`) | none | `Merge`, `ResolveForCluster` | pure |
| CLI, auth, kubeconfig, version, tools, website | none that is shared | | |

One call chain: `cli.runApply` calls `Orchestrator.Apply`, which reads or creates
the row, takes the lease, re-reads the row and then, phase by phase, renews the
lease, runs the step under a heartbeat and records the next phase.  The steps
call the cloud, the repository and Argo CD.  At `ready` an apply runs
`ReadyReconcile` instead.  `Delete` records `decommissioning`, runs `Teardown`
and removes the row.

What makes each component correct:

- registry: a phase moves only along a legal transition, each move takes the
  next version, and a write that was not read from the row as it is fails;
- orchestrator: one run at a time works on a cluster; the record never says more
  than exists, and what exists has a record; every exit frees the cluster;
  racing runs end with all of a cluster or none;
- heartbeat: a live run keeps its lease, a dead one does not keep the cluster;
- repository: `.state.yaml` tells the truth about its own commit, a successful
  apply brings the repository in line whatever was left half done, nothing is
  committed needlessly, and a push discards nothing that others pushed meanwhile
  (which the code keeps only for files kubespin does not write);
- steps and wait loops: a phase is recorded for a cluster that became active, a
  forgotten one is gone, the network outlives the cluster and the repository
  both, a blip does not end a wait and a dead cloud does;
- provisioners: whatever a stopped run left half done, a later apply completes
  and a later delete removes; nothing is taken from under what runs on it; a
  converged cluster is not written to;
- Argo CD: past the installation the wanted version runs, manifests run for as
  long as a revision says deployed, a failed apply is cured by repeating it;
- catalog, validation, rendering: pure functions the unit tests reach.

## Modules

| module | models | how |
|---|---|---|
| `Phases` | `core/phase.go` | phases as strings, `NextPhase`, `CanTransition` |
| `Registry` | the statements of `postgres.go` | a row is a record; each statement is an operator from row to row (`AfterUpdate`, `AfterAcquire`, ...) with its WHERE clause beside it (`Matches`, `Acquirable`, `Renewable`) |
| `Orchestrator` | `orchestrator.go`, `delete.go`, `steps.go`, `retry.go` | one cluster, any number of runs; `pc` names the call or stage a run is in; one action per call |
| `ClusterLifecycle` | what the orchestrator promises | one owner at a time, who builds or removes; no rows, versions, retries |
| `LifecycleMapping` | | `ClusterLifecycle` read off the variables of `Orchestrator`: the owner is the holder of the unexpired lease |
| `Lease` | `lease.go` and the lease statements in time | a discrete clock, a clock offset per run, calls with a duration |
| `ClusterSteps` | `createClusterStep`, `Teardown`, `WaitUntilActive`, `WaitUntilGone`, `drainLoadBalancers` | runs one after the other against an asynchronous cloud, with Argo CD and finalizers at work |
| `CloudCalls` | what the provisioners share | the resources that exist as a set of tuples, a call as a record: what it makes or discards, what it needs or what blocks it |
| `Aws`, `Gcp`, `Azure` | `provisioner/aws`, `gcp`, `azure` | each Go function as the sequence of calls it makes, computed when it is entered |
| `Provisioners` | runs of the three | one call per step, a run stopping between any two, the next one starting over |
| `ArgoInstall` | `argocd/install.go`, `apply.go`, the step that calls them | Helm's release history, one action per write of Helm's |
| `RepoSync` | `internal/repo` | commits as trees; files as the profile they were rendered from; GitHub calls one by one |
| `MC...` | | the instances TLC checks |
| `OrchestratorProofs`, `OrchestratorCloudProofs`, `RefinementProofs`, `LeaseProofs`, `ClusterStepsProofs`, `ArgoInstallProofs`, `RepoSyncProofs`, `ProvisionersProofs` | | theorems |

How they fit.  `Orchestrator` shows that the lease keeps runs apart; the modules
about what a run does (`ClusterSteps`, `Provisioners`, `ArgoInstall`) therefore
take one run at a time, each of which may stop anywhere.  In `Orchestrator` a
stage is one change of the cloud; `ClusterSteps` opens the stages of creating and
deleting a cluster, `Provisioners` their calls, `ArgoInstall` and `RepoSync` the
rest of the walk.  `Lease` says when `Orchestrator` may take leases not to lapse.

**Orchestrator.**  `row` is the row of `fleet_registry`; `row.live` says that the
lease has not expired, `row.epoch` counts the incarnations of a row that is
deleted and registered anew (a history variable; the code has no such column).
`cloud` is the set of resources that exist, `rec` each run's last `Record`,
`tries` the attempt number of `Postgres.retry`, `stopped` the runs whose context
is cancelled.  A statement and its reply are one action; `LoseCall` is the case
that the reply, or the request, is lost, after which the statement may or may not
have been executed and is tried again up to `Attempts` times.  `Heartbeat`
cancels a run whose lease is another's; `Interrupt` is Ctrl-C and leaves
`release` alone, which runs on a context of its own; `Crash` ends a run at any
point; in each of these the statement in flight may land.  A stage lands
(`StageLands`) and returns (`StageReturns`) in two steps, and may fail on either
side of landing.  A stage can only land when what it needs exists (`Possible`).

**Lease.**  `expires` is computed by the client before the first attempt, as the
code does, from its own clock, so a renewal that takes long gives a shorter
lease.  Every call happens up to `MaxDelay` after it was issued; the heartbeat's
renewal and the one before a step (`RenewBeforeStep`) happen in either order, so
that the older may take the expiry back.

**ClusterSteps.**  `status` is the cluster in the cloud; "requested" is one the
cloud accepted and does not show yet.  `services` are the load balancers of the
addons, which go through a finalizer; `controller` is Argo CD's, which
`stopArgoCDSync` scales to zero without waiting (`stopping`).  `failures` is the
loop's own count of failed polls, `unanswered` the history the property compares
it with.  `RunStops` is any error of a step, Ctrl-C or a kill.  Until the
controller has stopped it may sync (`Sync`), also after the drain has listed the
Services; `recreated`, a history variable, holds the Services that came about
then.  `Overtakes` (a run starts before the cloud shows the last one's request) is
a constant: `teardown` and the proofs are for when that does not happen.

**Aws, Gcp, Azure, Provisioners.**  `have` holds the resources and settings:
`<<"subnet", "a">>`, `<<"policy", "node", "cni">>`, `<<"bounds", p>>`.  `Make`
creates what is missing once what it needs exists, which is the "describe, then
create" of the `ensure` functions; `Discard` deletes what is found unless a blocker is
there, `Retry` is a discard that waits for the blocker and gives up at last; `Do`
enters another function.  A call that cannot succeed ends the run
(`CallRefused`), `RunStops` ends it anywhere.  The initial states are a new
cluster or one that is ready, with what an older kubespin left (roles bound by
IRSA on AWS, a firewall rule on GCP); `Drift` takes a setting away by hand.

**ArgoInstall.**  `history` is Helm's list of revisions, `live` the version whose
manifests the cluster runs ("mixed" when a submission stopped half way).  An
install, upgrade or rollback is: create the revision pending, submit and wait,
supersede, record deployed; `Killed` may come between any two.  `cached` is the
discovery document of the REST mapper, `served` whether the API server has
Argo CD's kinds.

**RepoSync.**  `ReadRef`, `ReadFiles`, `Push`, `PushRejected` and `ReReadRef` are
the GitHub calls of `Clone` and `Push`; what to commit is computed from what
`ReadFiles` returned and never again.  `cluster.yaml` and `addons.yaml` are
written together and are one file; so are the two hashes of them.  `Stale` names the
reads that may be answered from before the last push, which `pushRetries`'s
comment says GitHub does, and `EditPaths` the files the operator edits.  In
`repository` the ref may be stale and the files are not; the operator edits files
kubespin writes once or rewrites, at any moment.  What an apply leaves of an
edited file is the code's choice: it goes by hashes of what it renders, so the
edit stays until the profile changes.  Hence `Rendered`, the content that
kubespin rendered or somebody's edit of it, in `HashesHonest` and `InLine`.

## Runs

| run | instance | shows |
|---|---|---|
| `races` | 2 applies, 1 delete; 2 lost calls, 2 attempts; Ctrl-C on one apply, kills of the other runs; flaky steps; a new ID, a tombstone or a legacy row | mutual exclusion, current records, honest phases, nothing unrecorded, every exit gives the lease back, no write from a stale record, only the holder moves the record; refines `ClusterLifecycle` |
| `comesFree` | 1 apply, 1 delete; anything lost, interrupted, killed; leases lapse under live runs | legal moves and one-way teardown need no lease at all; liveness: every run ends, the cluster comes free |
| `converges` | 2 applies, 2 deletes, no fault, over what a dead run may have left at any phase | liveness: a complete cluster or none, or a half-torn one as it was found |
| `heartbeat` | TTL 12, interval 4, calls of 1, clocks 1 apart, up to 3 misses in a row, 30 ticks | a live run that has missed one renewal in a row at most keeps its lease; a dead one blocks for the TTL at most |
| `teardown` | 2 applies, any number of deletes, 2 Services, 2 polls in a row, 3 faults | recorded was active, forgotten is gone, teardown in reverse, a drain that was not given up leaves none of the load balancers it listed, waits not cut short; liveness: every run ends, a repeated delete converges |
| `provisioners` | every cloud and option, 2 node pools, 2 faults | a delete leaves nothing it can find, an apply leaves everything usable, nothing is pulled away, a converged cluster is not written to, the CNI precedes the nodes; liveness: repeated applies and deletes end |
| `argocd` | 2 versions, 2 changes of profile, 3 faults | the wanted version runs, manifests run while a revision says deployed, Helm accepts what is chosen, the wait for a kind ends in truth; liveness: a repeated apply succeeds |
| `repository` | 3 applies, 2 profiles with common and separate addons, 2 push attempts, 2 edits of kubespin's files, refs one push behind | but for edits, hashes honest and applies converge; no needless commit; a push discards nothing pushed meanwhile, but for what a rebuilt one writes itself |
| `lostDelete`, `legacyIdentity`, `leakedGateway`, `stuckUninstall` | the least that shows it | what the code does against what it says: see below |

Bounds and why they are enough.  A lost call matters when it is repeated after
another run has moved, so two attempts and two lost calls let two runs each be
caught by the other in that window; two applies and a delete are enough for
revival races (two appliers) against a teardown, and the proofs carry the
safety properties to any number of runs, attempts and losses.
The DELETE statement is left out of the calls that `races` loses: `lostDelete`
shows what happens then, and the theorems name the same assumption.  Thirty
ticks are two and a half TTLs, so a run can take the lease, lose it and see it
taken twice.  In `teardown` three faults reach the limit of failed polls with one
to spare for a stopped run or a failing cluster, and two applies let a cluster be
built again after a delete.  In `provisioners` two faults let a run stop, and the run
that repairs it stop too, or a run stop on a cluster that was changed by hand;
two pools tell "a pool" from "every pool", one being reached while the other is
still missing; `ProvisionersProofs` carries its safety to any pools and faults.
In `argocd` three faults let a run be killed, its recovery be killed, and that
one's recovery fail; two changes of profile let the wanted version change and
come back.  Three applies of `repository` are enough for one to die, another to
die in the middle of repairing that, and a third to succeed; its two edits and
two attempts let a push be rebuilt over an edit of a file it writes and one of a
file it does not, or be rejected for good.

The leftovers of `converges` are all a run that died at a phase can have left,
`LeftAt` of `MCOrchestrator`, a teardown interrupted at any of its steps
included, with the dead run's lease gone.  One is left out, `identity-bound` without a
repository, which `legacyIdentity` is about.  From a half-torn row there is a third
outcome, `TeardownLeftAsFound`: an apply that will refuse the row holds the lease
just while every delete asks for it, so all of them fail and the next delete
has to do it.

Fairness.  In every module a process that is not killed executes (weak fairness
of its own steps) and nothing is assumed of losses, interruptions, kills or
faults; no strong fairness anywhere.  What is assumed beyond:

- `Orchestrator`: a call returns, since `RetryPolicy` bounds each attempt; the
  cloud does what it accepted (`StageLands`); time passes (`Lapse`).
- `ClusterSteps`: time passes (`DeadlinePasses`), and a delete that failed is
  repeated, which the error messages ask for.  That the cloud finishes what it
  accepted (`CloudWorks`) is not part of the specification: `RunsEnd` holds
  without it, since every wait has a deadline, and `DeleteConverges` names it as
  its premise.
- `Provisioners`: the cloud finishes, what a load balancer left goes in the end,
  and the operator repeats the command that did not finish.
- `ArgoInstall`: a failed apply is repeated, and the API server establishes the
  kinds of a chart it was given.
- `Lease` and `RepoSync` are checked for safety only and state none.

Deadlock is not checked in `heartbeat`, whose clock stops at `MaxTime`, and in
`provisioners` and `leakedGateway`, where nothing happens any more once the record
is gone.

## Where the code differs from what it says

Four are runs with expected violation, whose findings are in `PROJECT.json`.

- `lostDelete`: a repeated DELETE wipes the row and the lease of the apply that
  re-registered the ID in between; two runs then provision.
- `legacyIdentity`: an apply that resumes at `identity-bound` skips seeding the
  repository and gets stuck behind it.
- `leakedGateway`: a run that is killed with its Internet Gateway detached leaves
  it for good: a delete looks the gateway up by its VPC.
- `stuckUninstall`: two disagreements in one trace.  A run killed between
  superseding one revision and recording the next leaves no deployed revision, and
  the recovery uninstalls the release of a ready cluster (`install.go:321-325`; what
  holds is `DeployedKeepsRunning`).  A recovery that is killed inside its own
  uninstall leaves a release that no later apply clears; each ends with an error
  of Helm's.

Of the following the modules show each when a constant or a property is changed,
as said; no run is kept for them, and the passing runs and the theorems name what
they assume instead.

- Argo CD is scaled to zero and not waited for, so it may recreate a Service the
  drain has already listed or deleted (`steps.go:447-458` against 428-429), and a
  load balancer is orphaned by a delete that gave nothing up: `NoSilentOrphans` is
  violated in `teardown`.  What holds is `DrainIsThorough`: of those it listed, a
  drain that was not given up leaves none.
- A delete that follows an apply which stopped right after its request is shown no
  cluster, and deletes the network under it (`steps.go:290` against
  `provisioner.go:266-267`): with `Overtakes = TRUE`, `TornDownInReverse` is violated.
- A run that cannot reach the registry works on beyond its lease, beside the run
  that took it: out of its reach is not out of everybody's (`lease.go:85` against
  92-97).  With `Lapses = TRUE`, `WorkExclusive` is violated.
- Versions restart at 1 when an ID is registered anew (`postgres.go:270` against
  `registry.go:134-135`), so a run whose lease lapsed can move the row of the
  cluster that has the ID now with its record of the one that had it before.
  `Orchestrator` counts incarnations (`epoch`) to tell the two apart, and `LegalMoves`
  is about one incarnation.  With `Lapses = TRUE`, `StaleWritesRejected` is violated.
- A reconcile that reads `.state.yaml` before GitHub shows the previous push takes
  that push's hash out of it again (`repo/provisioner.go:310`, `seed.go:30-31`).  With
  "files" in `Stale`, `FieldsKept` is violated.
- A retried push puts the files it computed before over a change of the same ones
  (`repo/provisioner.go:438` against 25-27): `ConcurrentChangesKept` is violated in
  `repository`.  What holds is `OthersChangesKept`.

Smaller ones met on the way:

Registry and lease:
- a retried insert also claims a row that is leased (`postgres.go:253` against the
  comment at 244);
- an expired lease that still names the holder is renewed (`postgres.go:515`
  against `registry.go:167-169`);
- three renewals per TTL do not leave room for two misses, for the third is due at
  the instant of expiry (`lease.go:21`): `LeaseProofs` needs room for one;
- an interrupted `AcquireLease` may have landed and is not released
  (`orchestrator.go:189` against 407-408), the one exit `LeaseGivenBack` exempts
  (`KeptByInterrupt`);
- a delete of a tombstone never runs teardown again (`delete.go:54` against
  `steps.go:261`).

Provisioners:
- the retry of `DeleteVpc` on a dependency (`aws/network.go:391-395`, 546-548) cannot
  help, for the security groups and subnets deleted before it fail on the same
  dependency;
- `carveSubnetCIDR` gives the second zone of a /24 VPC a range outside the VPC
  (`aws/network.go:603-627` against 600-602);
- the node role of an EKS cluster is deleted only while the cluster is there
  (`aws/cluster.go:500`), so one that was deleted by hand, which is not modelled,
  leaves it;
- an OIDC provider whose cluster is gone is never found again, as
  `aws/cluster.go:488-493` admits; `NothingLeft` makes the same exception;
- Azure's virtual network and subnet are created without waiting
  (`azure/azure.go:223-243`).

Argo CD:
- Install and Upgrade wait for the release (`install.go` sets `Wait`), where
  `apply.go:115-116` says that they do not; a rollback does not wait;
- `ReadyReconcile` upgrades the chart and never applies the credentials or the
  root Application again;
- an override that disables `argocd`, as `docs/examples.md:331` does another addon,
  makes every apply fail at `steps.go:110`, where `catalog.go:57-59` says that
  every cluster gets Argo CD.

## Proofs

`OrchestratorProofs`, for every set of runs, any `Attempts`, `MaxLost`, leftovers
and faults:

- `TypeCorrect`.  By induction; `StatementsTyped` says that every statement leaves
  a well-formed row, `InFlightTyped` that whatever is in flight does.
- `PhaseMovesLegal`, `TeardownIsOneWay`.  The WHERE clause of `UpdatePhase`
  compares the phase with the run's record, so all that is needed is that the
  record a run advances from is one that can be advanced: `AdvancesLive`, an
  inductive invariant over `rec` and `pc`.  No lease is needed, and the theorems
  hold while leases lapse and calls are lost.
- `Exclusion`, `MovesAreTheHolders`, `Currency`, under `LeaseAssumptions`: leases
  do not lapse under live runs and no DELETE is lost.  The inductive invariant is
  `LeaseInv`: a run that relies on the lease is the holder of a live lease on an
  existing row.  `Relies` is wider than "at work": it begins at the re-read and
  includes the revival of a tombstone, because the DELETE of `reregister` is safe
  only for the holder.  `Currency` adds that the record read under the lease is
  the row, which others leave alone (`OthersLeaveRow`).
- `NoStaleWrites` (`StaleWritesRejected`), under the same assumptions: a run that
  relies on the lease has a record of the incarnation that is there (`SameEpoch`).
- `LeaseReturned` (`LeaseGivenBack`), without them, for as long as no call is
  lost: a row that does not exist has no holder, a run has no record before its
  re-read, and the holder is always at a place from which it comes to a release
  (`HolderPlaced`).

`OrchestratorCloudProofs`, under `CloudAssumptions`: `LeaseAssumptions`, and that the
rows an older binary left were themselves honest, one at `identity-bound` with
its repository in place (the case `legacyIdentity` shows is excluded):

- `RecordedExists` (`PhaseHonest`) and `NothingForgotten` (`NothingUnrecorded`).
  `StagePhases` ties each stage to the phase it is entered at and to who enters it
  and needs no lease; with `Currency` that phase is the row's.  `CloudInv` adds,
  for each run, what it has brought about so far (`Done`): what it is about to
  record exists, what it is about to forget is gone.  The other runs leave that
  alone because they hold no lease; this is where the induction needs `LeaseInv`.

`RefinementProofs`: `Refinement`, `CloudAssumptions /\ Spec => ImplementsLifecycle`.  One
lemma per statement: an insert registers, an acquisition or renewal takes the
cluster or stutters, an update advances or condemns, a delete forgets, a release
or a lapse leaves; a stage that lands builds or removes.  The one fact more it
needs is that a row that does not exist has no live lease (`NoGhostLease`).

`LeaseProofs`, for every set of runs, TTL, interval, delay and clock offsets:

- `LeaseTyped`, `DeathBlocksAtMostTTL`.
- `HeartbeatHolds`, under `Slack`: twice the interval plus twice the longest call
  plus the difference of any two clocks is less than the TTL.  `Kept` relates the
  expiry to the next beat and to when the run was told of its lease; `Punctual`
  bounds how late a beat is, for a run that has missed more than one renewal too,
  since a later renewal makes it a regular one again.

`Slack`, with no two renewals missed in a row, is when `~Lapses` in
`LeaseAssumptions` is justified: the two modules meet there.

`ClusterStepsProofs`, for any Services, any limit of polls and any number of runs
and faults:

- `StepsTyped`, `WaitsLast`: the loop's count is the number of polls that failed
  since the last one that was answered (`CountHonest`).
- `RecordHonest`, from `BuildOrder`: a step is only reached over the ones before it.
- `GoneForGood`, `ReverseTeardown`, from `TearOrder`, assuming `Sequential`, that a
  run starts when the cloud shows what the last one asked for.
- `OrphansAreKnown` (`DrainIsThorough`), from `DrainOrder`, under the same
  assumption: from the listing on every Service there is was listed or is one of
  `recreated`, and the wait ends only when none of the listed is left.

`ArgoInstallProofs`, for any versions, and histories of any length:

- `ArgoTyped`, `InstalledRuns`, `DeployedStays`, `ChoicesAccepted`.  The invariant
  says that no two revisions are deployed (`OneDeployed`, which makes "the last
  deployed revision" the one Helm replaces), that an action under way is the one
  the latest revision is pending for (`ActionHonest`), that the history is still
  as it was when the action was chosen (`ChoiceHonest`), and that some version's
  manifests run while a revision is deployed, the latest one's if it is that one.
- `GivesUpInEarnest` (`GivesUpOnlyIfNotServed`), from `CacheClear`: whoever comes to
  look a kind up finds the mapper reset, so a lookup that fails has asked the API
  server.

`RepoSyncProofs`, for any runs, profiles, Applications, attempts and number of
edits, under `RepoAssumptions`: the operator edits any file but `.state.yaml`, and a
read of the files is current (the ref may be stale):

- `RepoTyped`, `StateTruthful` (`HashesHonest`), `ApplyBringsInLine`, and
  `NoChangeNoPush`, which also needs that every profile has an addon: two without
  one would render to the same Applications here, under different hashes.
- `NothingDiscarded` (`OthersChangesKept`), for whatever files the operator edits, from
  `ReadInv`, which relates what a run read and wants to the commit it read, and
  that commit to the tip its first push is accepted on.
- Three lemmas say what the commit of each reconcile makes of a tree
  (`ConfigCommitted`, ...).  They need that the tree committed onto agrees with
  the one the entries were computed from (`Agrees`), which is why the entries of a
  retried push, computed once, still fit: since the run read the branch files have
  been edited, but none has come or gone and `.state.yaml` is the same.  `IInv`
  carries `Agrees` from the read to the push (`Prepared`), that one run is at work,
  that the tip's hashes are honest, and that `CODEOWNERS` is there before the
  config, without which a no-change apply could commit it.

`ProvisionersProofs`, on all three clouds, for any node pools and any number of
stopped runs, cloud failures and changes by hand:

- `Types` (`TypeOK`: also, that nothing is made the options do not call for),
  `DeletesAll` (`NothingLeft`), `AppliesAll` (`UsableWhenRecorded`), `StandsFirm`
  (`NothingPulledAway`), `ConvergedStays` (`ConvergedWritesNothing`) and
  `ConfiguredFirst` (`PodsPerNodeFirst`).
- `Gives`, `Needs` and `Clears` say of a call what it brings about, what it relies
  on and what it gets rid of; a call to another Go function has them too, and they
  are that function's contract.  `AppliedBody` and `DeletedBody` prove the
  contracts, function by function: whatever half-done state it is entered in, the
  calls it opens into find what they need and give or clear all it promises.
- The invariant `IInv` is about the calls a run has left (`todo`): each will find
  what it relies on (`Planned`); what exists and what they give is all an apply
  wants (`Applying`); what exists is inside the cluster, cannot be found, or is
  cleared by one of them (`Deleting`).  `NothingLeft` is `Deleting` with no call left.
  `Rooted` and `Grounded` say that nothing outlives what it is part of or stands
  on, which is what a delete in the wrong order would break; `Recording` carries
  over from run to run what `Reconcile` never makes again.  None of this follows
  from the properties themselves, which say nothing about a run in the middle.
- What a run found stays true until it acts on it: the lemmas of "From a state to
  the next" say which facts a step leaves alone.  Among them, during an apply no
  binding through IRSA comes or goes, which `KeptBinding` relies on when it makes
  no other.
- Node pools are a sequence of any length.  Only concatenation is reasoned about
  (`Joined`, `JoinedReady`), so no induction over it is needed; the calls for the
  pools are one sequence indexed by them.

Each part of `IInv` was checked with TLC on the instance of `provisioners` before it
was proved.

Only model-checked: all of liveness (`ClusterComesFree`, `Converges`, `RunsEnd`,
`DeleteConverges`, `DeletesEnd`, `AppliesEnd`, `RetriesConverge`), as temporal
reasoning under fairness and ENABLED are beyond the prover.  Every invariant and
every action property of the passing runs is a theorem.

## Abstractions

- One cluster: every statement names one `cluster_id`.
- Lease holders are distinct.  The CLI uses `host/pid`, never `WithHolder`; two
  containers with one hostname and pid would share an identity.
- A statement that is delayed beyond its own retry is not modelled: an attempt
  lands before the next one starts.
- In `ClusterSteps` a poll is an instant; intervals, jitter and progress reports
  are left out, and a deadline may pass at any time.
- In `Provisioners` a paginated listing is one read and a waiter of the SDK one
  wait; what a call was told stays true until it acts, since runs exclude each
  other and others only drift settings between runs.
- Helm is modelled by what `install.go` relies on (its history in Secrets, its
  pending revisions, `Atomic` off), GitHub by what `repo` relies on.
- A node pool or EKS addon is made once its creation is accepted.  In the cloud it
  is still being created then, and may end as failed; the code asks for the
  status of neither, so a later run takes a failed one for made
  (`aws/cluster.go:381-398`), and so do `Make` and `UsableWhenRecorded`.
- Others change settings between runs (`Drift`), not the cluster itself.
- Reading several files of one branch is one step (`ReadFiles`); files that
  change between two of the reads are not modelled.
- GitHub accepts the removal of a file that the new tip no longer has.
- Others edit files of the repository that exist; they neither add nor remove one,
  and leave `.state.yaml` alone.
- Rendering, hashing, logging, flags and messages are left out; a file is the
  profile it was rendered from, so equal hashes mean equal profiles.
- `List`, `UpdateArgoCDAccess` and the schema migrations touch neither phase nor
  lease.

## Not modelled

- The addon catalog, the validation of a spec, the Argo CD manifests and the
  kubeconfig: pure functions of their input.
- The command line, cloud login, tools, version, website: no state that is shared.
- The in-memory registry and repository: doubles for the tests.
- Of the provisioners: how subnet ranges, zones and machine types are chosen,
  upgrades of the Kubernetes version, Azure's refusal of a changed instance type,
  lookups by tag that lag behind, and two callers who race on one create (the
  lease excludes them).
- `ReadyReconcile`'s refresh of the stored Argo CD access, and chart versions that
  are not pinned.

## Plan

Next, in this order:

1. `Overtakes` in `Provisioners`, with lookups that lag behind a create.
2. `Catalog`: merging overrides and filtering addons as functions, checked against
   a declarative definition.
