--------------------------- MODULE RepoSyncProofs ---------------------------
(***************************************************************************)
(* Theorems about RepoSync, for every set of runs and profiles and any      *)
(* number of attempts and of operator's edits.                              *)
(***************************************************************************)
EXTENDS RepoSync, TLAPS
-----------------------------------------------------------------------------
(* What a reconcile's commit makes of a tree. *)

\* The operator leaves .state.yaml alone, and the files of a branch are read as
\* they are (a read of the files that misses the previous push takes it back, as
\* the README tells).
RepoAssumptions == "state" \notin EditPaths /\ "files" \notin Stale

\* What a run read from a tree still holds of it, but for edits made since.
Agrees(g, t) ==
  /\ g["state"] = t["state"]
  /\ \A f \in Paths : g[f] = t[f] \/ (g[f] # Gone /\ t[f] = Edited)

\* The two hashes of .state.yaml go with what the tree holds, but for edits.
Honest(t) ==
  /\ t["state"] \in StateFile
  /\ IF LoadState(t).addons = Gone THEN t["config"] = Gone
     ELSE t["config"] \in Rendered(LoadState(t).addons)
  /\ IF LoadState(t).apps = Gone THEN t["root"] = Gone
     ELSE AppsAreRendered(t, LoadState(t).apps)

LEMMA Named ==
  /\ {"CODEOWNERS", "config", "state", "root", "other"} \cup AppPaths \subseteq Paths
  /\ AppPaths \cap {"CODEOWNERS", "config", "state", "root", "other"} = {}
BY RepoAssumption DEF Paths

\* A state file is read back as it was written.
LEMMA StateRead ==
  ASSUME NEW t, t["state"] \in StateFile
  PROVE  /\ LoadState(t) \in [addons : Profiles \cup {Gone}, apps : Profiles \cup {Gone}]
         /\ \A s \in [addons : Profiles \cup {Gone}, apps : Profiles \cup {Gone}] :
              t["state"] = s => LoadState(t) = s
BY RepoAssumption DEF LoadState, StateFile, NoState

\* CODEOWNERS is there afterwards, and all else as before.
LEMMA CodeownersCommitted ==
  ASSUME NEW t, NEW g, IsTree(t), Agrees(g, t), NEW u,
         u = WithEntries(t, ChangedEntries(g, Codeowners(g)))
  PROVE  /\ \A f \in Paths \ {"CODEOWNERS"} : u[f] = t[f]
         /\ u["CODEOWNERS"] \in {t["CODEOWNERS"], "team"}
         /\ g["CODEOWNERS"] = Gone => u["CODEOWNERS"] = "team"
<1>1. CASE g["CODEOWNERS"] # Gone
  BY <1>1, Named DEF Codeowners, ChangedEntries, NoEntries, WithEntries
<1>2. CASE g["CODEOWNERS"] = Gone
  BY <1>2, RepoAssumption, Named DEF Codeowners, ChangedEntries, WithEntries
<1> QED
  BY <1>1, <1>2

\* The config and its hash are the profile's afterwards, and all else as before.
LEMMA ConfigCommitted ==
  ASSUME NEW t, NEW g, Honest(t), Agrees(g, t), NEW p \in Profiles, NEW u,
         u = WithEntries(t, ChangedEntries(g, ConfigFiles(p, g)))
  PROVE  /\ \A f \in Paths \ {"config", "state"} : u[f] = t[f]
         /\ u["state"] \in StateFile
         /\ u["config"] \in Rendered(p) /\ LoadState(u).addons = p
         /\ LoadState(u).apps = LoadState(t).apps
<1>0. /\ g["state"] = t["state"] /\ t["config"] \in {g["config"], Edited}
      /\ LoadState(g) = LoadState(t) /\ p # Gone
  BY Named, RepoAssumption DEF Agrees, LoadState
<1>1. CASE LoadState(g).addons = p
  <2>1. \A f \in Paths : u[f] = t[f]
    BY <1>1 DEF ConfigFiles, ChangedEntries, NoEntries, WithEntries
  <2> QED
    BY <1>0, <1>1, <2>1, Named DEF Honest, LoadState
<1>2. CASE LoadState(g).addons # p
  <2> DEFINE s == [LoadState(t) EXCEPT !.addons = p]
  <2>1. s \in [addons : Profiles \cup {Gone}, apps : Profiles \cup {Gone}]
        /\ s.addons = p /\ s.apps = LoadState(t).apps
    BY StateRead DEF Honest
  <2> HIDE DEF s
  <2>2. ConfigFiles(p, g) = [f \in {"config", "state"} |-> IF f = "config" THEN p ELSE s]
    BY <1>0, <1>2 DEF ConfigFiles, s
  <2>3. \A f \in Paths : u[f] = IF f = "config" /\ g[f] # p THEN p ELSE IF f = "state" THEN s ELSE t[f]
    BY <1>0, <2>2 DEF ChangedEntries, WithEntries
  <2>4. /\ u["state"] = s /\ u["config"] \in Rendered(p)
        /\ \A f \in Paths \ {"config", "state"} : u[f] = t[f]
    BY <1>0, <2>3, Named DEF Rendered
  <2>5. u["state"] \in StateFile
    BY <2>1, <2>4 DEF StateFile
  <2> QED
    BY <2>1, <2>4, <2>5, StateRead
<1> QED
  BY <1>1, <1>2

\* The Applications and their hash are the profile's afterwards, those it no
\* longer has are gone, and all else is as before.
LEMMA AppsCommitted ==
  ASSUME NEW t, NEW g, Honest(t), Agrees(g, t), NEW p \in Profiles, NEW u,
         u = WithEntries(t, ChangedEntries(g, AppsFiles(p, g)))
  PROVE  /\ \A f \in {"config", "CODEOWNERS", "other"} : u[f] = t[f]
         /\ u["state"] \in StateFile
         /\ AppsAreRendered(u, p) /\ LoadState(u).apps = p
         /\ LoadState(u).addons = LoadState(t).addons
<1>0. /\ g["state"] = t["state"] /\ LoadState(g) = LoadState(t)
      /\ \A f \in Paths : g[f] = t[f] \/ (g[f] # Gone /\ t[f] = Edited)
      /\ \A a \in AppPaths : a \in Paths
                             /\ a \notin {"CODEOWNERS", "config", "state", "root", "other"}
  BY Named DEF Agrees, LoadState
<1>1. CASE LoadState(g).apps = p
  <2>1. \A f \in Paths : u[f] = t[f]
    BY <1>1 DEF AppsFiles, ChangedEntries, NoEntries, WithEntries
  <2>2. AppsAreRendered(t, p)
    BY <1>0, <1>1, RepoAssumption DEF Honest
  <2>3. LoadState(u) = LoadState(t)
    BY <2>1, Named DEF LoadState
  <2>4. AppsAreRendered(u, p)
    BY <2>1, <2>2, Named DEF AppsAreRendered
  <2> QED
    BY <1>0, <1>1, <2>1, <2>3, <2>4, Named DEF Honest
<1>2. CASE LoadState(g).apps # p
  <2> DEFINE s == [LoadState(t) EXCEPT !.apps = p]
             w == AppsFiles(p, g)
             d == {"root", "state"} \cup AppsOf[p] \cup {a \in AppPaths : g[a] # Gone}
  <2>1. s \in [addons : Profiles \cup {Gone}, apps : Profiles \cup {Gone}]
        /\ s.apps = p /\ s.addons = LoadState(t).addons
    BY StateRead DEF Honest
  <2>2. AppsOf[p] \subseteq AppPaths
    BY RepoAssumption
  <2> HIDE DEF s
  <2>3. w = [f \in d |-> CASE f = "root" -> "root" [] f = "state" -> s
                           [] f \in AppsOf[p] -> p [] OTHER -> Gone]
    BY <1>0, <1>2 DEF AppsFiles, s
  <2> HIDE DEF w
  <2>4. \A f \in Paths : u[f] = IF f \in d /\ w[f] # g[f] THEN w[f] ELSE t[f]
    <3>1. DOMAIN w = d
      BY <2>3
    <3> QED
      BY <3>1 DEF ChangedEntries, WithEntries, w
  <2>5. u["root"] \in Rendered("root") /\ u["state"] = s
    <3>1. w["root"] = "root" /\ w["state"] = s /\ {"root", "state"} \subseteq d
      BY <1>0, <2>2, <2>3
    <3> QED
      BY <1>0, <2>4, <3>1, Named DEF Rendered
  <2>6. \A f \in {"config", "CODEOWNERS", "other"} : u[f] = t[f]
    BY <1>0, <2>2, <2>4, Named
  <2>7. \A a \in AppPaths : u[a] \in Rendered(IF a \in AppsOf[p] THEN p ELSE Gone)
    <3> SUFFICES ASSUME NEW a \in AppPaths
                 PROVE  u[a] \in Rendered(IF a \in AppsOf[p] THEN p ELSE Gone)
      OBVIOUS
    <3>1. /\ u[a] = IF a \in d /\ w[a] # g[a] THEN w[a] ELSE t[a]
          /\ t[a] = g[a] \/ t[a] = Edited
      BY <1>0, <2>4
    <3>2. a \in d => w[a] = IF a \in AppsOf[p] THEN p ELSE Gone
      BY <1>0, <2>3
    <3>3. a \notin d => t[a] = Gone /\ a \notin AppsOf[p]
      BY <1>0
    <3> QED
      BY <3>1, <3>2, <3>3 DEF Rendered
  <2>8. u["state"] \in StateFile
    BY <2>1, <2>5 DEF StateFile
  <2> QED
    BY <2>1, <2>5, <2>6, <2>7, <2>8, StateRead DEF AppsAreRendered
<1> QED
  BY <1>1, <1>2
-----------------------------------------------------------------------------
(* The inductive invariant. *)

Records == [addons : Profiles \cup {Gone}, apps : Profiles \cup {Gone}]

Typed ==
  /\ TypeOK
  /\ DOMAIN base = Runs /\ DOMAIN got = Runs /\ DOMAIN want = Runs

\* The lease: one run is at work.
OneActive == \A r, s \in Runs : Active(r) /\ Active(s) => r = s

\* What a run is about to push was computed from a tree that still agrees with
\* the branch, and there is something to push.
Prepared(r) ==
  Active(r) /\ call[r] \in {"push", "reref"} =>
    /\ want[r] = ChangedEntries(got[r], Wanted(pc[r], profile[r], got[r]))
    /\ DOMAIN want[r] # {}
    /\ Agrees(got[r], tip.tree)

\* A run that reads the tip again has an attempt left.
AttemptLeft(r) == call[r] = "reref" => attempt[r] < PushRetries

\* A run begins each reconcile by reading the tip, creates the repository before
\* all else, and reaches the last reconcile with the config in line.
Ordered(r) ==
  /\ pc[r] \notin Jobs \ {"create"} => call[r] = "ref"
  /\ pc[r] = "create" => phase = "cluster-created"
  /\ pc[r] = "reapps" => LoadState(tip.tree).addons = profile[r]

\* CODEOWNERS comes before the config.
OwnersFirst ==
  /\ \A r \in Runs :
       pc[r] \in {"seed", "apps", "readdons", "reapps"} => tip.tree["CODEOWNERS"] # Gone
  /\ phase # "cluster-created" => tip.tree["CODEOWNERS"] # Gone
  /\ tip.tree["config"] # Gone => tip.tree["CODEOWNERS"] # Gone

IInv ==
  /\ Typed
  /\ OneActive
  /\ \A r \in Runs : Prepared(r) /\ AttemptLeft(r) /\ Ordered(r)
  /\ Honest(tip.tree)
  /\ OwnersFirst
-----------------------------------------------------------------------------
(* What a reconcile's commit keeps of the invariant. *)

\* Whatever the reconcile, the tree it commits is an honest one.
LEMMA Committed ==
  ASSUME NEW t, NEW g, IsTree(t), Honest(t), Agrees(g, t), NEW p \in Profiles,
         NEW job \in Jobs \ {"create"}, NEW u,
         u = WithEntries(t, ChangedEntries(g, Wanted(job, p, g)))
  PROVE  /\ IsTree(u) /\ Honest(u)
         /\ t["CODEOWNERS"] # Gone => u["CODEOWNERS"] # Gone
         /\ job \in {"seed", "readdons"} => LoadState(u).addons = p
                                          /\ LoadState(u).apps = LoadState(t).apps
         /\ job \in {"apps", "reapps"} => LoadState(u).addons = LoadState(t).addons
                                        /\ LoadState(u).apps = p
         /\ job \in {"codeowners", "apps", "reapps"} => u["config"] = t["config"]
<1>0. DOMAIN u = Paths
  BY DEF WithEntries
<1>1. CASE job = "codeowners"
  <2>1. u = WithEntries(t, ChangedEntries(g, Codeowners(g)))
    BY <1>1 DEF Wanted
  <2>2. /\ \A f \in Paths \ {"CODEOWNERS"} : u[f] = t[f]
        /\ u["CODEOWNERS"] \in {t["CODEOWNERS"], "team"}
    BY <2>1, CodeownersCommitted
  <2>3. u["state"] = t["state"] /\ u["config"] = t["config"] /\ u["root"] = t["root"]
        /\ \A a \in AppPaths : u[a] = t[a]
    BY <2>2, Named
  <2>4. LoadState(u) = LoadState(t)
    BY <2>3 DEF LoadState
  <2>5. Honest(u)
    BY <2>3, <2>4 DEF Honest, AppsAreRendered
  <2>6. IsTree(u)
    BY <1>0, <2>2, <2>3, Named DEF IsTree, Contents
  <2> QED
    BY <1>1, <2>2, <2>3, <2>5, <2>6, RepoAssumption
<1>2. CASE job \in {"seed", "readdons"}
  <2>1. u = WithEntries(t, ChangedEntries(g, ConfigFiles(p, g)))
    BY <1>2 DEF Wanted
  <2>2. /\ \A f \in Paths \ {"config", "state"} : u[f] = t[f]
        /\ u["state"] \in StateFile
        /\ u["config"] \in Rendered(p) /\ LoadState(u).addons = p
        /\ LoadState(u).apps = LoadState(t).apps
    BY <2>1, ConfigCommitted
  <2>3. u["CODEOWNERS"] = t["CODEOWNERS"] /\ u["root"] = t["root"]
        /\ \A a \in AppPaths : u[a] = t[a]
    BY <2>2, Named
  <2>4. Honest(u)
    BY <2>2, <2>3, RepoAssumption DEF Honest, AppsAreRendered
  <2>5. IsTree(u)
    BY <1>0, <2>2, Named DEF IsTree, Contents, Rendered
  <2> QED
    BY <1>2, <2>2, <2>3, <2>4, <2>5
<1>3. CASE job \in {"apps", "reapps"}
  <2>1. u = WithEntries(t, ChangedEntries(g, AppsFiles(p, g)))
    BY <1>3 DEF Wanted
  <2>2. /\ \A f \in {"config", "CODEOWNERS", "other"} : u[f] = t[f]
        /\ u["state"] \in StateFile
        /\ AppsAreRendered(u, p) /\ LoadState(u).apps = p
        /\ LoadState(u).addons = LoadState(t).addons
    BY <2>1, AppsCommitted
  <2>3. Honest(u)
    BY <2>2, RepoAssumption DEF Honest
  <2>4. IsTree(u)
    BY <1>0, <2>2, Named DEF IsTree, Contents, AppsAreRendered, Rendered, Paths
  <2> QED
    BY <1>3, <2>2, <2>3, <2>4
<1> QED
  BY <1>1, <1>2, <1>3 DEF Jobs

\* The same of a tree that lacks nothing: it is as if it had been committed.
LEMMA NothingMissing ==
  ASSUME NEW t, IsTree(t), Honest(t), NEW p \in Profiles,
         NEW job \in Jobs \ {"create"},
         DOMAIN ChangedEntries(t, Wanted(job, p, t)) = {}
  PROVE  /\ job \in {"seed", "readdons"} => LoadState(t).addons = p
         /\ job \in {"apps", "reapps"} => LoadState(t).apps = p
         /\ job = "codeowners" => t["CODEOWNERS"] # Gone
<1> DEFINE u == WithEntries(t, ChangedEntries(t, Wanted(job, p, t)))
<1>1. \A f \in Paths : u[f] = t[f]
  BY DEF WithEntries
<1>2. LoadState(u) = LoadState(t)
  BY <1>1, Named DEF LoadState
<1>3. Agrees(t, t)
  BY DEF Agrees
<1>4. job = "codeowners" => t["CODEOWNERS"] # Gone
  <2>1. SUFFICES ASSUME job = "codeowners", t["CODEOWNERS"] = Gone PROVE u["CODEOWNERS"] = "team"
    BY <1>1, Named, RepoAssumption
  <2>2. u = WithEntries(t, ChangedEntries(t, Codeowners(t)))
    BY <2>1 DEF Wanted
  <2> HIDE DEF u
  <2> QED
    BY <1>3, <2>1, <2>2, CodeownersCommitted
<1> HIDE DEF u
<1>5. /\ job \in {"seed", "readdons"} => LoadState(u).addons = p
      /\ job \in {"apps", "reapps"} => LoadState(u).apps = p
  BY <1>3, Committed DEF u
<1> QED
  BY <1>2, <1>4, <1>5
-----------------------------------------------------------------------------
(* What the end of a reconcile keeps of the invariant. *)

\* The branch may move under a run that lets go of its checkout.
Moved ==
  /\ IsCommit(tip') /\ Honest(tip'.tree)
  /\ \A c \in older' : IsCommit(c)
  /\ tip'.tree["config"] # Gone => tip'.tree["CODEOWNERS"] # Gone

\* One run is at work: no other one is disturbed.
LEMMA OthersIdle ==
  ASSUME IInv, NEW r \in Runs, Active(r), NEW s \in Runs, s # r
  PROVE  ~Active(s)
BY DEF IInv, OneActive

LEMMA Forgotten ==
  ASSUME IInv, NEW r \in Runs, Active(r), Forget(r), Moved,
         NEW j \in Jobs \cup Over, pc' = [pc EXCEPT ![r] = j], j # "create",
         phase' \in {"cluster-created", "repo-pushed", "ready"},
         phase' # "cluster-created" => tip'.tree["CODEOWNERS"] # Gone,
         j \in {"seed", "apps", "readdons", "reapps"} => tip'.tree["CODEOWNERS"] # Gone,
         j = "reapps" => LoadState(tip'.tree).addons = profile[r],
         UNCHANGED <<profile, edits>>
  PROVE  IInv'
<1>0. \A s \in Runs : s # r => ~Active(s) /\ ~Active(s)' /\ pc'[s] = pc[s] /\ call'[s] = call[s]
                             /\ attempt'[s] = attempt[s]
  BY OthersIdle DEF IInv, Typed, TypeOK, Active, Forget
<1>1. pc'[r] = j /\ call'[r] = "ref" /\ attempt'[r] = 1
  BY DEF IInv, Typed, TypeOK, Forget
<1>2. Typed'
  <2>1. IsTree(EmptyTree) /\ IsCommit(NoCommit)
    BY Named DEF EmptyTree, NoCommit, IsTree, IsCommit, Contents, StateFile
  <2>2. \A s \in Runs : IsCommit(base'[s]) /\ IsTree(got'[s])
    BY <2>1 DEF IInv, Typed, TypeOK, Forget
  <2>3. DOMAIN base' = Runs /\ DOMAIN got' = Runs /\ DOMAIN want' = Runs
    BY DEF IInv, Typed, Forget
  <2>4. attempt' \in [Runs -> 1..PushRetries]
    BY RepoAssumption DEF IInv, Typed, TypeOK, Forget
  <2>5. /\ pc' \in [Runs -> Jobs \cup Over \cup {"idle"}]
        /\ call' \in [Runs -> {"ref", "files", "push", "reref"}]
    BY DEF IInv, Typed, TypeOK, Forget
  <2> QED
    BY <2>2, <2>3, <2>4, <2>5 DEF IInv, Typed, TypeOK, Moved
<1>3. OneActive'
  BY <1>0 DEF OneActive
<1>4. \A s \in Runs : Prepared(s)'
  BY <1>0, <1>1 DEF Prepared
<1>5. \A s \in Runs : AttemptLeft(s)'
  BY <1>0, <1>1 DEF IInv, AttemptLeft
<1>6. \A s \in Runs : Ordered(s)'
  BY <1>0, <1>1 DEF IInv, Ordered, Active, Jobs
<1>7. OwnersFirst'
  BY <1>0, <1>1 DEF OwnersFirst, Active, Jobs, Moved
<1> QED
  BY <1>2, <1>3, <1>4, <1>5, <1>6, <1>7 DEF IInv, Moved

\* A reconcile that ends well.
LEMMA JobEnds ==
  ASSUME IInv, NEW r \in Runs, Active(r), JobDone(r), Moved,
         UNCHANGED <<profile, edits>>,
         pc[r] # "create" => tip'.tree["CODEOWNERS"] # Gone,
         pc[r] = "readdons" => LoadState(tip'.tree).addons = profile[r]
  PROVE  IInv'
<1>0. pc[r] \in Jobs /\ phase \in {"cluster-created", "repo-pushed", "ready"}
  BY DEF IInv, Typed, TypeOK, Active
<1>1. NextJob(pc[r]) \in Jobs \cup Over /\ NextJob(pc[r]) # "create"
  BY <1>0 DEF NextJob, Jobs, Over
<1>2. phase' \in {"cluster-created", "repo-pushed", "ready"}
  BY <1>0 DEF JobDone, PhaseAfter
<1>3. pc[r] = "create" => phase' = "cluster-created"
  BY DEF IInv, Ordered, JobDone, PhaseAfter
<1>4. pc[r] = "create" => NextJob(pc[r]) = "codeowners"
  BY DEF NextJob
<1>5. NextJob(pc[r]) = "reapps" => pc[r] = "readdons"
  BY <1>0 DEF NextJob, Jobs
<1>6. pc' = [pc EXCEPT ![r] = NextJob(pc[r])] /\ Forget(r)
  BY DEF JobDone
<1> QED
  BY <1>1, <1>2, <1>3, <1>4, <1>5, <1>6, Forgotten

\* A run that fails.
LEMMA RunFails ==
  ASSUME IInv, NEW r \in Runs, Active(r), Fail(r), Moved,
         UNCHANGED <<profile, edits>>,
         tip.tree["CODEOWNERS"] # Gone => tip'.tree["CODEOWNERS"] # Gone
  PROVE  IInv'
<1>1. phase' = phase /\ phase \in {"cluster-created", "repo-pushed", "ready"}
      /\ (phase # "cluster-created" => tip'.tree["CODEOWNERS"] # Gone)
  BY DEF Fail, IInv, Typed, TypeOK, OwnersFirst
<1>2. pc' = [pc EXCEPT ![r] = "failed"] /\ Forget(r)
  BY DEF Fail
<1>3. "failed" \in Jobs \cup Over /\ "failed" \notin {"create", "seed", "apps", "readdons", "reapps"}
  BY DEF Over
<1> QED
  BY <1>1, <1>2, <1>3, Forgotten
-----------------------------------------------------------------------------
(* Every step keeps the invariant. *)

LEMMA InitIInv == ASSUME Init PROVE IInv
<1>1. IsTree(EmptyTree) /\ IsCommit(NoCommit)
  BY Named DEF EmptyTree, NoCommit, IsTree, IsCommit, Contents, StateFile
<1>2. Typed
  BY <1>1, RepoAssumption DEF Init, Typed, TypeOK
<1>3. Honest(tip.tree)
  BY Named DEF Init, NoCommit, EmptyTree, Honest, LoadState, NoState, StateFile
<1>4. \A r \in Runs : pc[r] = "idle" /\ call[r] = "ref" /\ ~Active(r)
  BY DEF Init, Active, Jobs
<1>5. OwnersFirst
  BY <1>4, Named DEF Init, NoCommit, EmptyTree, OwnersFirst
<1>6. \A r \in Runs : Prepared(r) /\ AttemptLeft(r) /\ Ordered(r)
  BY <1>4 DEF Prepared, AttemptLeft, Ordered
<1>7. OneActive
  BY <1>4 DEF OneActive
<1> QED
  BY <1>2, <1>3, <1>5, <1>6, <1>7 DEF IInv

LEMMA StepStart == ASSUME IInv, NEW r \in Runs, Start(r) PROVE IInv'
<1>1. FirstJob(phase) \in {"create", "apps", "readdons"}
      /\ (FirstJob(phase) = "create" <=> phase = "cluster-created")
  BY DEF IInv, Typed, TypeOK, FirstJob
<1>2. /\ pc'[r] = FirstJob(phase)
      /\ \A s \in Runs : s # r => pc'[s] = pc[s] /\ ~Active(s) /\ ~Active(s)'
  BY DEF IInv, Typed, TypeOK, Start, Active
<1>3. Typed'
  <2>1. pc' \in [Runs -> Jobs \cup Over \cup {"idle"}]
    BY <1>1 DEF Start, IInv, Typed, TypeOK, Jobs
  <2> QED
    BY <2>1 DEF Start, IInv, Typed, TypeOK
<1>4. call[r] = "ref"
  BY DEF IInv, Start, Ordered, Jobs
<1>5. OneActive'
  BY <1>2 DEF OneActive
<1>6. \A s \in Runs : Prepared(s)'
  BY <1>2, <1>4 DEF Prepared, Start
<1>7. \A s \in Runs : AttemptLeft(s)'
  BY DEF IInv, AttemptLeft, Start
<1>8. \A s \in Runs : Ordered(s)'
  BY <1>1, <1>2, <1>4 DEF IInv, Ordered, Start
<1>9. Honest(tip.tree)' /\ OwnersFirst'
  BY <1>1, <1>2 DEF IInv, OwnersFirst, Start
<1> QED
  BY <1>3, <1>5, <1>6, <1>7, <1>8, <1>9 DEF IInv

LEMMA StepCreateRepo == ASSUME IInv, NEW r \in Runs, CreateRepo(r) PROVE IInv'
<1>1. CASE Exists
  <2>1. Moved
    BY <1>1 DEF CreateRepo, IInv, Typed, TypeOK, Moved, OwnersFirst
  <2> QED
    BY <2>1, JobEnds DEF CreateRepo, Active, Jobs
<1>2. CASE ~Exists
  <2> DEFINE u == [EmptyTree EXCEPT !["other"] = "readme"]
  <2>1. tip' = [id |-> 1, tree |-> u]
    BY <1>2 DEF CreateRepo
  <2>2. \A f \in Paths : u[f] = IF f = "other" THEN "readme" ELSE Gone
    BY Named DEF EmptyTree
  <2>3. DOMAIN u = Paths
    BY DEF EmptyTree
  <2> HIDE DEF u
  <2>4. IsTree(u)
    BY <2>2, <2>3, Named DEF IsTree, Contents, StateFile
  <2>5. Honest(u) /\ u["config"] = Gone
    BY <2>2, Named DEF Honest, LoadState, NoState, StateFile
  <2>6. tip'.tree = u /\ IsCommit(tip')
    BY <2>1, <2>4 DEF IsCommit
  <2>7. \A c \in older' : IsCommit(c)
    BY DEF CreateRepo, IInv, Typed, TypeOK
  <2>8. Moved
    BY <2>5, <2>6, <2>7 DEF Moved
  <2> QED
    BY <2>8, JobEnds DEF CreateRepo, Active, Jobs
<1> QED
  BY <1>1, <1>2

LEMMA StepReadRef == ASSUME IInv, NEW r \in Runs, ReadRef(r) PROVE IInv'
<1>1. \A s \in Runs : s # r => ~Active(s) /\ ~Active(s)' /\ call'[s] = call[s]
  BY OthersIdle DEF ReadRef, IInv, Typed, TypeOK, Active
<1>2. call'[r] = "files"
  BY DEF ReadRef, IInv, Typed, TypeOK
<1>3. Typed'
  <2>1. DOMAIN base' = Runs /\ \A s \in Runs : IsCommit(base'[s])
    BY DEF ReadRef, Visible, IInv, Typed, TypeOK
  <2>2. call' \in [Runs -> {"ref", "files", "push", "reref"}]
    BY DEF ReadRef, IInv, Typed, TypeOK
  <2> QED
    BY <2>1, <2>2 DEF ReadRef, IInv, Typed, TypeOK
<1>4. OneActive' /\ Honest(tip.tree)' /\ OwnersFirst'
  BY DEF ReadRef, IInv, OneActive, Active, OwnersFirst
<1>5. \A s \in Runs : Prepared(s)'
  BY <1>1, <1>2 DEF Prepared
<1>6. \A s \in Runs : AttemptLeft(s)'
  BY <1>1, <1>2 DEF ReadRef, IInv, AttemptLeft
<1>7. \A s \in Runs : Ordered(s)'
  BY <1>1 DEF ReadRef, IInv, Ordered, Active, Jobs
<1> QED
  BY <1>3, <1>4, <1>5, <1>6, <1>7 DEF IInv

\* What a run reads of the files is the tip; if it lacks nothing, the reconcile
\* is over, and else it goes on to push.
LEMMA StepReadFiles == ASSUME RepoAssumptions, IInv, NEW r \in Runs, ReadFiles(r) PROVE IInv'
<1> DEFINE t == tip.tree
           entries == ChangedEntries(t, Wanted(pc[r], profile[r], t))
<1>0. Visible("files") = {tip}
  BY DEF Visible, RepoAssumptions
<1>1. /\ pc[r] \in Jobs \ {"create"} /\ profile[r] \in Profiles
      /\ IsTree(t) /\ Honest(t) /\ Active(r) /\ Agrees(t, t)
  BY DEF ReadFiles, IInv, Ordered, Typed, TypeOK, Active, IsCommit, Agrees
<1>2. CASE DOMAIN entries = {} /\ JobDone(r)
  <2>1. /\ pc[r] \in {"seed", "readdons"} => LoadState(t).addons = profile[r]
        /\ pc[r] = "codeowners" => t["CODEOWNERS"] # Gone
    BY <1>1, <1>2, NothingMissing
  <2>2. pc[r] # "create" => tip'.tree["CODEOWNERS"] # Gone
    BY <1>1, <2>1 DEF ReadFiles, IInv, OwnersFirst, Jobs
  <2>3. Moved
    BY DEF ReadFiles, IInv, Typed, TypeOK, Moved, OwnersFirst
  <2>4. pc[r] = "readdons" => LoadState(tip'.tree).addons = profile[r]
    BY <2>1 DEF ReadFiles
  <2>5. UNCHANGED <<profile, edits>>
    BY DEF ReadFiles
  <2> QED
    BY <1>1, <1>2, <2>2, <2>3, <2>4, <2>5, JobEnds
<1>3. CASE /\ DOMAIN entries # {}
           /\ got' = [got EXCEPT ![r] = t]
           /\ want' = [want EXCEPT ![r] = entries]
           /\ call' = [call EXCEPT ![r] = "push"]
           /\ UNCHANGED <<pc, phase, base, attempt>>
  <2>0. UNCHANGED <<tip, older, profile, edits>>
    BY DEF ReadFiles
  <2>1. \A s \in Runs : s # r => ~Active(s) /\ ~Active(s)' /\ call'[s] = call[s]
    BY <1>1, <1>3, OthersIdle DEF IInv, Typed, TypeOK, Active
  <2>2. call'[r] = "push" /\ got'[r] = t /\ want'[r] = entries
    BY <1>3 DEF IInv, Typed, TypeOK
  <2>3. Typed'
    <3>1. DOMAIN got' = Runs /\ DOMAIN want' = Runs /\ \A s \in Runs : IsTree(got'[s])
      BY <1>1, <1>3 DEF IInv, Typed, TypeOK
    <3>2. call' \in [Runs -> {"ref", "files", "push", "reref"}]
      BY <1>3 DEF IInv, Typed, TypeOK
    <3> QED
      BY <1>3, <2>0, <3>1, <3>2 DEF IInv, Typed, TypeOK
  <2>4. OneActive' /\ Honest(tip.tree)' /\ OwnersFirst'
    BY <1>3, <2>0 DEF IInv, OneActive, Active, OwnersFirst
  <2>5. Prepared(r)'
    BY <1>1, <1>3, <2>0, <2>2 DEF Prepared
  <2>6. \A s \in Runs : Prepared(s)'
    BY <2>1, <2>5 DEF Prepared
  <2>7. \A s \in Runs : AttemptLeft(s)'
    BY <1>3, <2>1, <2>2 DEF IInv, AttemptLeft
  <2>8. \A s \in Runs : Ordered(s)'
    BY <1>1, <1>3, <2>0, <2>1 DEF IInv, Ordered, Active, Jobs
  <2> QED
    BY <2>3, <2>4, <2>6, <2>7, <2>8 DEF IInv
<1> QED
  BY <1>0, <1>2, <1>3 DEF ReadFiles

\* What a run's push makes of the branch.
LEMMA Pushed ==
  ASSUME IInv, NEW r \in Runs, Active(r), call[r] = "push", base[r] = tip, Commit(r)
  PROVE  /\ Moved
         /\ tip'.tree["CODEOWNERS"] # Gone
         /\ pc[r] \in {"seed", "readdons"} =>
              LoadState(tip'.tree).addons = profile[r]
              /\ LoadState(tip'.tree).apps = LoadState(tip.tree).apps
         /\ pc[r] \in {"apps", "reapps"} =>
              LoadState(tip'.tree).addons = LoadState(tip.tree).addons
              /\ LoadState(tip'.tree).apps = profile[r]
<1> DEFINE t == tip.tree
           u == WithEntries(t, want[r])
<1>1. /\ pc[r] \in Jobs \ {"create"} /\ profile[r] \in Profiles
      /\ tip.id \in Nat /\ IsTree(t) /\ Honest(t) /\ Agrees(got[r], t)
      /\ want[r] = ChangedEntries(got[r], Wanted(pc[r], profile[r], got[r]))
      /\ DOMAIN want[r] # {}
  BY DEF IInv, Ordered, Typed, TypeOK, Active, IsCommit, Prepared
<1>2. tip' = [id |-> tip.id + 1, tree |-> u]
  BY DEF Commit, Advance
<1>3. older' \subseteq {tip}
  BY DEF Commit, Advance
<1>4. u = WithEntries(t, ChangedEntries(got[r], Wanted(pc[r], profile[r], got[r])))
  BY <1>1
<1> HIDE DEF u
<1>5. /\ IsTree(u) /\ Honest(u)
      /\ t["CODEOWNERS"] # Gone => u["CODEOWNERS"] # Gone
      /\ pc[r] \in {"seed", "readdons"} => LoadState(u).addons = profile[r]
                                        /\ LoadState(u).apps = LoadState(t).apps
      /\ pc[r] \in {"apps", "reapps"} => LoadState(u).addons = LoadState(t).addons
                                      /\ LoadState(u).apps = profile[r]
      /\ pc[r] \in {"codeowners", "apps", "reapps"} => u["config"] = t["config"]
  BY <1>1, <1>4, Committed
<1>6. u["CODEOWNERS"] # Gone
  <2>1. CASE pc[r] = "codeowners"
    <3>1. want[r] = ChangedEntries(got[r], Codeowners(got[r]))
      BY <1>1, <2>1 DEF Wanted
    <3>2. got[r]["CODEOWNERS"] = Gone
      BY <1>1, <3>1 DEF Codeowners, NoEntries, ChangedEntries
    <3>3. u = WithEntries(t, ChangedEntries(got[r], Codeowners(got[r])))
      BY <3>1 DEF u
    <3>4. u["CODEOWNERS"] = "team"
      BY <1>1, <3>2, <3>3, CodeownersCommitted
    <3> QED
      BY <3>4, RepoAssumption
  <2>2. CASE pc[r] # "codeowners"
    BY <1>1, <1>5, <2>2 DEF IInv, OwnersFirst, Jobs
  <2> QED
    BY <2>1, <2>2
<1>7. IsCommit(tip') /\ tip'.tree = u
  BY <1>1, <1>2, <1>5 DEF IsCommit
<1>8. \A c \in older' : IsCommit(c)
  BY <1>3 DEF IInv, Typed, TypeOK
<1>9. Moved
  BY <1>5, <1>6, <1>7, <1>8 DEF Moved
<1> QED
  BY <1>5, <1>6, <1>7, <1>9

LEMMA StepPush == ASSUME IInv, NEW r \in Runs, Push(r) PROVE IInv'
<1>1. Active(r) /\ call[r] = "push" /\ base[r] = tip /\ Commit(r) /\ JobDone(r)
      /\ UNCHANGED <<profile, edits>>
  BY DEF Push
<1>2. Moved /\ tip'.tree["CODEOWNERS"] # Gone
      /\ (pc[r] = "readdons" => LoadState(tip'.tree).addons = profile[r])
  BY <1>1, Pushed
<1> QED
  BY <1>1, <1>2, JobEnds

LEMMA StepGiveUp == ASSUME IInv, NEW r \in Runs, GiveUp(r) PROVE IInv'
<1>1. Active(r) /\ Fail(r) /\ UNCHANGED <<profile, edits>>
  BY DEF GiveUp
<1>2. CASE UNCHANGED <<tip, older>>
  <2>1. Moved
    BY <1>2 DEF IInv, Typed, TypeOK, Moved, OwnersFirst
  <2>2. tip'.tree = tip.tree
    BY <1>2
  <2> QED
    BY <1>1, <2>1, <2>2, RunFails
<1>3. CASE call[r] = "push" /\ base[r] = tip /\ Commit(r)
  <2>1. Moved /\ tip'.tree["CODEOWNERS"] # Gone
    BY <1>1, <1>3, Pushed
  <2> QED
    BY <1>1, <2>1, RunFails
<1> QED
  BY <1>2, <1>3 DEF GiveUp

LEMMA StepPushRejected == ASSUME IInv, NEW r \in Runs, PushRejected(r) PROVE IInv'
<1>0. Active(r) /\ call[r] = "push" /\ UNCHANGED <<tip, older, profile, edits>>
  BY DEF PushRejected
<1>1. CASE Fail(r)
  <2>1. Moved
    BY <1>0 DEF IInv, Typed, TypeOK, Moved, OwnersFirst
  <2>2. tip'.tree = tip.tree
    BY <1>0
  <2> QED
    BY <1>0, <1>1, <2>1, <2>2, RunFails
<1>2. CASE /\ attempt[r] < PushRetries
           /\ call' = [call EXCEPT ![r] = "reref"]
           /\ UNCHANGED <<pc, phase, base, got, want, attempt>>
  <2>1. \A s \in Runs : s # r => call'[s] = call[s]
    BY <1>2 DEF IInv, Typed, TypeOK
  <2>2. call'[r] = "reref"
    BY <1>2 DEF IInv, Typed, TypeOK
  <2>3. Typed'
    <3>1. call' \in [Runs -> {"ref", "files", "push", "reref"}]
      BY <1>2 DEF IInv, Typed, TypeOK
    <3> QED
      BY <1>0, <1>2, <3>1 DEF IInv, Typed, TypeOK
  <2>4. OneActive' /\ Honest(tip.tree)' /\ OwnersFirst'
    BY <1>0, <1>2 DEF IInv, OneActive, Active, OwnersFirst
  <2>5. \A s \in Runs : Prepared(s)'
    BY <1>0, <1>2, <2>1 DEF IInv, Prepared, Active
  <2>6. \A s \in Runs : AttemptLeft(s)'
    BY <1>2, <2>1 DEF IInv, AttemptLeft
  <2>7. \A s \in Runs : Ordered(s)'
    BY <1>0, <1>2, <2>1 DEF IInv, Ordered, Active
  <2> QED
    BY <2>3, <2>4, <2>5, <2>6, <2>7 DEF IInv
<1> QED
  BY <1>1, <1>2 DEF PushRejected

LEMMA StepReReadRef == ASSUME IInv, NEW r \in Runs, ReReadRef(r) PROVE IInv'
<1>0. /\ Active(r) /\ call[r] = "reref"
      /\ UNCHANGED <<tip, older, phase, pc, profile, got, want, edits>>
  BY DEF ReReadRef
<1>1. /\ call'[r] = "push" /\ attempt'[r] = attempt[r] + 1
      /\ \A s \in Runs : s # r => call'[s] = call[s] /\ attempt'[s] = attempt[s]
  BY DEF ReReadRef, IInv, Typed, TypeOK
<1>2. Typed'
  <2>1. DOMAIN base' = Runs /\ \A s \in Runs : IsCommit(base'[s])
    BY DEF ReReadRef, Visible, IInv, Typed, TypeOK
  <2>2. call' \in [Runs -> {"ref", "files", "push", "reref"}]
    BY DEF ReReadRef, IInv, Typed, TypeOK
  <2>3. attempt[r] + 1 \in 1..PushRetries
    BY <1>0, RepoAssumption DEF IInv, Typed, TypeOK, AttemptLeft
  <2>4. attempt' \in [Runs -> 1..PushRetries]
    BY <2>3 DEF ReReadRef, IInv, Typed, TypeOK
  <2> QED
    BY <1>0, <2>1, <2>2, <2>4 DEF IInv, Typed, TypeOK
<1>3. OneActive' /\ Honest(tip.tree)' /\ OwnersFirst'
  BY <1>0 DEF IInv, OneActive, Active, OwnersFirst
<1>4. \A s \in Runs : Prepared(s)'
  BY <1>0, <1>1 DEF IInv, Prepared, Active
<1>5. \A s \in Runs : AttemptLeft(s)'
  BY <1>1 DEF IInv, AttemptLeft
<1>6. \A s \in Runs : Ordered(s)'
  BY <1>0, <1>1 DEF IInv, Ordered, Active
<1> QED
  BY <1>2, <1>3, <1>4, <1>5, <1>6 DEF IInv

LEMMA StepOperatorPush == ASSUME RepoAssumptions, IInv, OperatorPush PROVE IInv'
<1> DEFINE t == tip.tree
<1>1. PICK f \in EditPaths : t[f] \notin {Gone, Edited} /\ Advance([t EXCEPT ![f] = Edited])
  BY DEF OperatorPush
<1> DEFINE u == [t EXCEPT ![f] = Edited]
<1>2. f # "state"
  BY DEF RepoAssumptions
<1>3. DOMAIN t = Paths /\ tip.id \in Nat
  BY DEF IInv, Typed, TypeOK, IsCommit, IsTree
<1>4. DOMAIN u = Paths /\ \A g \in Paths : u[g] = IF g = f THEN Edited ELSE t[g]
  BY <1>2, <1>3
<1>5. tip' = [id |-> tip.id + 1, tree |-> u] /\ older' \subseteq {tip}
  BY <1>1 DEF Advance
<1>6. /\ UNCHANGED <<phase, pc, call, profile, base, got, want, attempt>>
      /\ edits < MaxEdits /\ edits' = edits + 1
  BY DEF OperatorPush, runVars
<1> HIDE DEF u
<1>7. /\ \A g \in Paths : u[g] = t[g] \/ (t[g] # Gone /\ u[g] = Edited)
      /\ \A g \in Paths : u[g] = Gone <=> t[g] = Gone
  BY <1>1, <1>4, RepoAssumption
<1>8. u["state"] = t["state"]
  BY <1>2, <1>4, Named
<1>9. LoadState(u) = LoadState(t)
  BY <1>8 DEF LoadState
<1>10. Honest(tip.tree)'
  <2>1. \A g \in Paths : \A x : t[g] \in Rendered(x) => u[g] \in Rendered(x)
    BY <1>7 DEF Rendered
  <2>2. Honest(t)
    BY DEF IInv
  <2>3. LoadState(t).apps # Gone => AppsAreRendered(u, LoadState(t).apps)
    BY <2>1, <2>2, Named DEF Honest, AppsAreRendered
  <2>4. Honest(u)
    BY <1>7, <1>8, <1>9, <2>1, <2>2, <2>3, Named DEF Honest
  <2> QED
    BY <1>5, <2>4
<1>11. Typed'
  <2>1. IsTree(t)
    BY DEF IInv, Typed, TypeOK, IsCommit
  <2>2. IsTree(u)
    BY <1>4, <1>7, <1>8, <2>1 DEF IsTree, Contents
  <2>3. IsCommit(tip')
    BY <1>3, <1>5, <2>2 DEF IsCommit
  <2>4. \A c \in older' : IsCommit(c)
    BY <1>5 DEF IInv, Typed, TypeOK
  <2>5. edits' \in 0..MaxEdits
    BY <1>6, RepoAssumption DEF IInv, Typed, TypeOK
  <2> QED
    BY <1>6, <2>3, <2>4, <2>5 DEF IInv, Typed, TypeOK
<1>12. \A r \in Runs : Prepared(r)'
  <2>1. \A g : Agrees(g, t) => Agrees(g, u)
    BY <1>7, <1>8, RepoAssumption DEF Agrees
  <2> QED
    BY <1>5, <1>6, <2>1 DEF IInv, Prepared, Active
<1>13. OneActive' /\ \A r \in Runs : AttemptLeft(r)'
  BY <1>6 DEF IInv, OneActive, Active, AttemptLeft
<1>14. \A r \in Runs : Ordered(r)'
  BY <1>5, <1>6, <1>9 DEF IInv, Ordered
<1>15. OwnersFirst'
  BY <1>5, <1>6, <1>7, Named DEF IInv, OwnersFirst
<1> QED
  BY <1>10, <1>11, <1>12, <1>13, <1>14, <1>15 DEF IInv

LEMMA StepDeleteRepo == ASSUME IInv, DeleteRepo PROVE IInv'
<1>0. /\ tip' = NoCommit /\ older' = {} /\ phase' = "cluster-created"
      /\ UNCHANGED <<pc, call, profile, base, got, want, attempt, edits>>
  BY DEF DeleteRepo, runVars
<1>1. \A r \in Runs : ~Active(r) /\ ~Active(r)'
  BY <1>0 DEF DeleteRepo, Active
<1>2. IsCommit(NoCommit)
  BY Named DEF EmptyTree, NoCommit, IsTree, IsCommit, Contents, StateFile
<1>3. Typed'
  BY <1>0, <1>2 DEF IInv, Typed, TypeOK
<1>4. Honest(tip.tree)'
  BY <1>0, Named DEF NoCommit, EmptyTree, Honest, LoadState, NoState, StateFile
<1>5. OwnersFirst'
  BY <1>0, <1>1, Named DEF NoCommit, EmptyTree, OwnersFirst, Active, Jobs
<1>6. \A r \in Runs : Prepared(r)' /\ AttemptLeft(r)' /\ Ordered(r)'
  BY <1>0, <1>1 DEF IInv, Prepared, AttemptLeft, Ordered, Active, Jobs
<1>7. OneActive'
  BY <1>1 DEF OneActive
<1> QED
  BY <1>3, <1>4, <1>5, <1>6, <1>7 DEF IInv

\* GitHub's replicas catching up, and a step that changes nothing.
LEMMA StepTipKept == ASSUME IInv, older' \in {older, {}}, UNCHANGED <<tip, phase, edits, runVars>>
                     PROVE  IInv'
<1>0. UNCHANGED <<tip, phase, pc, call, profile, base, got, want, attempt, edits>>
  BY DEF runVars
<1>1. Typed'
  BY <1>0 DEF IInv, Typed, TypeOK
<1>2. OneActive' /\ Honest(tip.tree)' /\ OwnersFirst'
  BY <1>0 DEF IInv, OneActive, Active, OwnersFirst
<1>3. \A r \in Runs : Prepared(r)' /\ AttemptLeft(r)' /\ Ordered(r)'
  BY <1>0 DEF IInv, Prepared, AttemptLeft, Ordered, Active
<1> QED
  BY <1>1, <1>2, <1>3 DEF IInv

LEMMA NextIInv == ASSUME RepoAssumptions, IInv, [Next]_vars PROVE IInv'
<1>1. CASE \E r \in Runs : Start(r) \/ CreateRepo(r) \/ ReadRef(r) \/ ReadFiles(r)
  BY <1>1, StepStart, StepCreateRepo, StepReadRef, StepReadFiles
<1>2. CASE \E r \in Runs : Push(r) \/ PushRejected(r) \/ ReReadRef(r) \/ GiveUp(r)
  BY <1>2, StepPush, StepPushRejected, StepReReadRef, StepGiveUp
<1>3. CASE OperatorPush
  BY <1>3, StepOperatorPush
<1>4. CASE DeleteRepo
  BY <1>4, StepDeleteRepo
<1>5. CASE Settle \/ AllOver \/ UNCHANGED vars
  BY <1>5, StepTipKept DEF Settle, AllOver, vars, runVars
<1> QED
  BY <1>1, <1>2, <1>3, <1>4, <1>5 DEF Next

LEMMA Invariant == RepoAssumptions /\ Spec => []IInv
<1>1. RepoAssumptions /\ Init => IInv
  BY InitIInv
<1>2. IInv /\ RepoAssumptions /\ [Next]_vars => IInv'
  BY NextIInv
<1>3. RepoAssumptions /\ [Next]_vars => RepoAssumptions'
  BY DEF RepoAssumptions
<1> QED
  BY <1>1, <1>2, <1>3, PTL DEF Spec
-----------------------------------------------------------------------------
(* The theorems. *)

\* Every variable keeps its type: in particular no run makes more than
\* PushRetries attempts.
THEOREM RepoTyped == RepoAssumptions /\ Spec => []TypeOK
<1>1. IInv => TypeOK
  BY DEF IInv, Typed
<1> QED
  BY <1>1, Invariant, PTL

\* .state.yaml tells the truth about the commit it is in, whichever runs have
\* failed between two commits and whatever the operator has pushed.
THEOREM StateTruthful == RepoAssumptions /\ Spec => []HashesHonest
<1>1. IInv => HashesHonest
  BY DEF IInv, Honest, HashesHonest
<1> QED
  BY <1>1, Invariant, PTL

\* A commit is what Pushed says.
LEMMA CommitsPush ==
  ASSUME IInv, [Next]_vars, NEW r \in Runs, Commits(r)
  PROVE  Active(r) /\ call[r] = "push" /\ base[r] = tip /\ Commit(r)
<1>1. Active(r) /\ call[r] = "push" /\ tip' # tip /\ pc'[r] # pc[r] /\ pc[r] # "create"
  BY DEF Commits, IInv, Ordered
<1>2. ASSUME NEW s \in Runs, s # r PROVE ~Active(s)
  BY <1>1, <1>2, OthersIdle
<1>3. \A s \in Runs : ~CreateRepo(s)
  BY <1>1, <1>2 DEF CreateRepo, Active, Jobs
<1>4. ~OperatorPush /\ ~Settle /\ ~DeleteRepo /\ ~AllOver /\ ~UNCHANGED vars
  BY <1>1 DEF OperatorPush, Settle, DeleteRepo, AllOver, vars, runVars
<1>5. \A s \in Runs : ~Start(s) /\ ~ReadRef(s) /\ ~ReadFiles(s) /\ ~PushRejected(s) /\ ~ReReadRef(s)
  BY <1>1 DEF Start, ReadRef, ReadFiles, PushRejected, ReReadRef
<1>6. PICK s \in Runs : Push(s) \/ GiveUp(s)
  BY <1>3, <1>4, <1>5 DEF Next
<1>7. s = r
  BY <1>2, <1>6 DEF Push, GiveUp
<1> QED
  BY <1>1, <1>6, <1>7 DEF Push, GiveUp

\* A tree whose state file records a profile twice is in line with it.
LEMMA RecordedInLine ==
  ASSUME NEW t, Honest(t), NEW p \in Profiles, LoadState(t).addons = p, LoadState(t).apps = p
  PROVE  InLine(t, p)
<1>1. p # Gone
  BY RepoAssumption
<1>2. t["state"] # Gone
  BY <1>1 DEF LoadState, NoState
<1>3. t["state"] \in Records
  BY <1>2 DEF Honest, StateFile, Records
<1>4. t["state"] = [addons |-> p, apps |-> p]
  BY <1>2, <1>3 DEF LoadState, Records
<1> QED
  BY <1>1, <1>4 DEF InLine, Honest

\* An apply that succeeds leaves the branch in line with its profile.
THEOREM ApplyBringsInLine == RepoAssumptions /\ Spec => AppliesBringInLine
<1>1. RepoAssumptions /\ IInv /\ [Next]_vars => [DoneInLine]_vars
  <2> SUFFICES ASSUME RepoAssumptions, IInv, [Next]_vars, NEW r \in Runs,
                      pc'[r] = "done", pc[r] # "done"
               PROVE  InLine(tip'.tree, profile[r])
    BY DEF DoneInLine
  <2> DEFINE t == tip.tree
  <2>0. pc' # pc /\ profile[r] \in Profiles /\ pc \in [Runs -> Jobs \cup Over \cup {"idle"}]
    BY DEF IInv, Typed, TypeOK
  <2>1. ~OperatorPush /\ ~Settle /\ ~DeleteRepo /\ ~AllOver /\ ~UNCHANGED vars
    BY <2>0 DEF OperatorPush, Settle, DeleteRepo, AllOver, vars, runVars
  <2>2. PICK s \in Runs : Start(s) \/ CreateRepo(s) \/ ReadRef(s) \/ ReadFiles(s)
                          \/ Push(s) \/ PushRejected(s) \/ ReReadRef(s) \/ GiveUp(s)
    BY <2>1 DEF Next
  <2>3. ~Start(s)
    BY <2>0 DEF Start, FirstJob
  <2>4. ~Fail(s)
    BY <2>0 DEF Fail
  <2>5. JobDone(s)
    BY <2>0, <2>2, <2>3, <2>4
       DEF CreateRepo, ReadRef, ReadFiles, Push, PushRejected, ReReadRef, GiveUp
  <2>6. s = r /\ NextJob(pc[r]) = "done"
    BY <2>0, <2>5 DEF JobDone
  <2>7. Active(r)
    BY <2>2, <2>3, <2>6 DEF CreateRepo, ReadRef, ReadFiles, Push, PushRejected, ReReadRef, GiveUp,
                            Active, Jobs
  <2>8. pc[r] = "reapps"
    BY <2>6, <2>7 DEF NextJob, Active, Jobs
  <2>9. LoadState(t).addons = profile[r] /\ IsTree(t) /\ Honest(t)
    BY <2>8 DEF IInv, Ordered, Typed, TypeOK, IsCommit
  <2>10. CASE ReadFiles(r)
    <3>1. DOMAIN ChangedEntries(t, Wanted("reapps", profile[r], t)) = {} /\ tip' = tip
      BY <2>0, <2>8, <2>10 DEF ReadFiles, Visible, RepoAssumptions
    <3>2. LoadState(t).apps = profile[r]
      BY <2>0, <2>9, <3>1, NothingMissing DEF Jobs
    <3> QED
      BY <2>0, <2>9, <3>1, <3>2, RecordedInLine
  <2>11. CASE Push(r)
    <3>1. Active(r) /\ call[r] = "push" /\ base[r] = tip /\ Commit(r)
      BY <2>11 DEF Push
    <3>2. Moved /\ LoadState(tip'.tree).addons = profile[r] /\ LoadState(tip'.tree).apps = profile[r]
      BY <2>8, <2>9, <3>1, Pushed
    <3> QED
      BY <2>0, <3>2, RecordedInLine DEF Moved
  <2> QED
    BY <2>0, <2>2, <2>3, <2>4, <2>6, <2>8, <2>10, <2>11
       DEF CreateRepo, ReadRef, PushRejected, ReReadRef, GiveUp
<1>2. RepoAssumptions /\ [Next]_vars => RepoAssumptions'
  BY DEF RepoAssumptions
<1> QED
  BY <1>1, <1>2, Invariant, PTL DEF Spec, AppliesBringInLine

\* A run whose profile the repository already holds commits nothing, if every
\* profile has an addon.
THEOREM NoChangeNoPush ==
  RepoAssumptions /\ (\A p \in Profiles : AppsOf[p] # {}) /\ Spec => NoChangeNoCommit
<1> DEFINE SomeAddon == \A p \in Profiles : AppsOf[p] # {}
<1>1. SomeAddon /\ IInv /\ [Next]_vars => [NoChurn]_vars
  <2> SUFFICES ASSUME SomeAddon, IInv, [Next]_vars, NEW r \in Runs, Commits(r),
                      Holds(tip.tree, profile[r])
               PROVE  FALSE
    BY DEF NoChurn
  <2> DEFINE t == tip.tree
             p == profile[r]
             g == got[r]
  <2>1. /\ pc[r] \in Jobs \ {"create"} /\ p \in Profiles /\ Honest(t) /\ Agrees(g, t)
        /\ DOMAIN want[r] # {} /\ want[r] = ChangedEntries(g, Wanted(pc[r], p, g))
    BY CommitsPush DEF IInv, Ordered, Typed, TypeOK, Active, IsCommit, Prepared
  <2>2. p # Gone
    BY <2>1, RepoAssumption
  <2>3. LoadState(t).addons = p
    BY <2>1, <2>2, RepoAssumption DEF Holds, Honest, Rendered
  <2>4. LoadState(t).apps = p
    <3>1. LoadState(t).apps # Gone
      BY <2>1, RepoAssumption DEF Holds, AppsAre, Honest
    <3>2. AppsAreRendered(t, LoadState(t).apps)
      BY <2>1, <3>1 DEF Honest
    <3>3. PICK a \in AppsOf[p] : a \in AppPaths
      BY <2>1, RepoAssumption
    <3>4. t[a] = p
      BY <3>3 DEF Holds, AppsAre
    <3> QED
      BY <2>1, <2>2, <3>2, <3>3, <3>4, RepoAssumption DEF AppsAreRendered, Rendered
  <2>5. LoadState(g) = LoadState(t)
    BY <2>1 DEF Agrees, LoadState
  <2>6. g["CODEOWNERS"] # Gone
    BY <2>1, <2>2, Named DEF Agrees, IInv, OwnersFirst, Holds
  <2>7. Wanted(pc[r], p, g) = NoEntries
    BY <2>3, <2>4, <2>5, <2>6 DEF Wanted, Codeowners, ConfigFiles, AppsFiles
  <2> QED
    BY <2>1, <2>7 DEF ChangedEntries, NoEntries
<1>2. SomeAddon /\ [Next]_vars => SomeAddon'
  OBVIOUS
<1> QED
  BY <1>1, <1>2, Invariant, PTL DEF Spec, NoChangeNoCommit
-----------------------------------------------------------------------------
(* What has changed since a run read it. *)

\* A read of the files shows every push before it.
FilesCurrent == "files" \notin Stale

\* A run's checkout is no newer than the branch, and until its push is rejected
\* the files were read no earlier than the tip it builds on.
FreshRead(r) ==
  /\ call[r] # "ref" => pc[r] \in Jobs \ {"create"}
  /\ base[r].id \in Nat /\ base[r].id <= tip.id
  /\ ~Active(r) => base[r] = NoCommit
  /\ call[r] = "push" /\ attempt[r] = 1 /\ base[r] = tip => got[r] = tip.tree

ReadInv ==
  /\ pc \in [Runs -> Jobs \cup Over \cup {"idle"}]
  /\ call \in [Runs -> {"ref", "files", "push", "reref"}]
  /\ attempt \in [Runs -> Nat \ {0}]
  /\ base = [r \in Runs |-> base[r]] /\ got = [r \in Runs |-> got[r]]
  /\ tip.id \in Nat /\ \A c \in older : c.id \in Nat /\ c.id <= tip.id
  /\ \A r \in Runs : FreshRead(r)

\* The branch stays as it is, or moves on.
MovesOn ==
  /\ tip' = tip \/ tip'.id > tip.id
  /\ tip'.id \in Nat /\ \A c \in older' : c.id \in Nat /\ c.id <= tip'.id

LEMMA AdvanceMovesOn ==
  ASSUME ReadInv, NEW tree, Advance(tree)
  PROVE  MovesOn
BY DEF ReadInv, Advance, MovesOn

\* A run lets go of its checkout.
LEMMA ReadForgotten ==
  ASSUME ReadInv, MovesOn, NEW r \in Runs, Forget(r),
         NEW j \in Jobs \cup Over, pc' = [pc EXCEPT ![r] = j]
  PROVE  ReadInv'
<1>1. /\ pc' \in [Runs -> Jobs \cup Over \cup {"idle"}]
      /\ call' \in [Runs -> {"ref", "files", "push", "reref"}]
      /\ attempt' \in [Runs -> Nat \ {0}]
      /\ base' = [s \in Runs |-> base'[s]] /\ got' = [s \in Runs |-> got'[s]]
  <2>1. pc' \in [Runs -> Jobs \cup Over \cup {"idle"}]
    BY DEF ReadInv
  <2>2. call' \in [Runs -> {"ref", "files", "push", "reref"}] /\ attempt' \in [Runs -> Nat \ {0}]
    BY DEF ReadInv, Forget
  <2>3. base' = [s \in Runs |-> base'[s]] /\ got' = [s \in Runs |-> got'[s]]
    BY DEF ReadInv, Forget
  <2> QED
    BY <2>1, <2>2, <2>3
<1>2. ASSUME NEW s \in Runs PROVE FreshRead(s)'
  <2>1. CASE s = r
    <3>1. call'[s] = "ref" /\ base'[s] = NoCommit
      BY <2>1 DEF ReadInv, Forget
    <3> QED
      BY <3>1 DEF FreshRead, NoCommit, MovesOn
  <2>2. CASE s # r
    <3>1. /\ call'[s] = call[s] /\ base'[s] = base[s] /\ attempt'[s] = attempt[s]
          /\ got'[s] = got[s] /\ pc'[s] = pc[s]
      BY <2>2 DEF ReadInv, Forget
    <3>2. FreshRead(s) /\ tip.id \in Nat
      BY DEF ReadInv
    <3> QED
      BY <3>1, <3>2 DEF FreshRead, MovesOn, Active
  <2> QED
    BY <2>1, <2>2
<1> QED
  BY <1>1, <1>2 DEF ReadInv, MovesOn

\* The steps that end a reconcile, or a run.
LEMMA ReadEnds ==
  ASSUME ReadInv, MovesOn, NEW r \in Runs, Active(r), JobDone(r) \/ Fail(r)
  PROVE  ReadInv'
<1>1. pc[r] \in Jobs
  BY DEF Active
<1>2. NextJob(pc[r]) \in Jobs \cup Over /\ "failed" \in Jobs \cup Over
  BY <1>1 DEF NextJob, Jobs, Over
<1> QED
  BY <1>2, ReadForgotten DEF JobDone, Fail

\* A step of a run's own that leaves the branch as it is.
LEMMA ReadGoesOn ==
  ASSUME ReadInv, NEW r \in Runs, UNCHANGED <<tip, older>>,
         /\ pc' \in [Runs -> Jobs \cup Over \cup {"idle"}]
         /\ call' \in [Runs -> {"ref", "files", "push", "reref"}]
         /\ attempt' \in [Runs -> Nat \ {0}]
         /\ base' = [s \in Runs |-> base'[s]] /\ got' = [s \in Runs |-> got'[s]],
         \A s \in Runs : s # r =>
           /\ call'[s] = call[s] /\ base'[s] = base[s] /\ attempt'[s] = attempt[s]
           /\ got'[s] = got[s] /\ pc'[s] = pc[s],
         FreshRead(r)'
  PROVE  ReadInv'
<1>1. ASSUME NEW s \in Runs, s # r PROVE FreshRead(s)'
  BY <1>1 DEF ReadInv, FreshRead, Active
<1> QED
  BY <1>1 DEF ReadInv

LEMMA ReadByRuns ==
  ASSUME FilesCurrent, ReadInv, NEW r \in Runs,
         \/ Start(r) \/ CreateRepo(r) \/ ReadRef(r) \/ ReadFiles(r)
         \/ Push(r) \/ PushRejected(r) \/ ReReadRef(r) \/ GiveUp(r)
  PROVE  ReadInv'
<1>0. /\ FreshRead(r) /\ pc[r] \in Jobs \cup Over \cup {"idle"}
      /\ attempt[r] \in Nat \ {0} /\ tip.id \in Nat
  BY DEF ReadInv
<1>1. CASE Start(r)
  <2>1. FirstJob(phase) \in Jobs /\ pc[r] = "idle" /\ "idle" \notin Jobs
    BY <1>1 DEF Start, FirstJob, Jobs
  <2>2. pc' = [pc EXCEPT ![r] = FirstJob(phase)] /\ UNCHANGED <<tip, older, call, base, got, attempt>>
    BY <1>1 DEF Start
  <2>3. call[r] = "ref"
    BY <1>0, <2>1 DEF FreshRead, Jobs
  <2>4. FreshRead(r)'
    BY <1>0, <2>1, <2>2, <2>3 DEF FreshRead, Active, ReadInv
  <2> QED
    BY <2>1, <2>2, <2>4, ReadGoesOn DEF ReadInv
<1>2. CASE CreateRepo(r)
  <2>1. MovesOn
    BY <1>0, <1>2 DEF CreateRepo, Exists, MovesOn, ReadInv
  <2> QED
    BY <1>2, <2>1, ReadEnds DEF CreateRepo, Active, Jobs
<1>3. CASE ReadRef(r)
  <2>1. PICK c \in Visible("ref") : base' = [base EXCEPT ![r] = c]
    BY <1>3 DEF ReadRef
  <2>2. c.id \in Nat /\ c.id <= tip.id
    BY DEF Visible, ReadInv
  <2>3. call' = [call EXCEPT ![r] = "files"] /\ UNCHANGED <<tip, older, pc, got, attempt>>
        /\ Active(r) /\ pc[r] # "create"
    BY <1>3 DEF ReadRef
  <2>4. FreshRead(r)'
    BY <2>1, <2>2, <2>3 DEF FreshRead, Active, ReadInv
  <2> QED
    BY <2>1, <2>3, <2>4, ReadGoesOn DEF ReadInv
<1>4. CASE ReadFiles(r)
  <2>1. Active(r) /\ call[r] = "files" /\ UNCHANGED <<tip, older>> /\ Visible("files") = {tip}
    BY <1>4 DEF ReadFiles, Visible, FilesCurrent
  <2>2. CASE JobDone(r)
    BY <1>0, <2>1, <2>2, ReadEnds DEF MovesOn, ReadInv
  <2>3. CASE ~JobDone(r)
    <3>1. /\ got' = [got EXCEPT ![r] = tip.tree] /\ call' = [call EXCEPT ![r] = "push"]
          /\ UNCHANGED <<pc, base, attempt>>
      BY <1>4, <2>1, <2>3 DEF ReadFiles
    <3>2. FreshRead(r)'
      BY <1>0, <2>1, <3>1 DEF FreshRead, Active, ReadInv
    <3> QED
      BY <2>1, <3>1, <3>2, ReadGoesOn DEF ReadInv
  <2> QED
    BY <2>2, <2>3
<1>5. CASE Push(r)
  <2>1. MovesOn
    BY <1>5, AdvanceMovesOn DEF Push, Commit
  <2> QED
    BY <1>5, <2>1, ReadEnds DEF Push
<1>6. CASE PushRejected(r)
  <2>1. Active(r) /\ call[r] = "push" /\ UNCHANGED <<tip, older>>
    BY <1>6 DEF PushRejected
  <2>2. CASE Fail(r)
    BY <1>0, <2>1, <2>2, ReadEnds DEF MovesOn, ReadInv
  <2>3. CASE ~Fail(r)
    <3>1. call' = [call EXCEPT ![r] = "reref"] /\ UNCHANGED <<pc, base, got, attempt>>
      BY <1>6, <2>3 DEF PushRejected
    <3>2. FreshRead(r)'
      BY <1>0, <2>1, <3>1 DEF FreshRead, Active, ReadInv
    <3> QED
      BY <2>1, <3>1, <3>2, ReadGoesOn DEF ReadInv
  <2> QED
    BY <2>2, <2>3
<1>7. CASE ReReadRef(r)
  <2>1. PICK c \in Visible("ref") : base' = [base EXCEPT ![r] = c]
    BY <1>7 DEF ReReadRef
  <2>2. c.id \in Nat /\ c.id <= tip.id
    BY DEF Visible, ReadInv
  <2>3. call' = [call EXCEPT ![r] = "push"] /\ attempt' = [attempt EXCEPT ![r] = @ + 1]
        /\ UNCHANGED <<tip, older, pc, got>> /\ Active(r) /\ call[r] = "reref"
    BY <1>7 DEF ReReadRef
  <2>4. attempt'[r] # 1 /\ attempt' \in [Runs -> Nat \ {0}]
    BY <1>0, <2>3 DEF ReadInv
  <2>5. FreshRead(r)'
    BY <1>0, <2>1, <2>2, <2>3, <2>4 DEF FreshRead, Active, ReadInv
  <2> QED
    BY <2>1, <2>3, <2>4, <2>5, ReadGoesOn DEF ReadInv
<1>8. CASE GiveUp(r)
  <2>1. MovesOn
    BY <1>0, <1>8, AdvanceMovesOn DEF GiveUp, Commit, MovesOn, ReadInv
  <2> QED
    BY <1>8, <2>1, ReadEnds DEF GiveUp
<1> QED
  BY <1>1, <1>2, <1>3, <1>4, <1>5, <1>6, <1>7, <1>8

\* The branch moves, or is deleted while no run is at work.
LEMMA ReadByOthers ==
  ASSUME ReadInv, OperatorPush \/ Settle \/ DeleteRepo \/ AllOver \/ UNCHANGED vars
  PROVE  ReadInv'
<1>1. UNCHANGED runVars
  BY DEF OperatorPush, Settle, DeleteRepo, AllOver, vars, runVars
<1>2. CASE MovesOn
  <2>1. ASSUME NEW r \in Runs PROVE FreshRead(r)'
    <3>1. FreshRead(r) /\ tip.id \in Nat
      BY DEF ReadInv
    <3> QED
      BY <1>1, <1>2, <3>1 DEF FreshRead, MovesOn, Active, runVars
  <2> QED
    BY <1>1, <1>2, <2>1 DEF ReadInv, MovesOn, runVars
<1>3. CASE DeleteRepo
  <2>1. tip' = NoCommit /\ older' = {} /\ \A r \in Runs : ~Active(r)
    BY <1>3 DEF DeleteRepo
  <2>2. ASSUME NEW r \in Runs PROVE FreshRead(r)'
    <3>1. FreshRead(r) /\ call[r] = "ref" /\ base[r] = NoCommit
      BY <2>1 DEF ReadInv, FreshRead, Active
    <3> QED
      BY <1>1, <2>1, <3>1 DEF FreshRead, NoCommit, Active, runVars
  <2> QED
    BY <1>1, <2>1, <2>2 DEF ReadInv, NoCommit, runVars
<1>4. CASE OperatorPush
  BY <1>2, <1>4, AdvanceMovesOn DEF OperatorPush
<1>5. CASE Settle \/ AllOver \/ UNCHANGED vars
  <2>1. MovesOn
    BY <1>5 DEF Settle, AllOver, vars, MovesOn, ReadInv
  <2> QED
    BY <1>2, <2>1
<1> QED
  BY <1>3, <1>4, <1>5

LEMMA ReadInvariant == FilesCurrent /\ Spec => []ReadInv
<1>1. Init => ReadInv
  <2> SUFFICES ASSUME Init PROVE ReadInv
    OBVIOUS
  <2>1. \A r \in Runs : FreshRead(r)
    <3> SUFFICES ASSUME NEW r \in Runs PROVE FreshRead(r)
      OBVIOUS
    <3>1. base[r] = NoCommit /\ tip = NoCommit /\ call[r] = "ref"
      BY DEF Init
    <3>2. NoCommit.id = 0
      BY DEF NoCommit
    <3> QED
      BY <3>1, <3>2 DEF FreshRead
  <2>2. /\ pc \in [Runs -> Jobs \cup Over \cup {"idle"}]
        /\ call \in [Runs -> {"ref", "files", "push", "reref"}]
        /\ attempt \in [Runs -> Nat \ {0}]
        /\ base = [r \in Runs |-> base[r]] /\ got = [r \in Runs |-> got[r]]
    BY DEF Init
  <2>3. tip.id \in Nat /\ older = {}
    BY DEF Init, NoCommit
  <2> QED
    BY <2>1, <2>2, <2>3 DEF ReadInv
<1>2. FilesCurrent /\ ReadInv /\ [Next]_vars => ReadInv'
  <2> SUFFICES ASSUME FilesCurrent, ReadInv, [Next]_vars PROVE ReadInv'
    OBVIOUS
  <2>1. \/ OperatorPush \/ Settle \/ DeleteRepo \/ AllOver \/ UNCHANGED vars
        \/ \E r \in Runs : \/ Start(r) \/ CreateRepo(r) \/ ReadRef(r) \/ ReadFiles(r)
                          \/ Push(r) \/ PushRejected(r) \/ ReReadRef(r) \/ GiveUp(r)
    BY DEF Next
  <2> QED
    BY <2>1, ReadByRuns, ReadByOthers
<1>3. FilesCurrent /\ [Next]_vars => FilesCurrent'
  BY DEF FilesCurrent
<1> QED
  BY <1>1, <1>2, <1>3, PTL DEF Spec

\* A commit is one on the tip, of what its run wants.
LEMMA CommitsOnTip ==
  ASSUME ReadInv, [Next]_vars, NEW r \in Runs, Commits(r)
  PROVE  base[r] = tip /\ Commit(r)
<1>1. Active(r) /\ call[r] = "push" /\ tip' # tip /\ pc'[r] # pc[r] /\ pc[r] # "create"
  BY DEF Commits, ReadInv, FreshRead
<1>2. ~OperatorPush /\ ~Settle /\ ~DeleteRepo /\ ~AllOver /\ ~UNCHANGED vars
  BY <1>1 DEF OperatorPush, Settle, DeleteRepo, AllOver, vars, runVars
<1>3. PICK s \in Runs : \/ Start(s) \/ CreateRepo(s) \/ ReadRef(s) \/ ReadFiles(s)
                        \/ Push(s) \/ PushRejected(s) \/ ReReadRef(s) \/ GiveUp(s)
  BY <1>2 DEF Next
<1>4. ~Start(s) /\ ~ReadRef(s) /\ ~ReadFiles(s) /\ ~PushRejected(s) /\ ~ReReadRef(s)
  BY <1>1 DEF Start, ReadRef, ReadFiles, PushRejected, ReReadRef
<1>5. \E j : pc' = [pc EXCEPT ![s] = j]
  BY <1>3, <1>4 DEF CreateRepo, Push, GiveUp, JobDone, Fail
<1>6. s = r
  BY <1>1, <1>5 DEF ReadInv
<1> QED
  BY <1>1, <1>3, <1>4, <1>6 DEF CreateRepo, Push, GiveUp

\* Whichever files others edit: a first push discards nothing that has changed
\* since the run read it, and a retried one only changes of the files it writes.
THEOREM NothingDiscarded == FilesCurrent /\ Spec => OthersChangesKept
<1>1. ReadInv /\ [Next]_vars => [OnlyRewrittenLost]_vars
  <2> SUFFICES ASSUME ReadInv, [Next]_vars, NEW r \in Runs, Commits(r),
                      NEW f \in Paths, tip.tree[f] # got[r][f],
                      attempt[r] = 1 \/ f \notin DOMAIN want[r]
               PROVE  tip'.tree[f] = tip.tree[f]
    BY DEF OnlyRewrittenLost
  <2>1. base[r] = tip /\ Commit(r) /\ call[r] = "push"
    BY CommitsOnTip DEF Commits
  <2>2. attempt[r] # 1
    BY <2>1 DEF ReadInv, FreshRead
  <2>3. tip'.tree = WithEntries(tip.tree, want[r])
    BY <2>1 DEF Commit, Advance
  <2> QED
    BY <2>2, <2>3 DEF WithEntries
<1> QED
  BY <1>1, ReadInvariant, PTL DEF Spec, OthersChangesKept
=============================================================================
