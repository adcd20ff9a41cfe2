------------------------------ MODULE RepoSync ------------------------------
(***************************************************************************)
(* One cluster's GitHub repository, as internal/repo keeps it: successive   *)
(* `kubespin apply' runs seed it and bring it in line with the profile they *)
(* resolved, each change one commit built on the branch tip the run read,   *)
(* while an operator pushes to the same branch.                             *)
(*                                                                         *)
(* A file's content is the profile it was rendered from; .state.yaml holds  *)
(* the hashes of the two sets of files, that is, the profiles they were     *)
(* last rendered from.  cluster.yaml and addons.yaml are always written     *)
(* together and are one file here ("config").                               *)
(***************************************************************************)
EXTENDS Naturals

CONSTANTS
  Runs,         \* the applies, at most one at a time (the lease)
  Profiles,     \* the resolved profiles
  AppPaths,     \* the files of argocd.AppsDir
  AppsOf,       \* the addon Applications of each profile
  Gone,         \* a file that does not exist
  Edited,       \* what the operator writes
  PushRetries,  \* pushRetries
  EditPaths,    \* the files the operator edits
  MaxEdits,     \* bound: how often
  Stale         \* the reads that may miss commits just pushed

ASSUME RepoAssumption ==
  /\ AppsOf \in [Profiles -> SUBSET AppPaths]
  /\ AppPaths \cap {"CODEOWNERS", "config", "state", "root", "other"} = {}
  /\ Gone \notin Profiles \cup {Edited, "team", "root"}
  /\ Edited \notin Profiles
  /\ Gone \notin [addons : Profiles \cup {Gone}, apps : Profiles \cup {Gone}]
  /\ PushRetries \in Nat \ {0}
  /\ MaxEdits \in Nat
  /\ Stale \subseteq {"ref", "files"}

VARIABLES
  tip,      \* the commit the branch is at: its number and its tree
  older,    \* the commit before it, while a stale read may be answered from it
  phase,    \* the cluster's phase, which says what a run has left to do
  pc,       \* the reconcile each run is in
  call,     \* the GitHub call it makes next
  profile,  \* the profile it resolved
  base,     \* Checkout.baseCommitSHA, a commit
  got,      \* Checkout.files
  want,     \* the tree entries it pushes
  attempt,  \* Push's attempt number
  edits     \* how often the operator has pushed

vars == <<tip, older, phase, pc, call, profile, base, got, want, attempt, edits>>
runVars == <<pc, call, profile, base, got, want, attempt>>

Paths == {"CODEOWNERS", "config", "state", "root", "other"} \cup AppPaths

\* .state.yaml: state{AddonsHash and ClusterHash, AppsHash}.
NoState == [addons |-> Gone, apps |-> Gone]

\* The reconciles of a run, in the order an apply makes them.
Jobs == {"create", "codeowners", "seed", "apps", "readdons", "reapps"}

Over == {"done", "failed"}

EmptyTree == [p \in Paths |-> Gone]

\* No repository, hence no branch.
NoCommit == [id |-> 0, tree |-> EmptyTree]

Exists == tip.id # 0

NoEntries == [p \in {} |-> Gone]

Init ==
  /\ tip = NoCommit
  /\ older = {}
  /\ phase = "cluster-created"
  /\ pc = [r \in Runs |-> "idle"]
  /\ call = [r \in Runs |-> "ref"]
  /\ profile \in [Runs -> Profiles]
  /\ base = [r \in Runs |-> NoCommit]
  /\ got = [r \in Runs |-> EmptyTree]
  /\ want = [r \in Runs |-> NoEntries]
  /\ attempt = [r \in Runs |-> 1]
  /\ edits = 0

Active(r) == pc[r] \in Jobs
-----------------------------------------------------------------------------
(* What a reconcile wants to commit. *)

\* Mutant of LoadState: starts from a zero state.
LoadZero(files) == NoState

\* loadState: every writer of .state.yaml reads through it first.
LoadState(files) == IF files["state"] = Gone THEN NoState ELSE files["state"]

\* Mutant of ConfigFiles: a seeded repository is left alone.
ConfigFilesOnce(p, files) ==
  IF files["state"] # Gone THEN NoEntries
  ELSE [f \in {"config", "state"} |->
          IF f = "config" THEN p ELSE [LoadState(files) EXCEPT !.addons = p]]

\* reconcile's files, unless both hashes are up to date.
ConfigFiles(p, files) ==
  IF LoadState(files).addons = p THEN NoEntries
  ELSE [f \in {"config", "state"} |->
          IF f = "config" THEN p ELSE [LoadState(files) EXCEPT !.addons = p]]

\* Mutant of AppsFiles: the Applications the profile no longer has stay.
AppsFilesKeepStale(p, files) ==
  IF LoadState(files).apps = p THEN NoEntries
  ELSE [f \in {"root", "state"} \cup AppsOf[p] |->
          CASE f = "root"  -> "root"
            [] f = "state" -> [LoadState(files) EXCEPT !.apps = p]
            [] OTHER       -> p]

\* ReconcileAppOfApps' files: the rendered Applications, and nil for those
\* the profile no longer has.
AppsFiles(p, files) ==
  IF LoadState(files).apps = p THEN NoEntries
  ELSE [f \in {"root", "state"} \cup AppsOf[p]
               \cup {a \in AppPaths : files[a] # Gone} |->
          CASE f = "root"       -> "root"
            [] f = "state"      -> [LoadState(files) EXCEPT !.apps = p]
            [] f \in AppsOf[p]  -> p
            [] OTHER            -> Gone]

Codeowners(files) ==
  IF files["CODEOWNERS"] # Gone THEN NoEntries ELSE [f \in {"CODEOWNERS"} |-> "team"]

Wanted(job, p, files) ==
  CASE job = "codeowners"           -> Codeowners(files)
    [] job \in {"seed", "readdons"} -> ConfigFiles(p, files)
    [] OTHER                        -> AppsFiles(p, files)

\* changedEntries: the files that differ from the checkout.
ChangedEntries(files, wanted) ==
  LET changed == {f \in DOMAIN wanted : wanted[f] # files[f]}
  IN [f \in changed |-> wanted[f]]

\* CreateTree: the base commit's tree with the entries replaced.
WithEntries(tree, entries) ==
  [f \in Paths |-> IF f \in DOMAIN entries THEN entries[f] ELSE tree[f]]

\* The next reconcile, and the phase the run records between two of them.
NextJob(job) ==
  CASE job = "create"     -> "codeowners"
    [] job = "codeowners" -> "seed"
    [] job = "seed"       -> "apps"
    [] job = "apps"       -> "readdons"
    [] job = "readdons"   -> "reapps"
    [] OTHER              -> "done"

PhaseAfter(job) ==
  CASE job = "seed" -> "repo-pushed"
    [] job = "apps" -> "ready"
    [] OTHER        -> phase

FirstJob(ph) ==
  CASE ph = "cluster-created" -> "create"
    [] ph = "repo-pushed"     -> "apps"
    [] OTHER                  -> "readdons"

\* The call returned, and the checkout with it.
Forget(r) ==
  /\ call' = [call EXCEPT ![r] = "ref"]
  /\ base' = [base EXCEPT ![r] = NoCommit]
  /\ got' = [got EXCEPT ![r] = EmptyTree]
  /\ want' = [want EXCEPT ![r] = NoEntries]
  /\ attempt' = [attempt EXCEPT ![r] = 1]

JobDone(r) ==
  /\ pc' = [pc EXCEPT ![r] = NextJob(pc[r])]
  /\ phase' = PhaseAfter(pc[r])
  /\ Forget(r)

Fail(r) ==
  /\ pc' = [pc EXCEPT ![r] = "failed"]
  /\ UNCHANGED phase
  /\ Forget(r)

\* The branch moves on to a tree; a stale read is one push behind at most.
Advance(tree) ==
  /\ tip' = [id |-> tip.id + 1, tree |-> tree]
  /\ older' = IF Stale # {} THEN {tip} ELSE {}
-----------------------------------------------------------------------------
(* The calls of a run. *)

\* An apply starts: it holds the lease, so no other one is at work.
Start(r) ==
  /\ pc[r] = "idle"
  /\ \A s \in Runs : ~Active(s)
  /\ pc' = [pc EXCEPT ![r] = FirstJob(phase)]
  /\ UNCHANGED <<tip, older, phase, call, profile, base, got, want, attempt, edits>>

\* Create: the repository, with AutoInit's commit; CODEOWNERS comes next.
CreateRepo(r) ==
  /\ pc[r] = "create"
  /\ tip' = IF Exists THEN tip
            ELSE [id |-> 1, tree |-> [EmptyTree EXCEPT !["other"] = "readme"]]
  /\ JobDone(r)
  /\ UNCHANGED <<older, profile, edits>>

\* The commits a read may be answered from (pushRetries).
Visible(read) == {tip} \cup IF read \in Stale THEN older ELSE {}

\* cloneBranch reads the tip ...
ReadRef(r) ==
  /\ Active(r) /\ pc[r] # "create"
  /\ call[r] = "ref"
  /\ base' \in {[base EXCEPT ![r] = c] : c \in Visible("ref")}
  /\ call' = [call EXCEPT ![r] = "files"]
  /\ UNCHANGED <<tip, older, phase, pc, profile, got, want, attempt, edits>>

\* ... and then the files, by branch and not by commit; what it lacks is
\* computed from them alone.
ReadFiles(r) ==
  /\ Active(r) /\ call[r] = "files"
  /\ \E c \in Visible("files") :
       LET entries == ChangedEntries(c.tree, Wanted(pc[r], profile[r], c.tree))
       IN \/ DOMAIN entries = {} /\ JobDone(r)
          \/ /\ DOMAIN entries # {}
             /\ got' = [got EXCEPT ![r] = c.tree]
             /\ want' = [want EXCEPT ![r] = entries]
             /\ call' = [call EXCEPT ![r] = "push"]
             /\ UNCHANGED <<pc, phase, base, attempt>>
  /\ UNCHANGED <<tip, older, profile, edits>>

\* Mutant of Commit: the tree is built from the checkout.
CommitCheckout(r) == Advance(WithEntries(got[r], want[r]))

\* The commit on top of the base.
Commit(r) == Advance(WithEntries(base[r].tree, want[r]))

\* Push: UpdateRef takes the commit if the base is still the tip.
Push(r) ==
  /\ Active(r) /\ call[r] = "push"
  /\ base[r] = tip
  /\ Commit(r)
  /\ JobDone(r)
  /\ UNCHANGED <<profile, edits>>

\* Mutant of PushRejected: one attempt too many.
PushRejectedOnceMore(r) ==
  /\ Active(r) /\ call[r] = "push"
  /\ base[r] # tip
  /\ \/ attempt[r] > PushRetries /\ Fail(r)
     \/ /\ attempt[r] <= PushRetries
        /\ call' = [call EXCEPT ![r] = "reref"]
        /\ UNCHANGED <<pc, phase, base, got, want, attempt>>
  /\ UNCHANGED <<tip, older, profile, edits>>

\* notFastForward: the branch has moved.  After pushRetries, give up.
PushRejected(r) ==
  /\ Active(r) /\ call[r] = "push"
  /\ base[r] # tip
  /\ \/ attempt[r] >= PushRetries /\ Fail(r)
     \/ /\ attempt[r] < PushRetries
        /\ call' = [call EXCEPT ![r] = "reref"]
        /\ UNCHANGED <<pc, phase, base, got, want, attempt>>
  /\ UNCHANGED <<tip, older, profile, edits>>

\* Read the tip again; the entries are not computed again.
ReReadRef(r) ==
  /\ Active(r) /\ call[r] = "reref"
  /\ base' \in {[base EXCEPT ![r] = c] : c \in Visible("ref")}
  /\ call' = [call EXCEPT ![r] = "push"]
  /\ attempt' = [attempt EXCEPT ![r] = @ + 1]
  /\ UNCHANGED <<tip, older, phase, pc, profile, got, want, edits>>

\* Any other error ends the run, whether or not a push landed; so does a kill.
GiveUp(r) ==
  /\ Active(r)
  /\ \/ UNCHANGED <<tip, older>>
     \/ call[r] = "push" /\ base[r] = tip /\ Commit(r)
  /\ Fail(r)
  /\ UNCHANGED <<profile, edits>>
-----------------------------------------------------------------------------
(* The rest of the world. *)

\* The operator pushes a change of one file.
OperatorPush ==
  /\ Exists
  /\ edits < MaxEdits
  /\ \E f \in EditPaths :
       /\ tip.tree[f] \notin {Gone, Edited}
       /\ Advance([tip.tree EXCEPT ![f] = Edited])
  /\ edits' = edits + 1
  /\ UNCHANGED phase
  /\ UNCHANGED runVars

\* GitHub's replicas catch up.
Settle ==
  /\ older # {}
  /\ older' = {}
  /\ UNCHANGED <<tip, phase, edits>>
  /\ UNCHANGED runVars

\* Teardown deletes the repository; the cluster's ID may be applied anew.
DeleteRepo ==
  /\ Exists
  /\ \A r \in Runs : ~Active(r)
  /\ tip' = NoCommit
  /\ older' = {}
  /\ phase' = "cluster-created"
  /\ UNCHANGED edits
  /\ UNCHANGED runVars

AllOver ==
  /\ \A r \in Runs : pc[r] \in Over
  /\ UNCHANGED vars

Next ==
  \/ \E r \in Runs :
       \/ Start(r) \/ CreateRepo(r) \/ ReadRef(r) \/ ReadFiles(r)
       \/ Push(r) \/ PushRejected(r) \/ ReReadRef(r) \/ GiveUp(r)
  \/ OperatorPush \/ Settle \/ DeleteRepo \/ AllOver

Spec == Init /\ [][Next]_vars
-----------------------------------------------------------------------------
(* What must hold. *)

Contents == Profiles \cup {Gone, Edited, "team", "root", "readme"}

StateFile ==
  [addons : Profiles \cup {Gone}, apps : Profiles \cup {Gone}] \cup {Gone}

IsTree(t) ==
  /\ DOMAIN t = Paths
  /\ t["state"] \in StateFile \cup {Edited}
  /\ \A f \in Paths \ {"state"} : t[f] \in Contents

IsCommit(c) == c.id \in Nat /\ IsTree(c.tree)

\* Every variable keeps its type.
TypeOK ==
  /\ IsCommit(tip) /\ \A c \in older : IsCommit(c)
  /\ phase \in {"cluster-created", "repo-pushed", "ready"}
  /\ pc \in [Runs -> Jobs \cup Over \cup {"idle"}]
  /\ call \in [Runs -> {"ref", "files", "push", "reref"}]
  /\ profile \in [Runs -> Profiles]
  /\ \A r \in Runs : IsCommit(base[r]) /\ IsTree(got[r])
  /\ attempt \in [Runs -> 1..PushRetries]
  /\ edits \in 0..MaxEdits

\* The Applications of a tree are those of a profile, and no others.
AppsAre(t, p) ==
  /\ t["root"] = "root"
  /\ \A a \in AppPaths : t[a] = IF a \in AppsOf[p] THEN p ELSE Gone

\* The same, but for what somebody has edited.
Rendered(content) == {content, Edited}

AppsAreRendered(t, p) ==
  /\ t["root"] \in Rendered("root")
  /\ \A a \in AppPaths : t[a] \in Rendered(IF a \in AppsOf[p] THEN p ELSE Gone)

\* .state.yaml tells the truth about the commit it is in, but for what others
\* have edited since: the next apply goes by its hashes alone, and skips what
\* they say is done.
HashesHonest ==
  LET t == tip.tree
  IN /\ LoadState(t).addons # Gone => t["config"] \in Rendered(LoadState(t).addons)
     /\ LoadState(t).apps # Gone => AppsAreRendered(t, LoadState(t).apps)

\* The repository holds what a profile renders to.
Holds(t, p) == t["config"] = p /\ AppsAre(t, p)

\* It does, but for what others have edited, and records it.
InLine(t, p) ==
  /\ t["config"] \in Rendered(p) /\ AppsAreRendered(t, p)
  /\ t["state"] = [addons |-> p, apps |-> p]

\* An apply that succeeds has brought the repository in line with its profile,
\* whatever earlier runs left half done and others edited (ReadyReconcile).
DoneInLine ==
  \A r \in Runs : pc'[r] = "done" /\ pc[r] # "done" => InLine(tip'.tree, profile[r])

AppliesBringInLine == [][DoneInLine]_vars

\* r's step pushes a commit.
Commits(r) == call[r] = "push" /\ Active(r) /\ tip' # tip /\ pc'[r] # pc[r]

\* "A no-change apply produces zero commits" (Push): nothing is committed to a
\* repository that already holds what the profile renders to.
NoChurn ==
  \A r \in Runs : Commits(r) => ~Holds(tip.tree, profile[r])

NoChangeNoCommit == [][NoChurn]_vars

\* "Each function that writes this struct must not clobber the other's field"
\* (state): a reconcile leaves the hash that is not its own as it is.  Not true
\* where "files" is in Stale, hence of no run: the README says how it fails.
FieldKept ==
  \A r \in Runs :
    /\ Commits(r) /\ pc[r] \in {"apps", "reapps"}
         => LoadState(tip'.tree).addons = LoadState(tip.tree).addons
    /\ Commits(r) /\ pc[r] \in {"seed", "readdons"}
         => LoadState(tip'.tree).apps = LoadState(tip.tree).apps

FieldsKept == [][FieldKept]_vars

\* A push fails "rather than silently discarding a concurrent change"
\* (Checkout): what has changed since the run read it stays as it is.  Not true
\* of a push that is rebuilt over an edit of a file it writes, hence of no run.
ConcurrentChangeKept ==
  \A r \in Runs : Commits(r) =>
    \A f \in Paths : tip.tree[f] # got[r][f] => tip'.tree[f] = tip.tree[f]

ConcurrentChangesKept == [][ConcurrentChangeKept]_vars

\* What is true of that, whichever files others edit: a first push discards
\* nothing, and one that was rejected and rebuilt (Push) only what others did to
\* the very files it writes.
OnlyRewrittenLost ==
  \A r \in Runs : Commits(r) =>
    \A f \in Paths :
      tip.tree[f] # got[r][f] /\ (attempt[r] = 1 \/ f \notin DOMAIN want[r])
        => tip'.tree[f] = tip.tree[f]

OthersChangesKept == [][OnlyRewrittenLost]_vars
=============================================================================
