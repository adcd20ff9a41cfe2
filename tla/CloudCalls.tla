------------------------------ MODULE CloudCalls ------------------------------
(***************************************************************************)
(* What the three provisioners share: the cluster's resources in one cloud  *)
(* account, and the calls a run makes on them one at a time.  Aws, Gcp and  *)
(* Azure translate each Go function into the sequence of calls it makes;    *)
(* Provisioners lets runs make them, and stop between any two.              *)
(***************************************************************************)
EXTENDS Naturals, Sequences

CONSTANTS
  Pools,      \* the names of the spec's node pools, in the spec's order
  MaxFaults   \* bound: stopped runs, cloud failures and changes by hand

ASSUME CallsAssumption == Pools \in Seq(STRING) /\ MaxFaults \in Nat

VARIABLES
  spec,      \* the cloud and the options of the cluster's spec
  have,      \* the resources and settings that exist
  status,    \* the cluster in the cloud
  location,  \* where it lives: "region" or "zone"
  going,     \* the node pools being deleted
  record,    \* the record: "none", "pending", "ready", "decommissioning", "gone"
  run,       \* "idle", "apply" or "delete"
  implied,   \* the location the run's flags imply
  todo,      \* the calls the run has still to make
  wrote,     \* history: has this run written to the cloud?
  complete,  \* history: did the run start with everything in place?
  faults

cloud == <<have, status, location, going>>
vars  == <<spec, cloud, record, run, implied, todo, wrote, complete, faults>>
-----------------------------------------------------------------------------
(* A resource or setting is a tuple of its kind and its name.  What exists   *)
(* only inside another goes with it, so the calls name sets of them.         *)

PoolNames == {Pools[i] : i \in DOMAIN Pools}

Named(kind, names) == {<<kind, n>> : n \in names}

\* What exists only as part of the cluster.
InCluster == {r \in have : r[1] \in {"access", "pool", "bounds", "addon", "config",
                                     "binding", "irsa", "association"}}
-----------------------------------------------------------------------------
(* The calls.  "make": unless `what' exists already, create it, which needs  *)
(* `on'.  "discard": if any of `what' is found, delete it, which the cloud   *)
(* refuses while `on' exists; "retry" is a discard that waits a while for it  *)
(* to go.  "do" runs a function of the provisioner, named in `name'.         *)
(*                                                                           *)
(* A node pool or EKS addon is made once its creation is accepted: the code  *)
(* asks for the status of neither, and takes what it finds for made.         *)

Call(op, name, what, on) == [op |-> op, name |-> name, what |-> what, on |-> on]

Make(what, needs)        == Call("make", "", what, needs)
Discard(what, blockers)  == Call("discard", "", what, blockers)
Retry(what, blockers)    == Call("retry", "", what, blockers)
Do(name)                 == Call("do", name, {}, {})

\* One call for each member of a sequence.
ForEach(s, Op(_)) == [i \in DOMAIN s |-> Op(s[i])]

\* The node pools there are, as describeNodePools lists them.
NodePools == {p \in PoolNames : <<"pool", p>> \in have}

\* A node pool with the bounds of the spec.
NodePool(p) == {<<"pool", p>>, <<"bounds", p>>}

\* A node pool that is missing is created, one whose bounds drifted resized.
\* None is ever removed by an apply.  `create' is the creating call of each.
EnsureNodePools(create) ==
  LET EnsurePool(p) == IF p \in NodePools THEN Make(NodePool(p), {}) ELSE create[p]
  IN  ForEach(Pools, EnsurePool)

\* The access mode, set back if it is not the spec's.
ReconcileAccess == <<Make({<<"access">>}, {})>>
=============================================================================
