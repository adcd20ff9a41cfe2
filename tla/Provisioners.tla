----------------------------- MODULE Provisioners -----------------------------
(***************************************************************************)
(* Runs of apply and delete of one cluster in one of the three clouds: the  *)
(* calls of Aws, Gcp and Azure in the order steps.go makes them, each run   *)
(* stopping anywhere, a later one starting over on what is there.  Runs     *)
(* exclude each other (Orchestrator's WorkExclusive).                       *)
(***************************************************************************)
EXTENDS Aws, Gcp, Azure, FiniteSets

Clouds == {"aws", "gcp", "azure"}

Specs == {sp \in [cloud : Clouds, supplied : BOOLEAN, auto : BOOLEAN, public : BOOLEAN] :
            /\ sp.auto => sp.cloud # "azure"
            /\ sp.public => sp.cloud = "gcp" /\ ~sp.supplied}

Wanted == CASE spec.cloud = "aws"   -> AwsWanted
            [] spec.cloud = "gcp"   -> GcpWanted
            [] spec.cloud = "azure" -> AzureWanted

\* Nothing is left for an apply to do.
Complete ==
  /\ status = "active"
  /\ \A r \in Wanted : r \in have \/ (r[1] = "binding" /\ <<"irsa", r[2]>> \in have)

\* What an older kubespin left on a cluster that is still recorded ready.
Older == IF spec.cloud = "aws" /\ ~spec.auto
           THEN {{}, {<<"oidc">>, <<"irsa", "ebs-csi">>}}
         ELSE IF spec.cloud = "gcp" /\ ~spec.supplied THEN {{}, {<<"firewall">>}}
         ELSE {{}}

New ==
  /\ have = {} /\ status = "absent" /\ record = "none"

Recorded ==
  /\ \E old \in Older :
       have = old \cup {r \in Wanted : r[1] # "binding" \/ <<"irsa", r[2]>> \notin old}
  /\ status = "active" /\ record = "ready"

Init ==
  /\ spec \in Specs
  /\ New \/ Recorded
  /\ location = "region" /\ going = {}
  /\ run = "idle" /\ implied = "region" /\ todo = <<>>
  /\ wrote = FALSE /\ complete = FALSE /\ faults = 0
-----------------------------------------------------------------------------
(* The functions of the provisioner, as steps.go calls them. *)

Body(name) ==
  CASE spec.cloud = "aws"   -> AwsBody(name)
    [] spec.cloud = "gcp"   -> GcpBody(name)
    [] spec.cloud = "azure" -> AzureBody(name)

\* What the wait loops' Describe returns.
Described == IF spec.cloud = "gcp" THEN GcpShown ELSE status

ApplySteps ==
  IF record = "ready" THEN <<Do("Reconcile")>>
  ELSE <<Do("EnsureNetwork"), Do("Create"), Call("waitActive", "", {}, {}),
         Do("Reconcile")>>

DeleteSteps == <<Do("Delete"), Call("waitGone", "", {}, {}), Do("DeleteNetwork")>>
-----------------------------------------------------------------------------
(* The runs *)

Flags == IF spec.cloud = "gcp" THEN {"region", "zone"} ELSE {"region"}

StartApply ==
  /\ run = "idle" /\ record \in {"none", "pending", "ready"}
  /\ run' = "apply" /\ todo' = ApplySteps
  /\ record' = IF record = "none" THEN "pending" ELSE record
  /\ implied' \in Flags
  /\ wrote' = FALSE
  /\ complete' = Complete
  /\ UNCHANGED <<spec, cloud, faults>>

StartDelete ==
  /\ run = "idle" /\ record \notin {"none", "gone"}
  /\ run' = "delete" /\ todo' = DeleteSteps
  /\ record' = "decommissioning"
  /\ implied' \in Flags
  /\ wrote' = FALSE /\ complete' = FALSE
  /\ UNCHANGED <<spec, cloud, faults>>

Idle == run' = "idle" /\ todo' = <<>> /\ wrote' = FALSE /\ complete' = FALSE

Finish ==
  /\ run # "idle" /\ todo = <<>>
  /\ Idle
  /\ record' = IF run = "apply" THEN "ready" ELSE "gone"
  /\ UNCHANGED <<spec, cloud, implied, faults>>

\* A call fails, or the run is interrupted or killed between two calls.
RunStops ==
  /\ run # "idle" /\ faults < MaxFaults
  /\ Idle
  /\ faults' = faults + 1
  /\ UNCHANGED <<spec, cloud, record, implied>>

NextCall(op) == todo # <<>> /\ Head(todo).op = op

Kept == UNCHANGED <<spec, record, run, implied, complete, faults>>

Continue == todo' = Tail(todo) /\ Kept

\* What ends the run with an error: a resource without what it needs, or one
\* something still depends on (a retry gives up at last); a cluster still being
\* created, or with node groups, that is to be deleted; one that failed, or is
\* not there to be reconciled (ErrNotFound).
Refusal ==
  LET c == Head(todo) IN
  \/ /\ c.op = "make" \/ (c.op = "createCluster" /\ status = "absent")
     /\ ~(c.what \subseteq have) /\ ~(c.on \subseteq have)
  \/ c.op \in {"discard", "retry"} /\ c.what \cap have # {} /\ c.on \cap have # {}
  \/ /\ c.op = "deleteCluster" /\ status \notin {"absent", "deleting"}
     /\ status = "creating" \/ c.on \cap have # {}
  \/ c.op = "waitActive" /\ Described \in {"absent", "failed"}
  \/ c.op = "do" /\ c.name = "Reconcile" /\ Described = "absent"

CallRefused ==
  /\ todo # <<>> /\ Refusal
  /\ Idle
  /\ UNCHANGED <<spec, cloud, record, implied, faults>>
-----------------------------------------------------------------------------
(* The calls *)

Doing ==
  /\ NextCall("do")
  /\ ~Refusal
  /\ todo' = Body(Head(todo).name) \o Tail(todo)
  /\ UNCHANGED <<cloud, wrote>> /\ Kept

Making ==
  /\ NextCall("make")
  /\ Head(todo).what \subseteq have \/ Head(todo).on \subseteq have
  /\ have' = have \cup Head(todo).what
  /\ wrote' = (wrote \/ ~(Head(todo).what \subseteq have))
  /\ Continue /\ UNCHANGED <<status, location, going>>

Discarding ==
  /\ NextCall("discard") \/ NextCall("retry")
  /\ Head(todo).what \cap have = {} \/ Head(todo).on \cap have = {}
  /\ have' = have \ Head(todo).what
  /\ Continue /\ UNCHANGED <<status, location, going, wrote>>

\* A cluster another run got to first is convergence.
CreatingCluster ==
  /\ NextCall("createCluster")
  /\ \/ /\ status = "absent" /\ Head(todo).on \subseteq have
        /\ status' = "creating" /\ location' = implied
        /\ have' = have \cup Head(todo).what
        /\ wrote' = TRUE
     \/ /\ status # "absent"
        /\ UNCHANGED <<status, location, have, wrote>>
  /\ Continue /\ UNCHANGED going

WaitingActive ==
  /\ NextCall("waitActive") /\ Described = "active"
  /\ Continue /\ UNCHANGED <<cloud, wrote>>

WaitingGone ==
  /\ NextCall("waitGone") /\ Described = "absent"
  /\ Continue /\ UNCHANGED <<cloud, wrote>>

DeletingPool ==
  /\ NextCall("deletePool")
  /\ going' = going \cup ({Head(todo).name} \cap NodePools)
  /\ Continue /\ UNCHANGED <<have, status, location, wrote>>

WaitingPools ==
  /\ NextCall("waitPools") /\ NodePools = {}
  /\ Continue /\ UNCHANGED <<cloud, wrote>>

DeletingCluster ==
  /\ NextCall("deleteCluster")
  /\ \/ /\ status \in {"active", "failed"} /\ Head(todo).on \cap have = {}
        /\ status' = "deleting"
     \/ /\ status \in {"absent", "deleting"}
        /\ UNCHANGED status
  /\ Continue /\ UNCHANGED <<have, location, going, wrote>>

DeletingGroup ==
  /\ NextCall("deleteGroup")
  /\ have' = {} /\ status' = "absent" /\ going' = {}
  /\ Continue /\ UNCHANGED <<location, wrote>>

Calls == \/ CallRefused \/ Doing \/ Making \/ Discarding \/ CreatingCluster
         \/ WaitingActive \/ WaitingGone \/ DeletingPool \/ WaitingPools
         \/ DeletingCluster \/ DeletingGroup
-----------------------------------------------------------------------------
(* The cloud, and others with access to it *)

Unheld == UNCHANGED <<spec, record, run, implied, todo, wrote, complete>>

ClusterReady ==
  /\ status = "creating" /\ status' = "active"
  /\ UNCHANGED <<have, location, going, faults>> /\ Unheld

ClusterFails ==
  /\ status = "creating" /\ faults < MaxFaults
  /\ status' = "failed" /\ faults' = faults + 1
  /\ UNCHANGED <<have, location, going>> /\ Unheld

\* The cluster goes with everything that exists only in it.
ClusterGoes ==
  /\ status = "deleting"
  /\ status' = "absent" /\ have' = have \ InCluster /\ going' = {}
  /\ UNCHANGED <<location, faults>> /\ Unheld

PoolGoes ==
  /\ \E p \in going : /\ going' = going \ {p}
                      /\ have' = have \ NodePool(p)
  /\ UNCHANGED <<status, location, faults>> /\ Unheld

\* A load balancer nobody deleted leaves its security group, and for a while
\* its interface, in the VPC.
LoadBalancerLeft ==
  /\ spec.cloud = "aws" /\ status = "active" /\ <<"vpc">> \in have
  /\ run = "idle" /\ faults < MaxFaults
  /\ have' = have \cup {<<"securityGroup">>, <<"residue">>}
  /\ faults' = faults + 1
  /\ UNCHANGED <<status, location, going>> /\ Unheld

\* What the cluster or a load balancer leaves behind goes a while after it.
ResidueGoes ==
  /\ <<"residue">> \in have /\ status = "absent"
  /\ have' = have \ {<<"residue">>}
  /\ UNCHANGED <<status, location, going, faults>> /\ Unheld

\* Between runs, somebody changes by hand what an apply converges.
Drift ==
  /\ run = "idle" /\ record = "ready" /\ status = "active" /\ faults < MaxFaults
  /\ \E r \in InCluster :
       /\ r[1] # "irsa"
       /\ have' = have \ ({r} \cup {x \in InCluster :
            \/ r[1] = "pool" /\ x = <<"bounds", r[2]>>
            \/ r[1] = "addon" /\ x[1] \in {"config", "binding", "irsa"} /\ x[2] = r[2]})
  /\ faults' = faults + 1
  /\ UNCHANGED <<status, location, going>> /\ Unheld

Cloud == \/ ClusterReady \/ ClusterFails \/ ClusterGoes \/ PoolGoes
         \/ LoadBalancerLeft \/ ResidueGoes \/ Drift

Next == StartApply \/ StartDelete \/ Finish \/ RunStops \/ Calls \/ Cloud

\* The process goes on, the cloud ends what it accepted, and an operator runs
\* again the command that did not finish.
Fairness ==
  /\ WF_vars(Calls) /\ WF_vars(Finish)
  /\ WF_vars(ClusterReady) /\ WF_vars(ClusterGoes) /\ WF_vars(PoolGoes)
  /\ WF_vars(ResidueGoes)
  /\ WF_vars(StartApply /\ record = "pending")
  /\ WF_vars(StartDelete /\ record = "decommissioning")

Spec == Init /\ [][Next]_vars /\ Fairness
-----------------------------------------------------------------------------
(* Properties *)

Status == {"absent", "creating", "active", "deleting", "failed"}

\* What may exist of a cluster with these options; nothing of a network the
\* operator supplied is ever made.
Possible == Wanted \cup (UNION Older)
            \cup {<<"residue">>, <<"securityGroup">>, <<"profile", "autoNode">>}

TypeOK ==
  /\ spec \in Specs /\ status \in Status /\ location \in {"region", "zone"}
  /\ have \subseteq Possible /\ going \subseteq PoolNames
  /\ record \in {"none", "pending", "ready", "decommissioning", "gone"}
  /\ run \in {"idle", "apply", "delete"} /\ implied \in {"region", "zone"}
  /\ run = "idle" => todo = <<>>
  /\ wrote \in BOOLEAN /\ complete \in BOOLEAN /\ faults \in 0..MaxFaults

\* What a delete can no longer find: an Internet Gateway a stopped run left
\* detached, and an OIDC provider whose issuer went with the cluster.
Unfindable == {<<"gateway">>, <<"oidc">>}

\* The rest goes by itself.
Left == have \ {<<"residue">>}

\* When the record goes, nothing the runs made is left to be paid for, wherever
\* any number of them stopped (Delete and DeleteNetwork, cluster.go:475-493,
\* network.go:401-405; "delete tears the cluster down", but for Unfindable).
NothingLeft == record = "gone" => status = "absent" /\ Left \subseteq Unfindable

\* No Internet Gateway is left behind: "deletes every resource this package
\* could have created" (aws/network.go:401-403).
NoGatewayLeft == record = "gone" => <<"gateway">> \notin have

\* An apply that ends without an error has put everything in place, whatever
\* earlier runs left half done (EnsureNetwork, Create and Reconcile).
UsableWhenRecorded ==
  run = "apply" /\ todo = <<>> => Complete

\* Nothing is taken from under what still runs on it: nodes keep their role
\* until the last has gone, the cluster its role until it is asked to go and
\* its network until it is gone (the order in aws Delete and in Teardown).
NothingPulledAway ==
  /\ spec.cloud = "aws" =>
       /\ NodePools # {} =>
            {Role("node")} \cup (PartsOf("node") \ {<<"profile", "node">>}) \subseteq have
       /\ status \in {"creating", "active"} => Role("cluster") \in have
  /\ status # "absent" =>
       CASE spec.cloud = "aws"   -> SubnetsOf(spec) \subseteq have
         [] spec.cloud = "gcp"   -> spec.supplied \/ <<"subnetwork">> \in have
         [] spec.cloud = "azure" -> <<"group">> \in have

\* On EKS no node group is made before the VPC CNI is configured, which fixes
\* how many pods its nodes take (networkAddons, aws/addons.go:77-82).
PodsPerNodeFirst ==
  [][spec.cloud = "aws" /\ Named("pool", PoolNames) \cap (have' \ have) # {}
       => <<"config", "vpc-cni">> \in have]_vars

\* An apply of a cluster that has everything writes nothing to the cloud, also
\* when an older kubespin made it (Reconcile reports no change).
ConvergedWritesNothing == run = "apply" /\ complete => ~wrote

\* A delete somebody runs again until it ends does end, and takes with it
\* whatever the runs before it left.
DeletesEnd == record = "decommissioning" ~> record = "gone"

\* An apply somebody runs again until it ends does end, unless the cluster
\* failed (which no apply repairs) or was deleted.
AppliesEnd ==
  record = "pending" ~> (record \in {"ready", "decommissioning"} \/ status = "failed")
=============================================================================
