--------------------------------- MODULE Gcp ---------------------------------
(***************************************************************************)
(* internal/provisioner/gcp: the calls by which GKE clusters and their      *)
(* networks are created, converged and deleted.                             *)
(***************************************************************************)
EXTENDS CloudCalls

(* network.go *)

EnsureVPCNetwork == <<Make({<<"network">>}, {})>>
EnsureSubnetwork == <<Make({<<"subnetwork">>}, {<<"network">>})>>
EnsureCloudNAT   == <<Make({<<"router">>}, {<<"network">>})>>

GcpEnsureNetwork ==
  IF spec.supplied THEN <<>>
  ELSE EnsureVPCNetwork \o EnsureSubnetwork
       \o (IF spec.public THEN <<>> ELSE EnsureCloudNAT)

\* The rule older versions of kubespin made.
DeleteEgressFirewall == <<Discard({<<"firewall">>}, {})>>
DeleteRouter         == <<Discard({<<"router">>}, {})>>
DeleteSubnetwork     == <<Discard({<<"subnetwork">>}, Named("pool", PoolNames))>>
DeleteGcpNetwork     == <<Retry({<<"network">>}, {<<"firewall">>, <<"router">>,
                                                  <<"subnetwork">>, <<"residue">>})>>

GcpDeleteNetwork ==
  IF <<"network">> \notin have THEN <<>>
  ELSE DeleteEgressFirewall \o DeleteRouter \o DeleteSubnetwork \o DeleteGcpNetwork
-----------------------------------------------------------------------------
(* cluster.go *)

\* Mutant: the flags are trusted.
LocateImplied == implied

\* Where the calls of a run look for the cluster: where its flags say, or
\* where a search of every location finds it.
Locate == IF implied = location \/ status = "absent" THEN implied ELSE location

GcpShown == IF Locate = location THEN status ELSE "absent"

\* GKE wants a pool in the request and gets the first of the spec's.
PlaceholderNodePool ==
  IF spec.auto \/ Pools = <<>> THEN {} ELSE NodePool(Pools[1])

\* The network is looked up through the subnetwork, which has to exist.
GcpCreateCluster ==
  <<Call("createCluster", "", {<<"access">>, <<"residue">>} \cup PlaceholderNodePool,
         IF spec.supplied THEN {} ELSE {<<"subnetwork">>})>>

CreateNodePool(p) == Make(NodePool(p), {})

GcpEnsureNodePools ==
  IF spec.auto THEN <<>> ELSE EnsureNodePools([p \in PoolNames |-> CreateNodePool(p)])

GcpCreate ==
  CASE GcpShown = "absent" -> GcpCreateCluster
    [] GcpShown = "active" -> GcpEnsureNodePools
    [] OTHER               -> <<>>

GcpReconcile == ReconcileAccess \o GcpEnsureNodePools

AlreadyGoing == GcpShown \in {"absent", "deleting"}

GcpDelete == IF AlreadyGoing THEN <<>> ELSE <<Call("deleteCluster", "", {}, {})>>
-----------------------------------------------------------------------------
\* The functions of the provisioner, by the names the steps call them.
GcpBody(name) ==
  CASE name = "EnsureNetwork"   -> GcpEnsureNetwork
    [] name = "Create"          -> GcpCreate
    [] name = "Reconcile"       -> GcpReconcile
    [] name = "Delete"          -> GcpDelete
    [] name = "DeleteNetwork"   -> GcpDeleteNetwork

GcpWanted ==
  {<<"access">>}
  \cup (IF spec.auto THEN {} ELSE Named("pool", PoolNames) \cup Named("bounds", PoolNames))
  \cup (IF spec.supplied THEN {} ELSE {<<"network">>, <<"subnetwork">>})
  \cup (IF spec.supplied \/ spec.public THEN {} ELSE {<<"router">>})
=============================================================================
