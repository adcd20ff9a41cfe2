-------------------------------- MODULE Azure --------------------------------
(***************************************************************************)
(* internal/provisioner/azure: the calls by which AKS clusters and their    *)
(* resource groups are created, converged and deleted.  AKS has no          *)
(* Autopilot.                                                               *)
(***************************************************************************)
EXTENDS CloudCalls

\* The resource group comes first, whoever owns the network.
AzureEnsureNetwork ==
  <<Make({<<"group">>}, {})>>
  \o (IF spec.supplied THEN <<>>
      ELSE <<Make({<<"vnet">>}, {<<"group">>}),
             Make({<<"subnet">>}, {<<"vnet">>})>>)

\* The group goes with everything in it, the cluster included.
AzureDeleteNetwork ==
  IF <<"group">> \notin have THEN <<>> ELSE <<Call("deleteGroup", "", {}, {})>>

\* AKS wants one agent pool in the request and gets the first of the spec's.
AzureCreateCluster ==
  <<Call("createCluster", "",
         {<<"access">>} \cup (IF Pools = <<>> THEN {} ELSE NodePool(Pools[1])),
         {<<"group">>} \cup (IF spec.supplied THEN {} ELSE {<<"subnet">>}))>>

CreateAgentPool(p) == Make(NodePool(p), {<<"group">>})

AzureEnsureNodePools == EnsureNodePools([p \in PoolNames |-> CreateAgentPool(p)])

AzureCreate ==
  CASE status = "absent" -> AzureCreateCluster
    [] status = "active" -> AzureEnsureNodePools
    [] OTHER             -> <<>>

AzureReconcile == ReconcileAccess \o AzureEnsureNodePools

AzureDelete ==
  IF status \in {"absent", "deleting"} THEN <<>> ELSE <<Call("deleteCluster", "", {}, {})>>

\* The functions of the provisioner, by the names the steps call them.
AzureBody(name) ==
  CASE name = "EnsureNetwork"   -> AzureEnsureNetwork
    [] name = "Create"          -> AzureCreate
    [] name = "Reconcile"       -> AzureReconcile
    [] name = "Delete"          -> AzureDelete
    [] name = "DeleteNetwork"   -> AzureDeleteNetwork

AzureWanted ==
  {<<"access">>, <<"group">>} \cup Named("pool", PoolNames) \cup Named("bounds", PoolNames)
  \cup (IF spec.supplied THEN {} ELSE {<<"vnet">>, <<"subnet">>})
=============================================================================
