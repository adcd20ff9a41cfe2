--------------------------------- MODULE Aws ---------------------------------
(***************************************************************************)
(* internal/provisioner/aws: the calls by which EKS clusters and their VPCs *)
(* are created, converged and deleted.  Autopilot in the spec is EKS Auto   *)
(* Mode.                                                                    *)
(***************************************************************************)
EXTENDS CloudCalls

Role(r)      == <<"role", r>>
Policy(r, p) == <<"policy", r, p>>
Subnet(az)   == <<"subnet", az>>
Routed(az)   == <<"routed", az>>
Public(az)   == <<"publicIP", az>>

\* Two availability zones, the first two of the region's.
Zones == <<"a", "b">>

SubnetsOf(sp) == IF sp.supplied THEN {} ELSE {Subnet("a"), Subnet("b")}
-----------------------------------------------------------------------------
(* network.go *)

EnsureVPCDNS == <<Make({<<"dnsSupport">>}, {<<"vpc">>}),
                  Make({<<"dnsHostnames">>}, {<<"vpc">>})>>

EnsureVPC == <<Make({<<"vpc">>}, {})>> \o EnsureVPCDNS

\* Mutant: a subnet that is there is trusted.
EnsureSubnetTrusted(az) ==
  IF Subnet(az) \in have THEN <<>>
  ELSE <<Make({Subnet(az)}, {<<"vpc">>}), Make({Public(az)}, {Subnet(az)})>>

EnsureSubnet(az) == <<Make({Subnet(az)}, {<<"vpc">>}),
                      Make({Public(az)}, {Subnet(az)})>>

\* Mutant: a gateway that is there is taken to be attached.
EnsureInternetGatewayFound ==
  IF <<"gateway">> \in have THEN <<>>
  ELSE <<Make({<<"gateway">>}, {}), Make({<<"attached">>}, {<<"gateway">>, <<"vpc">>})>>

\* Looked up by its name, attached if a stopped run left it detached.
EnsureInternetGateway == <<Make({<<"gateway">>}, {}),
                           Make({<<"attached">>}, {<<"gateway">>, <<"vpc">>})>>

EnsureRouteTable ==
  LET Associate(az) == Make({Routed(az)}, {<<"routeTable">>, Subnet(az)})
  IN  <<Make({<<"routeTable">>}, {<<"vpc">>}),
        Make({<<"defaultRoute">>}, {<<"routeTable">>, <<"attached">>})>>
      \o ForEach(Zones, Associate)

\* Mutant: subnets in the spec do not stop it from making its own.
AwsEnsureNetworkAlways ==
  EnsureVPC \o EnsureSubnet(Zones[1]) \o EnsureSubnet(Zones[2])
  \o EnsureInternetGateway \o EnsureRouteTable

AwsEnsureNetwork ==
  IF spec.supplied THEN <<>>
  ELSE EnsureVPC \o EnsureSubnet(Zones[1]) \o EnsureSubnet(Zones[2])
       \o EnsureInternetGateway \o EnsureRouteTable

\* A load balancer's network interface holds on to its group and its subnet.
DeleteSecurityGroups == <<Discard({<<"securityGroup">>}, {<<"residue">>})>>

\* Found by what is attached to the VPC, not by name.
DeleteInternetGateways ==
  IF <<"attached">> \in have
    THEN <<Discard({<<"attached">>}, {}), Discard({<<"gateway">>}, {<<"attached">>})>>
    ELSE <<>>

DeleteSubnets ==
  LET DeleteSubnet(az) == Discard({Subnet(az), Public(az), Routed(az)}, {<<"residue">>})
  IN  ForEach(Zones, DeleteSubnet)

DeleteRouteTables == <<Discard({<<"routeTable">>, <<"defaultRoute">>},
                              Named("routed", {"a", "b"}))>>

DeleteVPC == <<Retry({<<"vpc">>, <<"dnsSupport">>, <<"dnsHostnames">>},
                     {<<"securityGroup">>, <<"attached">>, <<"routeTable">>,
                      <<"residue">>, Subnet("a"), Subnet("b")})>>

\* The VPC is found by name; without one there is nothing to do.
AwsDeleteNetwork ==
  IF <<"vpc">> \notin have THEN <<>>
  ELSE DeleteSecurityGroups \o DeleteInternetGateways \o DeleteSubnets
       \o DeleteRouteTables \o DeleteVPC
-----------------------------------------------------------------------------
(* IAM roles *)

\* The managed policies of each role; the ones with an inline policy.
PoliciesOf(r) ==
  CASE r = "cluster"     -> IF spec.auto THEN <<"EKSCluster", "AutoMode">>
                                         ELSE <<"EKSCluster">>
    [] r = "node"        -> <<"WorkerNode", "CNI", "ECR">>
    [] r = "autoNode"    -> <<"WorkerNodeMinimal", "ECRPull">>
    [] r \in {"ebs-csi", "efs-csi"} -> <<"CSIDriver">>
    [] r \in {"external-dns", "cluster-autoscaler"} -> <<>>

InlinePolicy(r) == IF r \in {"external-dns", "cluster-autoscaler"}
                     THEN {<<"inline", r>>} ELSE {}

AttachPolicies(r) ==
  LET Attach(p) == Make({Policy(r, p)}, {Role(r)}) IN ForEach(PoliciesOf(r), Attach)

EnsureRole(r) == <<Make({Role(r)}, {})>> \o AttachPolicies(r)

EnsureInlinePolicy(r) == <<Make(InlinePolicy(r), {Role(r)})>>

PartsOf(r) == {Policy(r, PoliciesOf(r)[i]) : i \in DOMAIN PoliciesOf(r)}
              \cup InlinePolicy(r) \cup {<<"profile", r>>}

\* Mutant: the role is not taken out of its instance profile.
DeleteRoleInProfile(r) ==
  LET Detach(p) == Discard({Policy(r, p)}, {})
  IN  ForEach(PoliciesOf(r), Detach)
      \o <<Discard(InlinePolicy(r), {}), Discard({Role(r)}, PartsOf(r))>>

\* IAM refuses to delete a role while anything is attached to it.
DeleteRole(r) ==
  LET Detach(p) == Discard({Policy(r, p)}, {})
  IN  ForEach(PoliciesOf(r), Detach)
      \o <<Discard(InlinePolicy(r), {}), Discard({<<"profile", r>>}, {}),
           Discard({Role(r)}, PartsOf(r))>>
-----------------------------------------------------------------------------
(* Add-ons *)

\* The add-ons with a role, the ones with a configuration, and the ones that
\* EKS Auto Mode lacks.
IdentityRoles == {"ebs-csi", "efs-csi", "external-dns"}
Configured    == {"vpc-cni", "external-dns"}
InAutoMode    == {"efs-csi"}

HasIdentity(a) == a \in IdentityRoles

AddonParts(a) == {<<"addon", a>>}
                 \cup (IF a \in Configured THEN {<<"config", a>>} ELSE {})
                 \cup (IF HasIdentity(a) THEN {<<"binding", a>>} ELSE {})

\* Mutant: a binding through IRSA is not looked for.
BindAnyway(a) == {}

\* An add-on an older kubespin bound through IRSA keeps that binding.
KeptBinding(a) == IF <<"irsa", a>> \in have THEN {<<"binding", a>>} ELSE {}

\* EKS Auto Mode comes with all but the ones it lacks.
EnsureManagedAddon(a) ==
  IF spec.auto /\ a \notin InAutoMode THEN <<>>
  ELSE (IF HasIdentity(a) THEN EnsureRole(a) \o EnsureInlinePolicy(a) ELSE <<>>)
       \o <<Make(AddonParts(a) \ KeptBinding(a), IF HasIdentity(a) THEN {Role(a)} ELSE {})>>

EnsureNetworkAddons == EnsureManagedAddon("vpc-cni") \o EnsureManagedAddon("kube-proxy")

EnsureWorkloadAddons ==
  EnsureManagedAddon("pod-identity-agent") \o EnsureManagedAddon("coredns")
  \o EnsureManagedAddon("ebs-csi") \o EnsureManagedAddon("efs-csi")
  \o EnsureManagedAddon("cert-manager") \o EnsureManagedAddon("external-dns")
  \o EnsureManagedAddon("fluent-bit")

EnsureClusterAutoscalerIdentity ==
  EnsureRole("cluster-autoscaler") \o EnsureInlinePolicy("cluster-autoscaler")
  \o <<Make({<<"association", "cluster-autoscaler">>}, {Role("cluster-autoscaler")})>>
-----------------------------------------------------------------------------
(* cluster.go *)

CreateNodeGroup(p) == Make(NodePool(p), {Role("node")} \cup SubnetsOf(spec))

EnsureNodeGroups ==
  EnsureRole("node") \o EnsureNodePools([p \in PoolNames |-> CreateNodeGroup(p)])

\* Mutant: the node groups come first.
EnsureComputeFirst ==
  (IF spec.auto THEN <<>> ELSE EnsureNodeGroups)
  \o EnsureNetworkAddons \o EnsureWorkloadAddons
  \o (IF spec.auto THEN <<>> ELSE EnsureClusterAutoscalerIdentity)

\* The network add-ons come first: what they configure is fixed in a node
\* group when it is created.
EnsureComputeAndAddons ==
  EnsureNetworkAddons
  \o (IF spec.auto THEN <<>> ELSE EnsureNodeGroups)
  \o EnsureWorkloadAddons
  \o (IF spec.auto THEN <<>> ELSE EnsureClusterAutoscalerIdentity)

AwsCreateCluster ==
  (IF spec.auto THEN EnsureRole("autoNode") ELSE <<>>)
  \o <<Call("createCluster", "", {<<"access">>}
              \cup (IF spec.auto THEN {<<"profile", "autoNode">>} ELSE {}),
            {Role("cluster")} \cup SubnetsOf(spec))>>

\* What Create does once the role is there and the cluster described.
AwsCreateDescribed ==
  CASE status = "absent" -> AwsCreateCluster
    [] status = "active" -> EnsureComputeAndAddons
    [] OTHER             -> <<>>

AwsCreate == EnsureRole("cluster") \o <<Do("createDescribed")>>

AwsReconcile == ReconcileAccess \o EnsureComputeAndAddons

\* Those that are listed; deleting one that is not there makes no call.
DeleteNodeGroups ==
  LET DeleteNodeGroup(p) == Call("deletePool", p, {}, {}) IN ForEach(Pools, DeleteNodeGroup)

\* Mutant: nobody waits for the nodes.
NoWaitForNodeGroups == <<>>

WaitForNodeGroupsGone == <<Call("waitPools", "", {}, {})>>

DeleteOIDCProvider == <<Discard({<<"oidc">>}, {})>>

\* Mutant: a cluster that is gone or going has nothing left to clean up.
AwsDeleteOnce ==
  IF status \in {"absent", "deleting"} THEN <<>>
  ELSE DeleteNodeGroups \o WaitForNodeGroupsGone \o DeleteRole("node")
       \o <<Call("deleteCluster", "", {}, Named("pool", PoolNames))>>
       \o DeleteRole("cluster") \o DeleteRole("autoNode")
       \o DeleteRole("ebs-csi") \o DeleteRole("efs-csi") \o DeleteRole("external-dns")
       \o DeleteRole("cluster-autoscaler") \o DeleteOIDCProvider

\* The node groups and their role go before the cluster, the other roles after
\* it was asked to go, whoever asked.  The issuer that finds the OIDC provider
\* is what the cluster showed at the start.
AwsDelete ==
  (IF status \in {"absent", "deleting"} THEN <<>>
   ELSE DeleteNodeGroups \o WaitForNodeGroupsGone \o DeleteRole("node")
        \o <<Call("deleteCluster", "", {}, Named("pool", PoolNames))>>)
  \o DeleteRole("cluster") \o DeleteRole("autoNode")
  \o DeleteRole("ebs-csi") \o DeleteRole("efs-csi") \o DeleteRole("external-dns")
  \o DeleteRole("cluster-autoscaler")
  \o (IF status = "absent" THEN <<>> ELSE DeleteOIDCProvider)
-----------------------------------------------------------------------------
\* The functions of the provisioner, by the names the steps call them.
AwsBody(name) ==
  CASE name = "EnsureNetwork"   -> AwsEnsureNetwork
    [] name = "Create"          -> AwsCreate
    [] name = "createDescribed" -> AwsCreateDescribed
    [] name = "Reconcile"       -> AwsReconcile
    [] name = "Delete"          -> AwsDelete
    [] name = "DeleteNetwork"   -> AwsDeleteNetwork

\* Everything a finished apply has put in place.
AwsWanted ==
  LET addons == {a \in {"vpc-cni", "kube-proxy", "pod-identity-agent", "coredns",
                        "ebs-csi", "efs-csi", "cert-manager", "external-dns",
                        "fluent-bit"} : ~spec.auto \/ a \in InAutoMode}
      roles  == {"cluster"} \cup (IF spec.auto THEN {"autoNode"}
                                  ELSE {"node", "cluster-autoscaler"})
                \cup {a \in addons : HasIdentity(a)}
  IN  (UNION {AddonParts(a) : a \in addons})
      \cup Named("role", roles)
      \cup (UNION {PartsOf(r) \ {<<"profile", r>>} : r \in roles})
      \cup {<<"access">>}
      \cup (IF spec.auto THEN {}
            ELSE Named("pool", PoolNames) \cup Named("bounds", PoolNames)
                 \cup {<<"association", "cluster-autoscaler">>})
      \cup (IF spec.supplied THEN {}
            ELSE {<<"vpc">>, <<"dnsSupport">>, <<"dnsHostnames">>, <<"gateway">>,
                  <<"attached">>, <<"routeTable">>, <<"defaultRoute">>}
                 \cup (UNION {{Subnet(az), Public(az), Routed(az)} : az \in {"a", "b"}}))
=============================================================================
