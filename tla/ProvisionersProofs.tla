-------------------------- MODULE ProvisionersProofs --------------------------
(***************************************************************************)
(* Theorems about Provisioners, for any node pools and any number of        *)
(* stopped runs, cloud failures and changes by hand.                        *)
(*                                                                         *)
(* Each call has what it gives and what it needs.  A run's calls are fine   *)
(* when each needs only what holds now or is given before it, and that is   *)
(* kept as calls are made, as functions open into calls, and whatever the   *)
(* cloud does.  What is wanted of a run is among what holds and what its    *)
(* remaining calls give (an apply) or clear (a delete).                     *)
(***************************************************************************)
EXTENDS Provisioners, SequenceTheorems, TLAPS
-----------------------------------------------------------------------------
(* What a call brings about, and what it relies on having been brought       *)
(* about before it: resources, and facts about the cluster.                  *)

Fact(f) == <<"fact", f>>

\* A role with all that is attached to it.
RoleParts(r) == {Role(r)} \cup (PartsOf(r) \ {<<"profile", r>>})

\* What EnsureNetwork makes.
Network ==
  CASE spec.cloud = "aws"   -> IF spec.supplied THEN {}
                               ELSE {<<"vpc">>, <<"dnsSupport">>, <<"dnsHostnames">>, <<"gateway">>,
                                     <<"attached">>, <<"routeTable">>, <<"defaultRoute">>}
                                    \cup (UNION {{Subnet(az), Public(az), Routed(az)} : az \in {"a", "b"}})
    [] spec.cloud = "gcp"   -> IF spec.supplied THEN {}
                               ELSE {<<"network">>, <<"subnetwork">>}
                                    \cup (IF spec.public THEN {} ELSE {<<"router">>})
    [] spec.cloud = "azure" -> {<<"group">>}
                               \cup (IF spec.supplied THEN {} ELSE {<<"vnet">>, <<"subnet">>})

\* The roles Create makes, the second one beside the cluster.
ClusterRole == IF spec.cloud = "aws" THEN RoleParts("cluster") ELSE {}
AutoRole    == IF spec.cloud = "aws" /\ spec.auto THEN RoleParts("autoNode") ELSE {}

\* What no Reconcile makes again.
Lasting == Network \cup ClusterRole \cup AutoRole

\* What exists only while the cluster does, and the nodes' role.
Inside(r) == r[1] \in {"access", "pool", "bounds", "addon", "config", "binding",
                       "irsa", "association"}

NodeRole == RoleParts("node")

\* What the cluster stands on.
Ground == CASE spec.cloud = "aws"   -> {Role("cluster")} \cup SubnetsOf(spec)
            [] spec.cloud = "gcp"   -> IF spec.supplied THEN {} ELSE {<<"subnetwork">>}
            [] spec.cloud = "azure" -> {<<"group">>}

Gives(c) ==
  CASE c.op = "make"          -> c.what
    [] c.op = "waitActive"    -> {Fact("active")}
    [] c.op \in {"discard", "retry"} /\ Role("node") \in c.what -> {Fact("nodeless")}
    [] c.op = "waitPools"     -> {Fact("poolless")}
    [] c.op = "deleteCluster" -> {Fact("asked")}
    [] c.op = "waitGone"      -> {Fact("gone")}
    [] c.op = "do" /\ c.name = "EnsureNetwork"   -> Network
    [] c.op = "do" /\ c.name = "Create"          -> ClusterRole \cup AutoRole
    [] c.op = "do" /\ c.name = "createDescribed" -> AutoRole
    [] c.op = "do" /\ c.name = "Reconcile"       -> Wanted \ Lasting
    [] OTHER -> {}

Needs(c) ==
  CASE c.op = "make" ->
         (IF \E r \in c.what : Inside(r) \/ r \in NodeRole THEN {Fact("active")} ELSE {})
         \cup (IF spec.cloud = "aws" /\ c.what \cap Named("pool", PoolNames) # {}
                 THEN NodeRole \cup {<<"config", "vpc-cni">>} ELSE {})
    [] c.op = "createCluster" -> AutoRole
    [] c.op = "do" /\ c.name = "Reconcile"     -> {Fact("active")}
    [] c.op = "do" /\ c.name = "DeleteNetwork" -> {Fact("gone")}
    [] c.op \in {"discard", "retry"} ->
         (IF c.what \cap NodeRole # {} THEN {Fact("poolless")} ELSE {})
         \cup (IF Role("cluster") \in c.what THEN {Fact("asked")} ELSE {})
         \cup (IF c.what \cap (SubnetsOf(spec) \cup {<<"subnetwork">>}) # {} THEN {Fact("gone")} ELSE {})
    [] c.op = "deleteCluster" /\ spec.cloud = "aws" -> {Fact("nodeless")}
    [] OTHER -> {}

Elements(s) == {s[i] : i \in DOMAIN s}

IsSeq(s) == s \in Seq(Elements(s))

Given(s) == UNION {Gives(c) : c \in Elements(s)}

\* Every call finds what it relies on, if h holds when the first one is made.
Ready(s, h) ==
  \A j \in DOMAIN s : Needs(s[j]) \subseteq h \cup UNION {Gives(s[i]) : i \in 1..(j - 1)}

\* What a delete's calls get rid of.
RoleLike == {r \in Possible : r[1] \in {"role", "policy", "inline", "profile"}}
NetworkLike == {r \in Possible : r[1] \in {"vpc", "dnsSupport", "dnsHostnames", "attached",
    "routeTable", "defaultRoute", "subnet", "publicIP", "routed", "securityGroup",
    "network", "subnetwork", "router", "firewall", "group", "vnet"}}

Clears(c) ==
  CASE c.op \in {"discard", "retry"} -> c.what
    [] c.op = "deleteGroup" -> Possible
    [] c.op = "do" /\ c.name = "Delete" -> RoleLike
    [] c.op = "do" /\ c.name = "DeleteNetwork" -> NetworkLike
    [] OTHER -> {}

Cleared(s) == UNION {Clears(c) : c \in Elements(s)}

\* What a resource is part of, or attached to.
Parents(r) ==
  CASE r[1] \in {"dnsSupport", "dnsHostnames", "attached", "routeTable", "securityGroup"} -> {<<"vpc">>}
    [] r[1] = "subnet" -> IF spec.cloud = "azure" THEN {<<"vnet">>} ELSE {<<"vpc">>}
    [] r[1] = "publicIP" -> {Subnet(r[2])}
    [] r[1] = "routed" -> {Subnet(r[2]), <<"routeTable">>}
    [] r[1] = "defaultRoute" -> {<<"routeTable">>}
    [] r[1] \in {"policy", "inline"} -> {Role(r[2])}
    [] r[1] \in {"firewall", "router", "subnetwork"} -> {<<"network">>}
    [] r[1] = "vnet" -> {<<"group">>}
    [] OTHER -> {}
-----------------------------------------------------------------------------
\* What an apply finds: the residue may go at any time, and a binding through
\* IRSA stands for one of its own.
Got == Left \cup {<<"binding", a>> : a \in {x \in IdentityRoles : <<"irsa", x>> \in have}}

When(f, b) == IF b THEN {Fact(f)} ELSE {}

Facts ==
  IF run = "apply" THEN Got \cup When("active", status = "active")
  ELSE When("poolless", NodePools = {}) \cup When("nodeless", have \cap NodeRole = {})
       \cup When("asked", status \in {"absent", "deleting"}) \cup When("gone", status = "absent")

ApplyFit(c) ==
  \/ /\ c.op = "make" /\ c.what \subseteq Wanted
     /\ \A r \in c.what : Parents(r) \subseteq c.on
     /\ \A a \in IdentityRoles : <<"binding", a>> \in c.what => <<"irsa", a>> \notin have
  \/ /\ c.op = "createCluster"
     /\ c.what \subseteq {r \in Wanted : Inside(r)} \cup {<<"residue">>}
                         \cup (IF spec.cloud = "aws" THEN {<<"profile", "autoNode">>} ELSE {})
     /\ spec.cloud = "aws" => c.what \cap Named("pool", PoolNames) = {}
     /\ \A a \in IdentityRoles : <<"binding", a>> \notin c.what
     /\ Ground \subseteq c.on
  \/ c.op = "do" /\ c.name \in {"EnsureNetwork", "Create", "Reconcile"}
  \/ c.op = "do" /\ c.name = "createDescribed" /\ spec.cloud = "aws"
  \/ c.op = "waitActive"

DeleteFit(c) ==
  \/ /\ c.op \in {"discard", "retry"}
     /\ \A r \in Possible : Parents(r) \cap c.what # {} => r \in c.what \cup c.on
     /\ <<"group">> \notin c.what
  \/ c.op = "do" /\ c.name \in {"Delete", "DeleteNetwork"}
  \/ c.op \in {"deletePool", "waitPools", "deleteCluster", "waitGone"}
  \/ c.op = "deleteGroup" /\ spec.cloud = "azure"

Fit(c) == IF run = "apply" THEN ApplyFit(c) ELSE DeleteFit(c)

\* A run may make these calls when h holds.
Fine(s, h) == IsSeq(s) /\ (\A c \in Elements(s) : Fit(c)) /\ Ready(s, h)

\* The invariant.

\* Each call a run has left will find what it relies on.
Planned == Fine(todo, Facts)

\* What an apply is for exists, or is given by a call that is left.
Applying == run = "apply" =>
  /\ record \in {"pending", "ready"}
  /\ Wanted \cup {Fact("active")} \subseteq Facts \cup Given(todo)
  /\ complete => ~wrote /\ status = "active" /\ Wanted \subseteq Got

\* What a delete is to remove is gone, or goes with the cluster or by a call
\* that is left.
Deleting == run = "delete" =>
  /\ record = "decommissioning"
  /\ Fact("gone") \in Facts \cup Given(todo)
  /\ have \subseteq {r \in Possible : Inside(r)} \cup Unfindable \cup {<<"residue">>} \cup Cleared(todo)

\* Nothing exists without what it is part of.
Rooted ==
  /\ \A r \in have : Parents(r) \subseteq have
  /\ <<"profile", "autoNode">> \in have => spec.cloud = "aws"

\* The cluster has what it stands on, its nodes their role, and what is inside
\* it exists only while it does.
Grounded ==
  /\ status # "absent" => Ground \ {Role("cluster")} \subseteq have
  /\ spec.cloud = "aws" /\ status \in {"creating", "active"} => Role("cluster") \in have
  /\ status = "absent" => \A r \in have : ~Inside(r)
  /\ status # "active" => have \cap NodeRole = {}
  /\ spec.cloud = "aws" /\ NodePools # {} => NodeRole \subseteq have

\* What the record says of the cloud, between runs too: what no Reconcile makes
\* again is there once the record is ready.
Recording ==
  /\ record = "ready" => status = "active" /\ Lasting \subseteq have
  /\ record \in {"none", "pending", "ready"} => going = {} /\ status # "deleting"
       /\ (status # "absent" => AutoRole \subseteq have)
  /\ record = "gone" => run = "idle" /\ status = "absent" /\ Left \subseteq Unfindable

IInv == TypeOK /\ Planned /\ Applying /\ Deleting /\ Rooted /\ Grounded /\ Recording
-----------------------------------------------------------------------------
(* Sequences of calls. *)

LEMMA NoCalls ==
  ASSUME NEW h
  PROVE  IsSeq(<<>>) /\ Elements(<<>>) = {} /\ Given(<<>>) = {} /\ Cleared(<<>>) = {} /\ Ready(<<>>, h)
<1> DEFINE e == <<>>
<1>1. e \in Seq({}) /\ Len(e) = 0
  OBVIOUS
<1>2. DOMAIN e = {}
  OBVIOUS
<1> HIDE DEF e
<1>3. Elements(e) = {}
  BY <1>2 DEF Elements
<1>4. IsSeq(e)
  BY <1>1, <1>3 DEF IsSeq
<1>5. Given(e) = {} /\ Cleared(e) = {}
  BY <1>3 DEF Given, Cleared
<1>6. Ready(e, h)
  BY <1>2 DEF Ready
<1> QED
  BY <1>3, <1>4, <1>5, <1>6 DEF e

LEMMA SeqShape ==
  ASSUME NEW s, IsSeq(s)
  PROVE  /\ Len(s) \in Nat /\ DOMAIN s = 1..Len(s)
         /\ \A i \in 1..Len(s) : s[i] \in Elements(s)
         /\ \A c \in Elements(s) : \E i \in 1..Len(s) : c = s[i]
BY DEF IsSeq, Elements

LEMMA One ==
  ASSUME NEW c
  PROVE  /\ IsSeq(<<c>>) /\ Elements(<<c>>) = {c}
         /\ Given(<<c>>) = Gives(c) /\ Cleared(<<c>>) = Clears(c)
<1>1. Elements(<<c>>) = {c}
  BY DEF Elements
<1>2. <<c>> \in Seq({c})
  OBVIOUS
<1> QED
  BY <1>1, <1>2 DEF IsSeq, Given, Cleared

LEMMA OneReady ==
  ASSUME NEW c, NEW h, Needs(c) \subseteq h
  PROVE  Ready(<<c>>, h)
BY DEF Ready

LEMMA Joined ==
  ASSUME NEW s, NEW t, IsSeq(s), IsSeq(t)
  PROVE  /\ IsSeq(s \o t) /\ Elements(s \o t) = Elements(s) \cup Elements(t)
         /\ Given(s \o t) = Given(s) \cup Given(t)
         /\ Cleared(s \o t) = Cleared(s) \cup Cleared(t)
<1> DEFINE S == Elements(s) \cup Elements(t)
<1>1. s \in Seq(S) /\ t \in Seq(S)
  BY DEF IsSeq
<1>2. /\ s \o t \in Seq(S) /\ Len(s \o t) = Len(s) + Len(t)
      /\ \A i \in 1..(Len(s) + Len(t)) :
           (s \o t)[i] = IF i <= Len(s) THEN s[i] ELSE t[i - Len(s)]
  BY <1>1, ConcatProperties
<1>3. Elements(s \o t) \subseteq S
  BY <1>2 DEF Elements
<1>4. ASSUME NEW c \in Elements(s) PROVE c \in Elements(s \o t)
  <2>1. PICK i \in 1..Len(s) : c = s[i]
    BY <1>4, SeqShape
  <2>2. i \in 1..(Len(s) + Len(t)) /\ (s \o t)[i] = s[i] /\ i \in DOMAIN (s \o t)
    BY <1>1, <1>2, <2>1
  <2> QED
    BY <2>1, <2>2 DEF Elements
<1>5. ASSUME NEW c \in Elements(t) PROVE c \in Elements(s \o t)
  <2>1. PICK i \in 1..Len(t) : c = t[i]
    BY <1>5, SeqShape
  <2>2. Len(s) + i \in 1..(Len(s) + Len(t)) /\ (s \o t)[Len(s) + i] = t[i]
        /\ Len(s) + i \in DOMAIN (s \o t)
    BY <1>1, <1>2, <2>1
  <2> QED
    BY <2>1, <2>2 DEF Elements
<1>6. Elements(s \o t) = S
  BY <1>3, <1>4, <1>5
<1> QED
  BY <1>2, <1>6 DEF IsSeq, Given, Cleared

LEMMA JoinedReady ==
  ASSUME NEW s, NEW t, IsSeq(s), IsSeq(t), NEW h, Ready(s, h), Ready(t, h \cup Given(s))
  PROVE  Ready(s \o t, h)
<1> DEFINE S == Elements(s) \cup Elements(t)
           u == s \o t
<1>1. s \in Seq(S) /\ t \in Seq(S)
  BY DEF IsSeq
<1>2. /\ u \in Seq(S) /\ Len(u) = Len(s) + Len(t)
      /\ \A i \in 1..(Len(s) + Len(t)) : u[i] = IF i <= Len(s) THEN s[i] ELSE t[i - Len(s)]
      /\ Len(s) \in Nat /\ Len(t) \in Nat
  BY <1>1, ConcatProperties
<1> HIDE DEF u
<1> SUFFICES ASSUME NEW j \in 1..(Len(s) + Len(t))
             PROVE  Needs(u[j]) \subseteq h \cup UNION {Gives(u[i]) : i \in 1..(j - 1)}
  <2>1. DOMAIN u = 1..(Len(s) + Len(t))
    BY <1>2
  <2> QED
    BY <2>1 DEF Ready, u
<1>3. CASE j <= Len(s)
  <2>1. u[j] = s[j] /\ \A i \in 1..(j - 1) : u[i] = s[i]
    BY <1>2, <1>3
  <2>2. {Gives(u[i]) : i \in 1..(j - 1)} = {Gives(s[i]) : i \in 1..(j - 1)}
    BY <2>1
  <2>3. j \in DOMAIN s
    BY <1>2, <1>3, SeqShape
  <2> QED
    BY <2>1, <2>2, <2>3 DEF Ready
<1>4. CASE j > Len(s)
  <2> DEFINE k == j - Len(s)
  <2>1. k \in 1..Len(t) /\ u[j] = t[k]
    BY <1>2, <1>4
  <2>2. k \in DOMAIN t
    BY <2>1, SeqShape
  <2>3. Needs(t[k]) \subseteq h \cup Given(s) \cup UNION {Gives(t[i]) : i \in 1..(k - 1)}
    BY <2>2 DEF Ready
  <2>4. ASSUME NEW c \in Elements(s) PROVE \E i \in 1..(j - 1) : u[i] = c
    <3>1. PICK i \in 1..Len(s) : c = s[i]
      BY <2>4, SeqShape
    <3>2. i \in 1..(j - 1) /\ u[i] = s[i]
      BY <1>2, <1>4, <3>1
    <3> QED
      BY <3>1, <3>2
  <2>5. Given(s) \subseteq UNION {Gives(u[i]) : i \in 1..(j - 1)}
    BY <2>4 DEF Given
  <2>6. ASSUME NEW i \in 1..(k - 1)
        PROVE  Len(s) + i \in 1..(j - 1) /\ u[Len(s) + i] = t[i]
    <3>1. /\ i \in Int /\ i >= 1 /\ Len(s) + i \in 1..(j - 1)
          /\ Len(s) + i \in 1..(Len(s) + Len(t))
          /\ ~(Len(s) + i <= Len(s)) /\ (Len(s) + i) - Len(s) = i
      BY <1>2, <1>4, <2>1
    <3> QED
      BY <1>2, <3>1
  <2>7. UNION {Gives(t[i]) : i \in 1..(k - 1)} \subseteq UNION {Gives(u[i]) : i \in 1..(j - 1)}
    BY <2>6
  <2> QED
    BY <2>1, <2>3, <2>5, <2>7
<1>5. j <= Len(s) \/ j > Len(s)
  BY <1>2
<1> QED
  BY <1>3, <1>4, <1>5

LEMMA FirstAndRest ==
  ASSUME NEW s, IsSeq(s), s # <<>>
  PROVE  /\ Head(s) \in Elements(s) /\ IsSeq(Tail(s))
         /\ Elements(s) = {Head(s)} \cup Elements(Tail(s))
         /\ Given(s) = Gives(Head(s)) \cup Given(Tail(s))
         /\ Cleared(s) = Clears(Head(s)) \cup Cleared(Tail(s))
<1>1. /\ s \in Seq(Elements(s)) /\ Len(s) \in Nat \ {0}
      /\ Head(s) = s[1] /\ Tail(s) \in Seq(Elements(s))
      /\ Len(Tail(s)) = Len(s) - 1
      /\ \A i \in 1..(Len(s) - 1) : Tail(s)[i] = s[i + 1]
  BY DEF IsSeq
<1>2. DOMAIN Tail(s) = 1..(Len(s) - 1) /\ DOMAIN s = 1..Len(s)
  BY <1>1
<1>3. Elements(s) \subseteq {Head(s)} \cup Elements(Tail(s))
  <2> SUFFICES ASSUME NEW i \in 1..Len(s) PROVE s[i] = Head(s) \/ s[i] \in Elements(Tail(s))
    BY <1>2 DEF Elements
  <2>1. CASE i = 1
    BY <1>1, <2>1
  <2>2. CASE i # 1
    <3>1. i - 1 \in 1..(Len(s) - 1) /\ Tail(s)[i - 1] = s[i]
      BY <1>1, <2>2
    <3> QED
      BY <1>2, <3>1 DEF Elements
  <2> QED
    BY <2>1, <2>2
<1>4. Elements(Tail(s)) \subseteq Elements(s) /\ Head(s) \in Elements(s)
  BY <1>1, <1>2 DEF Elements
<1>5. IsSeq(Tail(s))
  <2> DEFINE t == Tail(s)
  <2>1. t \in Seq(Elements(s))
    BY <1>1
  <2> HIDE DEF t
  <2>2. t \in Seq(Range(t))
    BY <2>1, SeqOfRange
  <2> QED
    BY <2>2 DEF IsSeq, Elements, Range, t
<1>6. Elements(s) = {Head(s)} \cup Elements(Tail(s))
  BY <1>3, <1>4
<1> QED
  BY <1>4, <1>5, <1>6 DEF Given, Cleared

LEMMA RestReady ==
  ASSUME NEW s, IsSeq(s), s # <<>>, NEW h, Ready(s, h), NEW g, h \cup Gives(Head(s)) \subseteq g
  PROVE  Needs(Head(s)) \subseteq h /\ Ready(Tail(s), g)
<1>1. /\ s \in Seq(Elements(s)) /\ Len(s) \in Nat \ {0}
      /\ Head(s) = s[1] /\ Tail(s) \in Seq(Elements(s))
      /\ Len(Tail(s)) = Len(s) - 1
      /\ \A i \in 1..(Len(s) - 1) : Tail(s)[i] = s[i + 1]
  BY DEF IsSeq
<1>2. DOMAIN Tail(s) = 1..(Len(s) - 1) /\ DOMAIN s = 1..Len(s)
  BY <1>1
<1>3. Needs(Head(s)) \subseteq h
  BY <1>1, <1>2 DEF Ready
<1>4. ASSUME NEW j \in 1..(Len(s) - 1)
      PROVE  Needs(Tail(s)[j]) \subseteq g \cup UNION {Gives(Tail(s)[i]) : i \in 1..(j - 1)}
  <2>1. j + 1 \in DOMAIN s /\ Tail(s)[j] = s[j + 1]
    BY <1>1, <1>2
  <2>2. Needs(s[j + 1]) \subseteq h \cup UNION {Gives(s[i]) : i \in 1..j}
    BY <1>1, <2>1 DEF Ready
  <2>3. \A i \in 1..j : i = 1 \/ (i - 1 \in 1..(j - 1) /\ s[i] = Tail(s)[i - 1])
    BY <1>1
  <2>4. UNION {Gives(s[i]) : i \in 1..j} \subseteq
          Gives(Head(s)) \cup UNION {Gives(Tail(s)[i]) : i \in 1..(j - 1)}
    BY <1>1, <2>3
  <2> QED
    BY <2>1, <2>2, <2>4
<1> QED
  BY <1>2, <1>3, <1>4 DEF Ready

LEMMA MoreReady ==
  ASSUME NEW s, NEW h, NEW g, Ready(s, h), h \subseteq g
  PROVE  Ready(s, g)
BY DEF Ready

LEMMA Nothing ==
  ASSUME NEW h
  PROVE  Fine(<<>>, h) /\ Given(<<>>) = {} /\ Cleared(<<>>) = {}
<1>1. IsSeq(<<>>) /\ Elements(<<>>) = {} /\ Given(<<>>) = {} /\ Cleared(<<>>) = {} /\ Ready(<<>>, h)
  BY NoCalls
<1>2. \A c \in Elements(<<>>) : Fit(c)
  BY <1>1
<1> QED
  BY <1>1, <1>2 DEF Fine

LEMMA Single ==
  ASSUME NEW c, NEW h, Fit(c), Needs(c) \subseteq h
  PROVE  Fine(<<c>>, h) /\ Given(<<c>>) = Gives(c) /\ Cleared(<<c>>) = Clears(c)
<1>1. IsSeq(<<c>>) /\ Elements(<<c>>) = {c} /\ Given(<<c>>) = Gives(c) /\ Cleared(<<c>>) = Clears(c)
  BY One
<1>2. Ready(<<c>>, h)
  BY OneReady
<1>3. \A d \in Elements(<<c>>) : Fit(d)
  BY <1>1
<1> QED
  BY <1>1, <1>2, <1>3 DEF Fine

LEMMA Then ==
  ASSUME NEW s, NEW t, NEW h, Fine(s, h), Fine(t, h \cup Given(s))
  PROVE  /\ Fine(s \o t, h)
         /\ Given(s \o t) = Given(s) \cup Given(t)
         /\ Cleared(s \o t) = Cleared(s) \cup Cleared(t)
<1>1. IsSeq(s) /\ IsSeq(t) /\ Ready(s, h) /\ Ready(t, h \cup Given(s))
  BY DEF Fine
<1>2. /\ IsSeq(s \o t) /\ Elements(s \o t) = Elements(s) \cup Elements(t)
      /\ Given(s \o t) = Given(s) \cup Given(t)
      /\ Cleared(s \o t) = Cleared(s) \cup Cleared(t)
  BY <1>1, Joined
<1>3. Ready(s \o t, h)
  BY <1>1, JoinedReady
<1>4. \A c \in Elements(s \o t) : Fit(c)
  BY <1>2 DEF Fine
<1> QED
  BY <1>2, <1>3, <1>4 DEF Fine

LEMMA Finer ==
  ASSUME NEW s, NEW h, NEW g, Fine(s, h), h \subseteq g
  PROVE  Fine(s, g)
BY MoreReady DEF Fine

LEMMA Rest ==
  ASSUME NEW s, NEW h, NEW g, Fine(s, h), s # <<>>, h \cup Gives(Head(s)) \subseteq g
  PROVE  /\ Fine(Tail(s), g) /\ Fit(Head(s)) /\ Needs(Head(s)) \subseteq h
         /\ Given(s) = Gives(Head(s)) \cup Given(Tail(s))
         /\ Cleared(s) = Clears(Head(s)) \cup Cleared(Tail(s))
<1>1. IsSeq(s) /\ Ready(s, h)
  BY DEF Fine
<1>2. /\ Head(s) \in Elements(s) /\ IsSeq(Tail(s))
      /\ Elements(s) = {Head(s)} \cup Elements(Tail(s))
      /\ Given(s) = Gives(Head(s)) \cup Given(Tail(s))
      /\ Cleared(s) = Clears(Head(s)) \cup Cleared(Tail(s))
  BY <1>1, FirstAndRest
<1>3. Needs(Head(s)) \subseteq h /\ Ready(Tail(s), g)
  BY <1>1, RestReady
<1> QED
  BY <1>2, <1>3 DEF Fine

\* One call for each member of a sequence of n.
LEMMA Each ==
  ASSUME NEW n \in Nat, NEW f, f = [i \in 1..n |-> f[i]], NEW h,
         \A i \in 1..n : Fit(f[i]) /\ Needs(f[i]) \subseteq h
  PROVE  /\ Fine(f, h)
         /\ Given(f) = UNION {Gives(f[i]) : i \in 1..n}
         /\ Cleared(f) = UNION {Clears(f[i]) : i \in 1..n}
<1>1. DOMAIN f = 1..n
  OBVIOUS
<1>2. Elements(f) = {f[i] : i \in 1..n}
  BY <1>1 DEF Elements
<1>3. f \in [1..n -> Elements(f)]
  BY <1>2
<1>4. IsSeq(f)
  BY <1>3 DEF IsSeq
<1>5. Ready(f, h)
  BY <1>1 DEF Ready
<1>6. \A c \in Elements(f) : Fit(c)
  BY <1>2
<1>7. Given(f) = UNION {Gives(f[i]) : i \in 1..n}
  BY <1>2 DEF Given
<1>8. Cleared(f) = UNION {Clears(f[i]) : i \in 1..n}
  BY <1>2 DEF Cleared
<1> QED
  BY <1>4, <1>5, <1>6, <1>7, <1>8 DEF Fine
-----------------------------------------------------------------------------
(* What the functions of aws do in an apply. *)

LEMMA CallFields ==
  ASSUME NEW w, NEW n, NEW f
  PROVE  /\ Make(w, n).op = "make" /\ Make(w, n).what = w /\ Make(w, n).on = n
         /\ Discard(w, n).op = "discard" /\ Discard(w, n).what = w /\ Discard(w, n).on = n
         /\ Retry(w, n).op = "retry" /\ Retry(w, n).what = w /\ Retry(w, n).on = n
         /\ Do(f).op = "do" /\ Do(f).name = f
BY DEF Make, Discard, Retry, Do, Call

LEMMA Makes ==
  ASSUME run = "apply", NEW w, NEW n, NEW h, w \subseteq Wanted,
         \A r \in w : Parents(r) \subseteq n,
         \A a \in IdentityRoles : <<"binding", a>> \in w => <<"irsa", a>> \notin have,
         (\E r \in w : Inside(r) \/ r \in NodeRole) => Fact("active") \in h,
         spec.cloud = "aws" /\ w \cap Named("pool", PoolNames) # {}
           => NodeRole \cup {<<"config", "vpc-cni">>} \subseteq h
  PROVE  Fit(Make(w, n)) /\ Needs(Make(w, n)) \subseteq h /\ Gives(Make(w, n)) = w
<1> DEFINE c == Make(w, n)
<1>1. c.op = "make" /\ c.what = w /\ c.on = n
  BY CallFields
<1> HIDE DEF c
<1>2. Fit(c)
  BY <1>1 DEF Fit, ApplyFit
<1>3. Needs(c) \subseteq h
  BY <1>1 DEF Needs
<1>4. Gives(c) = w
  BY <1>1 DEF Gives
<1> QED
  BY <1>2, <1>3, <1>4 DEF c

\* The roles and the add-ons of an EKS cluster.
AwsRoles == {"cluster"} \cup (IF spec.auto THEN {"autoNode"} ELSE {"node", "cluster-autoscaler"})
            \cup {a \in IdentityRoles : ~spec.auto \/ a \in InAutoMode}

AwsAddons == {a \in {"vpc-cni", "kube-proxy", "pod-identity-agent", "coredns",
                     "ebs-csi", "efs-csi", "cert-manager", "external-dns",
                     "fluent-bit"} : ~spec.auto \/ a \in InAutoMode}

PoolParts == Named("pool", PoolNames) \cup Named("bounds", PoolNames)

LEMMA AwsWants ==
  ASSUME spec.cloud = "aws"
  PROVE  Wanted = (UNION {AddonParts(a) : a \in AwsAddons}) \cup (UNION {RoleParts(r) : r \in AwsRoles})
                  \cup {<<"access">>} \cup Network
                  \cup (IF spec.auto THEN {} ELSE PoolParts \cup {<<"association", "cluster-autoscaler">>})
<1>1. Wanted = AwsWanted
  BY DEF Wanted
<1>2. {a \in AwsAddons : HasIdentity(a)} = {a \in IdentityRoles : ~spec.auto \/ a \in InAutoMode}
  BY DEF AwsAddons, HasIdentity, IdentityRoles, InAutoMode
<1>3. Named("role", AwsRoles) \cup (UNION {PartsOf(r) \ {<<"profile", r>>} : r \in AwsRoles})
        = (UNION {RoleParts(r) : r \in AwsRoles})
  BY DEF Named, RoleParts, Role
<1> DEFINE roles == {"cluster"} \cup (IF spec.auto THEN {"autoNode"} ELSE {"node", "cluster-autoscaler"})
                     \cup {a \in AwsAddons : HasIdentity(a)}
<1>4. roles = AwsRoles
  BY <1>2 DEF AwsRoles
<1>5. AwsWanted = (UNION {AddonParts(a) : a \in AwsAddons})
      \cup Named("role", roles)
      \cup (UNION {PartsOf(r) \ {<<"profile", r>>} : r \in roles})
      \cup {<<"access">>}
      \cup (IF spec.auto THEN {}
            ELSE Named("pool", PoolNames) \cup Named("bounds", PoolNames)
                 \cup {<<"association", "cluster-autoscaler">>})
      \cup Network
  BY DEF AwsWanted, AwsAddons, Network
<1> HIDE DEF roles
<1> QED
  BY <1>1, <1>3, <1>4, <1>5 DEF PoolParts

LEMMA Kinds ==
  ASSUME NEW r
  PROVE  /\ ~Inside(Role(r)) /\ Parents(Role(r)) = {}
         /\ ~Inside(<<"inline", r>>) /\ Parents(<<"inline", r>>) = {Role(r)}
         /\ \A p : ~Inside(Policy(r, p)) /\ Parents(Policy(r, p)) = {Role(r)}
BY DEF Inside, Role, Policy, Parents

\* The parts of a role are the role's own.
LEMMA OwnParts ==
  ASSUME NEW r
  PROVE  \A x \in RoleParts(r) : /\ x[2] = r /\ x[1] \in {"role", "policy", "inline"}
                                 /\ Parents(x) \subseteq {Role(r)} /\ ~Inside(x)
<1> SUFFICES ASSUME NEW x \in RoleParts(r)
             PROVE  /\ x[2] = r /\ x[1] \in {"role", "policy", "inline"}
                    /\ Parents(x) \subseteq {Role(r)} /\ ~Inside(x)
  OBVIOUS
<1>1. x = Role(r) \/ (\E i \in DOMAIN PoliciesOf(r) : x = Policy(r, PoliciesOf(r)[i])) \/ x = <<"inline", r>>
  BY DEF RoleParts, PartsOf, InlinePolicy
<1>2. CASE x = Role(r)
  <2>1. x[1] = "role" /\ x[2] = r
    BY <1>2 DEF Role
  <2> QED
    BY <1>2, <2>1, Kinds
<1>3. CASE \E i \in DOMAIN PoliciesOf(r) : x = Policy(r, PoliciesOf(r)[i])
  <2>1. PICK i \in DOMAIN PoliciesOf(r) : x = Policy(r, PoliciesOf(r)[i])
    BY <1>3
  <2>2. x[1] = "policy" /\ x[2] = r
    BY <2>1 DEF Policy
  <2> QED
    BY <2>1, <2>2, Kinds
<1>4. CASE x = <<"inline", r>>
  BY <1>4, Kinds
<1> QED
  BY <1>1, <1>2, <1>3, <1>4

LEMMA OtherRole ==
  ASSUME NEW r, r # "node"
  PROVE  RoleParts(r) \cap NodeRole = {}
BY OwnParts DEF NodeRole

RoleNames == {"cluster", "node", "autoNode", "ebs-csi", "efs-csi", "external-dns", "cluster-autoscaler"}

LEMMA Policies ==
  ASSUME NEW r \in RoleNames
  PROVE  Len(PoliciesOf(r)) \in Nat /\ DOMAIN PoliciesOf(r) = 1..Len(PoliciesOf(r))
<1> DEFINE ps == PoliciesOf(r)
<1>1. \/ ps = <<"EKSCluster", "AutoMode">> \/ ps = <<"EKSCluster">>
      \/ ps = <<"WorkerNode", "CNI", "ECR">> \/ ps = <<"WorkerNodeMinimal", "ECRPull">>
      \/ ps = <<"CSIDriver">> \/ ps = <<>>
  BY DEF PoliciesOf, RoleNames
<1> HIDE DEF ps
<1>2. CASE ps = <<"EKSCluster", "AutoMode">>
  BY <1>2
<1>3. CASE ps = <<"EKSCluster">>
  BY <1>3
<1>4. CASE ps = <<"WorkerNode", "CNI", "ECR">>
  BY <1>4
<1>5. CASE ps = <<"WorkerNodeMinimal", "ECRPull">>
  BY <1>5
<1>6. CASE ps = <<"CSIDriver">>
  BY <1>6
<1>7. CASE ps = <<>>
  BY <1>7
<1>8. Len(ps) \in Nat /\ DOMAIN ps = 1..Len(ps)
  BY <1>1, <1>2, <1>3, <1>4, <1>5, <1>6, <1>7
<1> QED
  BY <1>8 DEF ps

LEMMA WantedRoleNames == AwsRoles \subseteq RoleNames
BY DEF AwsRoles, RoleNames, IdentityRoles

LEMMA RoleWanted ==
  ASSUME spec.cloud = "aws", NEW r \in AwsRoles
  PROVE  RoleParts(r) \subseteq Wanted
BY AwsWants

\* One part of a role is made.
LEMMA MakesRolePart ==
  ASSUME run = "apply", spec.cloud = "aws", NEW r \in AwsRoles, NEW w, w \subseteq RoleParts(r),
         NEW n, NEW h, w \subseteq {Role(r)} \/ Role(r) \in n,
         r = "node" => Fact("active") \in h
  PROVE  Fit(Make(w, n)) /\ Needs(Make(w, n)) \subseteq h /\ Gives(Make(w, n)) = w
<1>1. w \subseteq Wanted
  BY RoleWanted
<1>2. \A x \in w : x[1] \in {"role", "policy", "inline"} /\ Parents(x) \subseteq {Role(r)} /\ ~Inside(x)
  BY OwnParts
<1>3. \A x \in w : Parents(x) \subseteq n
  BY <1>2, Kinds
<1>4. \A a \in IdentityRoles : <<"binding", a>> \notin w
  BY <1>2
<1>5. w \cap Named("pool", PoolNames) = {}
  BY <1>2 DEF Named
<1>6. (\E x \in w : Inside(x) \/ x \in NodeRole) => Fact("active") \in h
  BY <1>2, OtherRole
<1> QED
  BY <1>1, <1>3, <1>4, <1>5, <1>6, Makes

LEMMA EnsuresRole ==
  ASSUME run = "apply", spec.cloud = "aws", NEW r \in AwsRoles, NEW h, r = "node" => Fact("active") \in h
  PROVE  /\ Fine(EnsureRole(r), h)
         /\ Given(EnsureRole(r)) = {Role(r)} \cup {Policy(r, PoliciesOf(r)[i]) : i \in DOMAIN PoliciesOf(r)}
         /\ Fine(EnsureRole(r) \o EnsureInlinePolicy(r), h)
         /\ Given(EnsureRole(r) \o EnsureInlinePolicy(r)) = RoleParts(r)
<1> DEFINE ps == PoliciesOf(r)
           f  == AttachPolicies(r)
           c  == Make({Role(r)}, {})
<1>1. Len(ps) \in Nat /\ DOMAIN ps = 1..Len(ps)
  BY Policies, WantedRoleNames
<1>2. f = [i \in 1..Len(ps) |-> Make({Policy(r, ps[i])}, {Role(r)})]
  BY <1>1 DEF AttachPolicies, ForEach
<1>3. \A i \in 1..Len(ps) : {Policy(r, ps[i])} \subseteq RoleParts(r)
  BY <1>1 DEF RoleParts, PartsOf, Policy
<1>4. ASSUME NEW i \in 1..Len(ps)
      PROVE  Fit(f[i]) /\ Needs(f[i]) \subseteq h /\ Gives(f[i]) = {Policy(r, ps[i])}
  <2> DEFINE w == {Policy(r, ps[i])}
  <2>1. w \subseteq RoleParts(r) /\ f[i] = Make(w, {Role(r)})
    BY <1>2, <1>3
  <2> HIDE DEF w, f, ps
  <2> DEFINE n == {Role(r)}
  <2>2. Role(r) \in n
    OBVIOUS
  <2> HIDE DEF n
  <2>3. Fit(Make(w, n)) /\ Needs(Make(w, n)) \subseteq h /\ Gives(Make(w, n)) = w
    BY <2>1, <2>2, MakesRolePart
  <2> QED
    BY <2>1, <2>3 DEF w, n
<1>5. Fine(f, h) /\ Given(f) = {Policy(r, ps[i]) : i \in 1..Len(ps)}
  <2>1. f = [i \in 1..Len(ps) |-> f[i]]
    BY <1>2
  <2> HIDE DEF f, ps
  <2>2. Fine(f, h) /\ Given(f) = UNION {Gives(f[i]) : i \in 1..Len(ps)}
    BY <1>1, <1>4, <2>1, Each
  <2>3. \A i \in 1..Len(ps) : Gives(f[i]) = {Policy(r, ps[i])}
    BY <1>4
  <2>4. ASSUME NEW x \in Given(f) PROVE \E i \in 1..Len(ps) : x = Policy(r, ps[i])
    <3>1. PICK i \in 1..Len(ps) : x \in Gives(f[i])
      BY <2>2
    <3> QED
      BY <2>3, <3>1
  <2>5. ASSUME NEW i \in 1..Len(ps) PROVE Policy(r, ps[i]) \in Given(f)
    <3>1. Policy(r, ps[i]) \in Gives(f[i])
      BY <2>3
    <3> QED
      BY <2>2, <3>1
  <2> QED
    BY <2>2, <2>4, <2>5
<1>6. Fine(<<c>>, h) /\ Given(<<c>>) = {Role(r)}
  <2>1. {Role(r)} \subseteq RoleParts(r)
    BY DEF RoleParts
  <2>2. Fit(c) /\ Needs(c) \subseteq h /\ Gives(c) = {Role(r)}
    BY <2>1, MakesRolePart
  <2> QED
    BY <2>2, Single
<1>7. EnsureRole(r) = <<c>> \o f
  BY DEF EnsureRole
<1> DEFINE e == EnsureRole(r)
           g == Make(InlinePolicy(r), {Role(r)})
<1>8. Fine(e, h) /\ Given(e) = {Role(r)} \cup {Policy(r, ps[i]) : i \in 1..Len(ps)}
  <2> HIDE DEF f, c, ps
  <2>1. Fine(f, h \cup Given(<<c>>))
    BY <1>5, Finer
  <2> QED
    BY <1>5, <1>6, <1>7, <2>1, Then
<1>9. \A k : Fine(<<g>>, h \cup k) /\ Given(<<g>>) = InlinePolicy(r)
  <2>1. InlinePolicy(r) \subseteq RoleParts(r)
    BY DEF RoleParts, PartsOf, InlinePolicy
  <2>2. \A k : Fit(g) /\ Needs(g) \subseteq h \cup k /\ Gives(g) = InlinePolicy(r)
    BY <2>1, MakesRolePart
  <2> QED
    BY <2>2, Single
<1>10. EnsureRole(r) \o EnsureInlinePolicy(r) = e \o <<g>>
  BY DEF EnsureInlinePolicy
<1>11. RoleParts(r) = {Role(r)} \cup {Policy(r, ps[i]) : i \in 1..Len(ps)} \cup InlinePolicy(r)
  BY <1>1 DEF RoleParts, PartsOf, InlinePolicy, Policy
<1> HIDE DEF e, g, ps
<1>12. Fine(e \o <<g>>, h) /\ Given(e \o <<g>>) = RoleParts(r)
  BY <1>8, <1>9, <1>11, Then, ZenonT(40)
<1> QED
  BY <1>1, <1>8, <1>10, <1>12 DEF e, ps

LEMMA OwnAddonParts ==
  ASSUME NEW a
  PROVE  \A x \in AddonParts(a) : /\ x[2] = a /\ x[1] \in {"addon", "config", "binding"}
                                  /\ Parents(x) = {}
<1> SUFFICES ASSUME NEW x \in AddonParts(a)
             PROVE  x[2] = a /\ x[1] \in {"addon", "config", "binding"} /\ Parents(x) = {}
  OBVIOUS
<1>1. x = <<"addon", a>> \/ x = <<"config", a>> \/ x = <<"binding", a>>
  BY DEF AddonParts
<1>2. x[2] = a /\ x[1] \in {"addon", "config", "binding"}
  BY <1>1
<1> QED
  BY <1>2 DEF Parents

LEMMA MakesAddon ==
  ASSUME run = "apply", spec.cloud = "aws", NEW a \in AwsAddons, NEW n, NEW h, Fact("active") \in h
  PROVE  LET w == AddonParts(a) \ KeptBinding(a)
         IN  Fit(Make(w, n)) /\ Needs(Make(w, n)) \subseteq h /\ Gives(Make(w, n)) = w
<1> DEFINE w == AddonParts(a) \ KeptBinding(a)
<1>1. w \subseteq Wanted
  BY AwsWants
<1>2. \A x \in w : x[2] = a /\ x[1] \in {"addon", "config", "binding"} /\ Parents(x) = {}
  BY OwnAddonParts
<1>3. w \cap Named("pool", PoolNames) = {}
  BY <1>2 DEF Named
<1>4. \A b \in IdentityRoles : <<"binding", b>> \in w => <<"irsa", b>> \notin have
  <2> SUFFICES ASSUME NEW b \in IdentityRoles, <<"binding", b>> \in w
               PROVE  <<"irsa", b>> \notin have
    OBVIOUS
  <2>1. b = a
    BY <1>2
  <2> QED
    BY <2>1 DEF KeptBinding
<1> HIDE DEF w
<1>5. \A x \in w : Parents(x) \subseteq n
  BY <1>2
<1>6. Fit(Make(w, n)) /\ Needs(Make(w, n)) \subseteq h /\ Gives(Make(w, n)) = w
  BY <1>1, <1>3, <1>4, <1>5, Makes
<1> QED
  BY <1>6 DEF w

\* An add-on is made, with its role, unless EKS Auto Mode has it.
LEMMA EnsuresAddon ==
  ASSUME run = "apply", spec.cloud = "aws", NEW h, Fact("active") \in h,
         NEW a \in {"vpc-cni", "kube-proxy", "pod-identity-agent", "coredns", "ebs-csi",
                    "efs-csi", "cert-manager", "external-dns", "fluent-bit"}
  PROVE  /\ Fine(EnsureManagedAddon(a), h)
         /\ a \in AwsAddons =>
              /\ AddonParts(a) \ KeptBinding(a) \subseteq Given(EnsureManagedAddon(a))
              /\ a \in IdentityRoles => RoleParts(a) \subseteq Given(EnsureManagedAddon(a))
<1> DEFINE e == EnsureManagedAddon(a)
           role == EnsureRole(a) \o EnsureInlinePolicy(a)
           n == IF HasIdentity(a) THEN {Role(a)} ELSE {}
           w == AddonParts(a) \ KeptBinding(a)
           c == Make(w, n)
<1>1. CASE a \notin AwsAddons
  <2>1. e = <<>>
    BY <1>1 DEF EnsureManagedAddon, AwsAddons
  <2> QED
    BY <1>1, <2>1, Nothing
<1>2. CASE a \in AwsAddons /\ a \in IdentityRoles
  <2>1. e = role \o <<c>>
    BY <1>2 DEF EnsureManagedAddon, AwsAddons, HasIdentity
  <2>2. Fine(role, h) /\ Given(role) = RoleParts(a)
    <3>1. a \in AwsRoles /\ a # "node"
      BY <1>2 DEF AwsRoles, AwsAddons
    <3> QED
      BY <3>1, EnsuresRole
  <2>3. Fit(c) /\ Needs(c) \subseteq h /\ Gives(c) = w
    BY <1>2, MakesAddon
  <2> HIDE DEF c, role, w, e
  <2>4. Fine(<<c>>, h \cup Given(role)) /\ Given(<<c>>) = w
    BY <2>3, Single
  <2>5. Fine(e, h) /\ Given(e) = RoleParts(a) \cup w
    BY <2>1, <2>2, <2>4, Then
  <2> QED
    BY <2>5 DEF e, w
<1>3. CASE a \in AwsAddons /\ a \notin IdentityRoles
  <2>1. e = <<>> \o <<c>>
    BY <1>3 DEF EnsureManagedAddon, AwsAddons, HasIdentity
  <2>2. Fit(c) /\ Needs(c) \subseteq h /\ Gives(c) = w
    BY <1>3, MakesAddon
  <2> HIDE DEF c, w, e
  <2>3. Fine(<<c>>, h \cup {}) /\ Given(<<c>>) = w
    BY <2>2, Single
  <2>4. Fine(e, h) /\ Given(e) = w
    BY <2>1, <2>3, Nothing, Then
  <2> QED
    BY <1>3, <2>4 DEF e, w
<1> QED
  BY <1>1, <1>2, <1>3

LEMMA EnsuresNetworkAddons ==
  ASSUME run = "apply", spec.cloud = "aws", NEW h, Fact("active") \in h
  PROVE  /\ Fine(EnsureNetworkAddons, h)
         /\ \A a \in AwsAddons \cap {"vpc-cni", "kube-proxy"} :
              AddonParts(a) \ KeptBinding(a) \subseteq Given(EnsureNetworkAddons)
<1> DEFINE s == EnsureManagedAddon("vpc-cni")
           t == EnsureManagedAddon("kube-proxy")
<1>1. Fine(s, h) /\ ("vpc-cni" \in AwsAddons => AddonParts("vpc-cni") \ KeptBinding("vpc-cni") \subseteq Given(s))
  BY EnsuresAddon
<1>2. Fine(t, h) /\ ("kube-proxy" \in AwsAddons => AddonParts("kube-proxy") \ KeptBinding("kube-proxy") \subseteq Given(t))
  BY EnsuresAddon
<1>3. EnsureNetworkAddons = s \o t
  BY DEF EnsureNetworkAddons
<1> HIDE DEF s, t
<1>4. Fine(t, h \cup Given(s))
  BY <1>2, Finer
<1>5. Fine(s \o t, h) /\ Given(s \o t) = Given(s) \cup Given(t)
  BY <1>1, <1>4, Then
<1> QED
  BY <1>1, <1>2, <1>3, <1>5

WorkloadAddonNames == {"pod-identity-agent", "coredns", "ebs-csi", "efs-csi", "cert-manager",
                       "external-dns", "fluent-bit"}

LEMMA EnsuresWorkloadAddons ==
  ASSUME run = "apply", spec.cloud = "aws", NEW h, Fact("active") \in h
  PROVE  /\ Fine(EnsureWorkloadAddons, h)
         /\ \A a \in AwsAddons \cap WorkloadAddonNames :
              /\ AddonParts(a) \ KeptBinding(a) \subseteq Given(EnsureWorkloadAddons)
              /\ a \in IdentityRoles => RoleParts(a) \subseteq Given(EnsureWorkloadAddons)
<1> DEFINE e(a) == EnsureManagedAddon(a)
           s1 == e("pod-identity-agent") \o e("coredns")
           s2 == s1 \o e("ebs-csi")
           s3 == s2 \o e("efs-csi")
           s4 == s3 \o e("cert-manager")
           s5 == s4 \o e("external-dns")
           s6 == s5 \o e("fluent-bit")
<1>1. ASSUME NEW a \in WorkloadAddonNames
      PROVE  /\ \A g : Fine(e(a), h \cup g)
             /\ a \in AwsAddons =>
                 /\ AddonParts(a) \ KeptBinding(a) \subseteq Given(e(a))
                 /\ a \in IdentityRoles => RoleParts(a) \subseteq Given(e(a))
  BY EnsuresAddon DEF WorkloadAddonNames
<1>2. EnsureWorkloadAddons = s6
  BY DEF EnsureWorkloadAddons
<1>3. \A a \in WorkloadAddonNames : Fine(e(a), h) /\ \A g : Fine(e(a), h \cup g)
  BY <1>1, Finer, EnsuresAddon DEF WorkloadAddonNames
<1> HIDE DEF e
<1>4. Fine(s1, h) /\ Given(s1) = Given(e("pod-identity-agent")) \cup Given(e("coredns"))
  BY <1>3, Then DEF WorkloadAddonNames
<1> HIDE DEF s1
<1>5. Fine(s2, h) /\ Given(s2) = Given(s1) \cup Given(e("ebs-csi"))
  BY <1>3, <1>4, Then DEF WorkloadAddonNames
<1> HIDE DEF s2
<1>6. Fine(s3, h) /\ Given(s3) = Given(s2) \cup Given(e("efs-csi"))
  BY <1>3, <1>5, Then DEF WorkloadAddonNames
<1> HIDE DEF s3
<1>7. Fine(s4, h) /\ Given(s4) = Given(s3) \cup Given(e("cert-manager"))
  BY <1>3, <1>6, Then DEF WorkloadAddonNames
<1> HIDE DEF s4
<1>8. Fine(s5, h) /\ Given(s5) = Given(s4) \cup Given(e("external-dns"))
  BY <1>3, <1>7, Then DEF WorkloadAddonNames
<1> HIDE DEF s5
<1>9. Fine(s6, h) /\ Given(s6) = Given(s5) \cup Given(e("fluent-bit"))
  BY <1>3, <1>8, Then DEF WorkloadAddonNames
<1> HIDE DEF s6
<1>10. \A a \in WorkloadAddonNames : Given(e(a)) \subseteq Given(s6)
  BY <1>4, <1>5, <1>6, <1>7, <1>8, <1>9 DEF WorkloadAddonNames
<1> QED
  BY <1>1, <1>2, <1>9, <1>10

LEMMA EnsuresAutoscaler ==
  ASSUME run = "apply", spec.cloud = "aws", ~spec.auto, NEW h, Fact("active") \in h
  PROVE  /\ Fine(EnsureClusterAutoscalerIdentity, h)
         /\ RoleParts("cluster-autoscaler") \cup {<<"association", "cluster-autoscaler">>}
              \subseteq Given(EnsureClusterAutoscalerIdentity)
<1> DEFINE s == EnsureRole("cluster-autoscaler") \o EnsureInlinePolicy("cluster-autoscaler")
           w == {<<"association", "cluster-autoscaler">>}
           n == {Role("cluster-autoscaler")}
           c == Make(w, n)
<1>1. Fine(s, h) /\ Given(s) = RoleParts("cluster-autoscaler")
  <2>1. "cluster-autoscaler" \in AwsRoles
    BY DEF AwsRoles
  <2> QED
    BY <2>1, EnsuresRole
<1>2. Fit(c) /\ Needs(c) \subseteq h /\ Gives(c) = w
  <2>1. w \subseteq Wanted
    BY AwsWants
  <2>2. \A x \in w : x[1] = "association" /\ Parents(x) = {}
    BY DEF Parents
  <2>3. w \cap Named("pool", PoolNames) = {} /\ \A a \in IdentityRoles : <<"binding", a>> \notin w
    BY <2>2 DEF Named
  <2> HIDE DEF w, n
  <2>4. \A x \in w : Parents(x) \subseteq n
    BY <2>2
  <2> QED
    BY <2>1, <2>3, <2>4, Makes
<1>3. EnsureClusterAutoscalerIdentity = s \o <<c>>
  BY DEF EnsureClusterAutoscalerIdentity
<1> HIDE DEF s, c
<1>4. Fine(<<c>>, h \cup Given(s)) /\ Given(<<c>>) = w
  BY <1>2, Single
<1>5. Fine(s \o <<c>>, h) /\ Given(s \o <<c>>) = RoleParts("cluster-autoscaler") \cup w
  BY <1>1, <1>4, Then
<1> QED
  BY <1>3, <1>5

\* Node pools: what is made and resized, in whatever cloud.
LEMMA MakesPool ==
  ASSUME run = "apply", NEW p \in PoolNames, NodePool(p) \subseteq Wanted, NEW n, NEW h,
         Fact("active") \in h,
         spec.cloud = "aws" => NodeRole \cup {<<"config", "vpc-cni">>} \subseteq h
  PROVE  LET c == Make(NodePool(p), n)
         IN  Fit(c) /\ Needs(c) \subseteq h /\ Gives(c) = NodePool(p)
<1> DEFINE w == NodePool(p)
<1>1. \A x \in w : x[1] \in {"pool", "bounds"} /\ Parents(x) = {}
  BY DEF NodePool, Parents
<1>2. \A a \in IdentityRoles : <<"binding", a>> \notin w
  BY <1>1
<1> HIDE DEF w
<1>3. \A x \in w : Parents(x) \subseteq n
  BY <1>1
<1>4. w \subseteq Wanted
  BY DEF w
<1>5. Fit(Make(w, n)) /\ Needs(Make(w, n)) \subseteq h /\ Gives(Make(w, n)) = w
  BY <1>2, <1>3, <1>4, Makes
<1> QED
  BY <1>5 DEF w

LEMMA PoolCount == Len(Pools) \in Nat /\ DOMAIN Pools = 1..Len(Pools) /\ Pools \in Seq(STRING)
                   /\ PoolNames = {Pools[i] : i \in 1..Len(Pools)}
BY CallsAssumption DEF PoolNames

LEMMA EnsuresPools ==
  ASSUME run = "apply", \A p \in PoolNames : NodePool(p) \subseteq Wanted,
         NEW make, NEW n, \A p \in PoolNames : make[p] = Make(NodePool(p), n),
         NEW h, Fact("active") \in h,
         spec.cloud = "aws" => NodeRole \cup {<<"config", "vpc-cni">>} \subseteq h
  PROVE  Fine(EnsureNodePools(make), h) /\ PoolParts \subseteq Given(EnsureNodePools(make))
<1> DEFINE f == EnsureNodePools(make)
<1>1. f = [i \in 1..Len(Pools) |-> IF Pools[i] \in NodePools THEN Make(NodePool(Pools[i]), {}) ELSE make[Pools[i]]]
  BY PoolCount DEF EnsureNodePools, ForEach
<1>2. f = [i \in 1..Len(Pools) |-> f[i]]
  BY <1>1
<1>3. ASSUME NEW i \in 1..Len(Pools)
      PROVE  Fit(f[i]) /\ Needs(f[i]) \subseteq h /\ Gives(f[i]) = NodePool(Pools[i])
  <2>1. Pools[i] \in PoolNames
    BY PoolCount
  <2>2. f[i] = Make(NodePool(Pools[i]), {}) \/ f[i] = Make(NodePool(Pools[i]), n)
    BY <1>1, <2>1
  <2> HIDE DEF f
  <2>3. CASE f[i] = Make(NodePool(Pools[i]), {})
    BY <2>1, <2>3, MakesPool
  <2>4. CASE f[i] = Make(NodePool(Pools[i]), n)
    BY <2>1, <2>4, MakesPool
  <2> QED
    BY <2>2, <2>3, <2>4
<1> HIDE DEF f
<1>4. Fine(f, h) /\ Given(f) = UNION {Gives(f[i]) : i \in 1..Len(Pools)}
  BY <1>2, <1>3, PoolCount, Each
<1>5. ASSUME NEW i \in 1..Len(Pools) PROVE NodePool(Pools[i]) \subseteq Given(f)
  BY <1>3, <1>4
<1>6. \A p \in PoolNames : NodePool(p) \subseteq Given(f)
  BY <1>5, PoolCount
<1>7. PoolParts \subseteq Given(f)
  BY <1>6 DEF PoolParts, Named, NodePool
<1> QED
  BY <1>4, <1>7 DEF f

LEMMA EnsuresNodeGroups ==
  ASSUME run = "apply", spec.cloud = "aws", ~spec.auto, NEW h,
         {Fact("active"), <<"config", "vpc-cni">>} \subseteq h
  PROVE  Fine(EnsureNodeGroups, h) /\ PoolParts \cup NodeRole \subseteq Given(EnsureNodeGroups)
<1> DEFINE s == EnsureRole("node")
           make == [p \in PoolNames |-> CreateNodeGroup(p)]
           n == {Role("node")} \cup SubnetsOf(spec)
           t == EnsureNodePools(make)
<1>1. Fine(s, h) /\ Given(s) = NodeRole
  <2>1. "node" \in AwsRoles /\ "node" \in RoleNames
    BY DEF AwsRoles, RoleNames
  <2>2. Fine(s, h) /\ Given(s) = {Role("node")} \cup {Policy("node", PoliciesOf("node")[i]) : i \in DOMAIN PoliciesOf("node")}
    BY <2>1, EnsuresRole
  <2>3. InlinePolicy("node") = {}
    BY DEF InlinePolicy
  <2>4. NodeRole = {Role("node")} \cup {Policy("node", PoliciesOf("node")[i]) : i \in DOMAIN PoliciesOf("node")}
    BY <2>3 DEF NodeRole, RoleParts, PartsOf, Policy
  <2> QED
    BY <2>2, <2>4
<1>2. \A p \in PoolNames : make[p] = Make(NodePool(p), n)
  BY DEF CreateNodeGroup
<1>3. \A p \in PoolNames : NodePool(p) \subseteq Wanted
  BY AwsWants DEF PoolParts, Named, NodePool
<1>4. EnsureNodeGroups = s \o t
  BY DEF EnsureNodeGroups
<1> HIDE DEF make, n, s
<1>5. Fine(t, h \cup Given(s)) /\ PoolParts \subseteq Given(t)
  BY <1>1, <1>2, <1>3, EnsuresPools, SMTT(30)
<1> HIDE DEF t
<1>6. Fine(s \o t, h) /\ Given(s \o t) = NodeRole \cup Given(t)
  BY <1>1, <1>5, Then
<1> QED
  BY <1>4, <1>5, <1>6

\* The add-ons and the node groups: all of what is wanted but for what lasts.
AwsConverged ==
  (UNION {AddonParts(a) \ KeptBinding(a) : a \in AwsAddons})
  \cup (UNION {RoleParts(r) : r \in AwsRoles \ {"cluster", "autoNode"}})
  \cup (IF spec.auto THEN {} ELSE PoolParts \cup {<<"association", "cluster-autoscaler">>})

LEMMA EnsuresComputeAndAddons ==
  ASSUME run = "apply", spec.cloud = "aws", NEW h, Fact("active") \in h
  PROVE  Fine(EnsureComputeAndAddons, h) /\ AwsConverged \subseteq Given(EnsureComputeAndAddons)
<1> DEFINE s == EnsureNetworkAddons
           t == IF spec.auto THEN <<>> ELSE EnsureNodeGroups
           u == EnsureWorkloadAddons
           v == IF spec.auto THEN <<>> ELSE EnsureClusterAutoscalerIdentity
<1>1. Fine(s, h) /\ \A a \in AwsAddons \cap {"vpc-cni", "kube-proxy"} : AddonParts(a) \ KeptBinding(a) \subseteq Given(s)
  BY EnsuresNetworkAddons
<1>2. ~spec.auto => <<"config", "vpc-cni">> \in Given(s)
  <2>1. ~spec.auto => "vpc-cni" \in AwsAddons
    BY DEF AwsAddons
  <2>2. <<"config", "vpc-cni">> \in AddonParts("vpc-cni")
    BY DEF AddonParts, Configured
  <2>3. <<"config", "vpc-cni">> \notin KeptBinding("vpc-cni")
    BY DEF KeptBinding
  <2> QED
    BY <1>1, <2>1, <2>2, <2>3
<1>3. Fine(t, h \cup Given(s)) /\ (~spec.auto => PoolParts \cup NodeRole \subseteq Given(t))
  <2>1. CASE spec.auto
    BY <2>1, Nothing
  <2>2. CASE ~spec.auto
    BY <1>2, <2>2, EnsuresNodeGroups
  <2> QED
    BY <2>1, <2>2
<1>4. /\ \A g : Fine(u, h \cup g)
      /\ \A a \in AwsAddons \cap WorkloadAddonNames :
           /\ AddonParts(a) \ KeptBinding(a) \subseteq Given(u)
           /\ a \in IdentityRoles => RoleParts(a) \subseteq Given(u)
  BY EnsuresWorkloadAddons
<1>5. /\ \A g : Fine(v, h \cup g)
      /\ ~spec.auto => RoleParts("cluster-autoscaler") \cup {<<"association", "cluster-autoscaler">>} \subseteq Given(v)
  <2>1. CASE spec.auto
    BY <2>1, Nothing
  <2>2. CASE ~spec.auto
    BY <2>2, EnsuresAutoscaler
  <2> QED
    BY <2>1, <2>2
<1>6. EnsureComputeAndAddons = ((s \o t) \o u) \o v
  BY DEF EnsureComputeAndAddons
<1> HIDE DEF s, t, u, v
<1>7. Fine(s \o t, h) /\ Given(s \o t) = Given(s) \cup Given(t)
  BY <1>1, <1>3, Then
<1>8. Fine((s \o t) \o u, h) /\ Given((s \o t) \o u) = Given(s) \cup Given(t) \cup Given(u)
  BY <1>4, <1>7, Then, ZenonT(40)
<1>9. /\ Fine(((s \o t) \o u) \o v, h)
      /\ Given(((s \o t) \o u) \o v) = Given(s) \cup Given(t) \cup Given(u) \cup Given(v)
  <2> DEFINE x == (s \o t) \o u
  <2>1. Fine(x, h) /\ Given(x) = Given(s) \cup Given(t) \cup Given(u) /\ Fine(v, h \cup Given(x))
    BY <1>5, <1>8
  <2> HIDE DEF x
  <2>2. Fine(x \o v, h) /\ Given(x \o v) = Given(x) \cup Given(v)
    BY <2>1, Then
  <2> QED
    BY <2>1, <2>2 DEF x
<1> DEFINE g == Given(s) \cup Given(t) \cup Given(u) \cup Given(v)
<1>10. \A a \in AwsAddons : AddonParts(a) \ KeptBinding(a) \subseteq g
  BY <1>1, <1>4 DEF AwsAddons, WorkloadAddonNames
<1>11. \A r \in AwsRoles \ {"cluster", "autoNode"} : RoleParts(r) \subseteq g
  <2>1. \A r \in IdentityRoles : r \in AwsRoles => r \in AwsAddons \cap WorkloadAddonNames
    BY DEF IdentityRoles, AwsRoles, AwsAddons, WorkloadAddonNames
  <2>2. \A r \in IdentityRoles : r \in AwsRoles => RoleParts(r) \subseteq Given(u)
    BY <1>4, <2>1
  <2>3. ~spec.auto => RoleParts("cluster-autoscaler") \subseteq g /\ RoleParts("node") \subseteq g
    BY <1>3, <1>5 DEF NodeRole
  <2>4. \A r \in AwsRoles \ {"cluster", "autoNode"} :
          r \in IdentityRoles \/ (~spec.auto /\ r \in {"node", "cluster-autoscaler"})
    BY DEF AwsRoles
  <2> QED
    BY <2>2, <2>3, <2>4
<1>12. ~spec.auto => PoolParts \cup {<<"association", "cluster-autoscaler">>} \subseteq g
  BY <1>3, <1>5
<1> HIDE DEF g
<1>13. AwsConverged \subseteq g
  BY <1>10, <1>11, <1>12 DEF AwsConverged
<1> QED
  BY <1>6, <1>9, <1>13 DEF g

LEMMA TwoCalls ==
  ASSUME NEW a, NEW b
  PROVE  <<a, b>> = <<a>> \o <<b>>
<1> DEFINE s == <<a>>
           t == <<b>>
           u == s \o t
<1>1. s \in Seq({a, b}) /\ t \in Seq({a, b}) /\ Len(s) = 1 /\ Len(t) = 1 /\ s[1] = a /\ t[1] = b
  OBVIOUS
<1> HIDE DEF s, t
<1>2. u \in Seq({a, b}) /\ Len(u) = 2 /\ u[1] = a /\ u[2] = b
  <2>1. /\ u \in Seq({a, b}) /\ Len(u) = Len(s) + Len(t)
        /\ \A i \in 1..(Len(s) + Len(t)) : u[i] = IF i <= Len(s) THEN s[i] ELSE t[i - Len(s)]
    BY <1>1, ConcatProperties, SMTT(30)
  <2> QED
    BY <1>1, <2>1
<1> HIDE DEF u
<1>3. u = <<a, b>>
  BY <1>2
<1> QED
  BY <1>3 DEF u, s, t

LEMMA Pair ==
  ASSUME NEW a, NEW b, NEW h, Fit(a), Fit(b), Needs(a) \cup Needs(b) \subseteq h
  PROVE  /\ Fine(<<a, b>>, h) /\ Given(<<a, b>>) = Gives(a) \cup Gives(b)
         /\ Cleared(<<a, b>>) = Clears(a) \cup Clears(b)
<1> DEFINE s == <<a>>
           t == <<b>>
<1>1. <<a, b>> = s \o t
  BY TwoCalls
<1>2. Fine(s, h) /\ Given(s) = Gives(a) /\ Cleared(s) = Clears(a)
  BY Single
<1>3. Fine(t, h \cup Given(s)) /\ Given(t) = Gives(b) /\ Cleared(t) = Clears(b)
  BY Single
<1> HIDE DEF s, t
<1>4. /\ Fine(s \o t, h) /\ Given(s \o t) = Given(s) \cup Given(t)
      /\ Cleared(s \o t) = Cleared(s) \cup Cleared(t)
  BY <1>2, <1>3, Then
<1> DEFINE u == <<a, b>>
<1>5. u = s \o t
  BY <1>1
<1> HIDE DEF u
<1>6. Fine(u, h) /\ Given(u) = Gives(a) \cup Gives(b) /\ Cleared(u) = Clears(a) \cup Clears(b)
  BY <1>2, <1>3, <1>4, <1>5
<1> QED
  BY <1>6 DEF u

LEMMA Triple ==
  ASSUME NEW a, NEW b, NEW c, NEW h, Fit(a), Fit(b), Fit(c), Needs(a) \cup Needs(b) \cup Needs(c) \subseteq h
  PROVE  /\ Fine(<<a, b, c>>, h) /\ Given(<<a, b, c>>) = Gives(a) \cup Gives(b) \cup Gives(c)
         /\ Cleared(<<a, b, c>>) = Clears(a) \cup Clears(b) \cup Clears(c)
<1> DEFINE s == <<a, b>>
           t == <<c>>
           u == s \o t
           v == <<a, b, c>>
<1>1. s \in Seq({a, b, c}) /\ t \in Seq({a, b, c}) /\ Len(s) = 2 /\ Len(t) = 1
      /\ s[1] = a /\ s[2] = b /\ t[1] = c
  OBVIOUS
<1>2. Fine(s, h) /\ Given(s) = Gives(a) \cup Gives(b) /\ Cleared(s) = Clears(a) \cup Clears(b)
  BY Pair
<1>3. Fine(t, h \cup Given(s)) /\ Given(t) = Gives(c) /\ Cleared(t) = Clears(c)
  BY Single
<1> HIDE DEF s, t
<1>4. u \in Seq({a, b, c}) /\ Len(u) = 3 /\ u[1] = a /\ u[2] = b /\ u[3] = c
  <2>1. /\ u \in Seq({a, b, c}) /\ Len(u) = Len(s) + Len(t)
        /\ \A i \in 1..(Len(s) + Len(t)) : u[i] = IF i <= Len(s) THEN s[i] ELSE t[i - Len(s)]
    BY <1>1, ConcatProperties
  <2> QED
    BY <1>1, <2>1
<1>5. Fine(u, h) /\ Given(u) = Given(s) \cup Given(t) /\ Cleared(u) = Cleared(s) \cup Cleared(t)
  BY <1>2, <1>3, Then
<1> HIDE DEF u
<1>6. u = v
  BY <1>4
<1> HIDE DEF v
<1>7. Fine(v, h) /\ Given(v) = Gives(a) \cup Gives(b) \cup Gives(c)
      /\ Cleared(v) = Clears(a) \cup Clears(b) \cup Clears(c)
  BY <1>2, <1>3, <1>5, <1>6
<1> QED
  BY <1>7 DEF v

NetworkKinds == {"vpc", "dnsSupport", "dnsHostnames", "gateway", "attached", "routeTable",
                 "defaultRoute", "subnet", "publicIP", "routed", "network", "subnetwork",
                 "router", "group", "vnet"}

LEMMA NetworkParts ==
  ASSUME TypeOK
  PROVE  Network \subseteq Wanted /\ \A x \in Network : x[1] \in NetworkKinds
<1>1. CASE spec.cloud = "aws"
  <2>1. Network \subseteq Wanted
    BY <1>1, AwsWants
  <2>2. \A az : Subnet(az)[1] = "subnet" /\ Public(az)[1] = "publicIP" /\ Routed(az)[1] = "routed"
    BY DEF Subnet, Public, Routed
  <2>3. ASSUME NEW x \in Network PROVE x[1] \in NetworkKinds
    <3>1. \/ x \in {<<"vpc">>, <<"dnsSupport">>, <<"dnsHostnames">>, <<"gateway">>,
                    <<"attached">>, <<"routeTable">>, <<"defaultRoute">>}
          \/ \E az \in {"a", "b"} : x \in {Subnet(az), Public(az), Routed(az)}
      BY <1>1 DEF Network
    <3>2. CASE x \in {<<"vpc">>, <<"dnsSupport">>, <<"dnsHostnames">>, <<"gateway">>,
                      <<"attached">>, <<"routeTable">>, <<"defaultRoute">>}
      BY <3>2 DEF NetworkKinds
    <3>3. CASE \E az \in {"a", "b"} : x \in {Subnet(az), Public(az), Routed(az)}
      BY <2>2, <3>3 DEF NetworkKinds
    <3> QED
      BY <3>1, <3>2, <3>3
  <2> QED
    BY <2>1, <2>3
<1>2. CASE spec.cloud = "gcp"
  BY <1>2 DEF Network, Wanted, GcpWanted, NetworkKinds
<1>3. CASE spec.cloud = "azure"
  BY <1>3 DEF Network, Wanted, AzureWanted, NetworkKinds
<1> QED
  BY <1>1, <1>2, <1>3 DEF TypeOK, Specs, Clouds

LEMMA MakesNetwork ==
  ASSUME run = "apply", TypeOK, NEW w, w \subseteq Network, NEW n, \A x \in w : Parents(x) \subseteq n, NEW h
  PROVE  /\ Fit(Make(w, n)) /\ Needs(Make(w, n)) \subseteq h /\ Gives(Make(w, n)) = w
         /\ Fine(<<Make(w, n)>>, h) /\ Given(<<Make(w, n)>>) = w
<1>1. w \subseteq Wanted /\ \A x \in w : x[1] \in NetworkKinds
  BY NetworkParts
<1>2. \A x \in w : ~Inside(x)
  BY <1>1 DEF Inside, NetworkKinds
<1>3. \A x \in w : x \notin NodeRole
  BY <1>1, OwnParts DEF NodeRole, NetworkKinds
<1>4. \A a \in IdentityRoles : <<"binding", a>> \notin w
  BY <1>1 DEF NetworkKinds
<1>5. w \cap Named("pool", PoolNames) = {}
  BY <1>1 DEF Named, NetworkKinds
<1>6. Fit(Make(w, n)) /\ Needs(Make(w, n)) \subseteq h /\ Gives(Make(w, n)) = w
  BY <1>1, <1>2, <1>3, <1>4, <1>5, Makes
<1> QED
  BY <1>6, Single

LEMMA AwsNetworkParents ==
  ASSUME spec.cloud = "aws"
  PROVE  /\ Parents(<<"vpc">>) = {} /\ Parents(<<"gateway">>) = {}
         /\ \A k \in {"dnsSupport", "dnsHostnames", "attached", "routeTable", "securityGroup"} :
              Parents(<<k>>) = {<<"vpc">>}
         /\ Parents(<<"defaultRoute">>) = {<<"routeTable">>}
         /\ \A az : /\ Parents(Subnet(az)) = {<<"vpc">>} /\ Parents(Public(az)) = {Subnet(az)}
                    /\ Parents(Routed(az)) = {Subnet(az), <<"routeTable">>}
BY DEF Parents, Subnet, Public, Routed

\* In whatever state a stopped run left the network, it is made as a whole.
LEMMA EnsuresAwsNetwork ==
  ASSUME run = "apply", TypeOK, spec.cloud = "aws", NEW h
  PROVE  Fine(AwsEnsureNetwork, h) /\ Network \subseteq Given(AwsEnsureNetwork)
<1>1. CASE spec.supplied
  BY <1>1, Nothing DEF AwsEnsureNetwork, Network
<1>2. CASE ~spec.supplied
  <2>1. Network = {<<"vpc">>, <<"dnsSupport">>, <<"dnsHostnames">>, <<"gateway">>,
                   <<"attached">>, <<"routeTable">>, <<"defaultRoute">>}
                  \cup {Subnet("a"), Public("a"), Routed("a"), Subnet("b"), Public("b"), Routed("b")}
    BY <1>2 DEF Network
  <2> DEFINE vpc == <<Make({<<"vpc">>}, {})>>
             dns == EnsureVPCDNS
             sub(az) == EnsureSubnet(az)
             gw == EnsureInternetGateway
             rt == <<Make({<<"routeTable">>}, {<<"vpc">>}),
                     Make({<<"defaultRoute">>}, {<<"routeTable">>, <<"attached">>})>>
             as == <<Make({Routed("a")}, {<<"routeTable">>, Subnet("a")}),
                     Make({Routed("b")}, {<<"routeTable">>, Subnet("b")})>>
  <2>2. \A g : Fine(vpc, g) /\ Given(vpc) = {<<"vpc">>}
    <3>1. {<<"vpc">>} \subseteq Network /\ \A x \in {<<"vpc">>} : Parents(x) \subseteq {}
      BY <2>1, AwsNetworkParents
    <3> QED
      BY <3>1, MakesNetwork
  <2>3. \A g : Fine(dns, g) /\ Given(dns) = {<<"dnsSupport">>, <<"dnsHostnames">>}
    <3> DEFINE a == Make({<<"dnsSupport">>}, {<<"vpc">>})
               b == Make({<<"dnsHostnames">>}, {<<"vpc">>})
    <3>1. {<<"dnsSupport">>} \subseteq Network /\ \A x \in {<<"dnsSupport">>} : Parents(x) \subseteq {<<"vpc">>}
      BY <2>1, AwsNetworkParents
    <3>2. \A g : Fit(a) /\ Needs(a) \subseteq g /\ Gives(a) = {<<"dnsSupport">>}
      BY <3>1, MakesNetwork
    <3>3. {<<"dnsHostnames">>} \subseteq Network /\ \A x \in {<<"dnsHostnames">>} : Parents(x) \subseteq {<<"vpc">>}
      BY <2>1, AwsNetworkParents
    <3>4. \A g : Fit(b) /\ Needs(b) \subseteq g /\ Gives(b) = {<<"dnsHostnames">>}
      BY <3>3, MakesNetwork
    <3>5. dns = <<a, b>>
      BY DEF EnsureVPCDNS
    <3> HIDE DEF a, b, dns
    <3> QED
      BY <3>2, <3>4, <3>5, Pair
  <2>4. ASSUME NEW az \in {"a", "b"}
        PROVE  \A g : Fine(sub(az), g) /\ Given(sub(az)) = {Subnet(az), Public(az)}
    <3> DEFINE a == Make({Subnet(az)}, {<<"vpc">>})
               b == Make({Public(az)}, {Subnet(az)})
    <3>1. {Subnet(az)} \subseteq Network /\ \A x \in {Subnet(az)} : Parents(x) \subseteq {<<"vpc">>}
      BY <2>1, AwsNetworkParents
    <3>2. \A g : Fit(a) /\ Needs(a) \subseteq g /\ Gives(a) = {Subnet(az)}
      BY <3>1, MakesNetwork
    <3>3. {Public(az)} \subseteq Network /\ \A x \in {Public(az)} : Parents(x) \subseteq {Subnet(az)}
      BY <2>1, AwsNetworkParents
    <3>4. \A g : Fit(b) /\ Needs(b) \subseteq g /\ Gives(b) = {Public(az)}
      BY <3>3, MakesNetwork
    <3>5. sub(az) = <<a, b>>
      BY DEF EnsureSubnet
    <3> HIDE DEF a, b, sub
    <3> QED
      BY <3>2, <3>4, <3>5, Pair
  <2>5. \A g : Fine(gw, g) /\ Given(gw) = {<<"gateway">>, <<"attached">>}
    <3> DEFINE a == Make({<<"gateway">>}, {})
               b == Make({<<"attached">>}, {<<"gateway">>, <<"vpc">>})
    <3>1. {<<"gateway">>} \subseteq Network /\ \A x \in {<<"gateway">>} : Parents(x) \subseteq {}
      BY <2>1, AwsNetworkParents
    <3>2. \A g : Fit(a) /\ Needs(a) \subseteq g /\ Gives(a) = {<<"gateway">>}
      BY <3>1, MakesNetwork
    <3>3. {<<"attached">>} \subseteq Network /\ \A x \in {<<"attached">>} : Parents(x) \subseteq {<<"gateway">>, <<"vpc">>}
      BY <2>1, AwsNetworkParents
    <3>4. \A g : Fit(b) /\ Needs(b) \subseteq g /\ Gives(b) = {<<"attached">>}
      BY <3>3, MakesNetwork
    <3>5. gw = <<a, b>>
      BY DEF EnsureInternetGateway
    <3> HIDE DEF a, b, gw
    <3> QED
      BY <3>2, <3>4, <3>5, Pair
  <2>6. \A g : Fine(rt, g) /\ Given(rt) = {<<"routeTable">>, <<"defaultRoute">>}
    <3> DEFINE a == Make({<<"routeTable">>}, {<<"vpc">>})
               b == Make({<<"defaultRoute">>}, {<<"routeTable">>, <<"attached">>})
    <3>1. {<<"routeTable">>} \subseteq Network /\ \A x \in {<<"routeTable">>} : Parents(x) \subseteq {<<"vpc">>}
      BY <2>1, AwsNetworkParents
    <3>2. \A g : Fit(a) /\ Needs(a) \subseteq g /\ Gives(a) = {<<"routeTable">>}
      BY <3>1, MakesNetwork
    <3>3. {<<"defaultRoute">>} \subseteq Network
          /\ \A x \in {<<"defaultRoute">>} : Parents(x) \subseteq {<<"routeTable">>, <<"attached">>}
      BY <2>1, AwsNetworkParents
    <3>4. \A g : Fit(b) /\ Needs(b) \subseteq g /\ Gives(b) = {<<"defaultRoute">>}
      BY <3>3, MakesNetwork
    <3>5. rt = <<a, b>>
      OBVIOUS
    <3> HIDE DEF a, b, rt
    <3> QED
      BY <3>2, <3>4, <3>5, Pair
  <2>7. \A g : Fine(as, g) /\ Given(as) = {Routed("a"), Routed("b")}
    <3> DEFINE a(az) == Make({Routed(az)}, {<<"routeTable">>, Subnet(az)})
    <3>1. ASSUME NEW az \in {"a", "b"}
          PROVE  {Routed(az)} \subseteq Network
                 /\ \A x \in {Routed(az)} : Parents(x) \subseteq {<<"routeTable">>, Subnet(az)}
      BY <2>1, AwsNetworkParents
    <3>2. ASSUME NEW az \in {"a", "b"}
          PROVE  \A g : Fit(a(az)) /\ Needs(a(az)) \subseteq g /\ Gives(a(az)) = {Routed(az)}
      BY <3>1, MakesNetwork
    <3>3. as = <<a("a"), a("b")>>
      OBVIOUS
    <3> HIDE DEF a, as
    <3> QED
      BY <3>2, <3>3, Pair
  <2>8. EnsureVPC = vpc \o dns /\ EnsureRouteTable = rt \o as
    <3>1. EnsureVPC = vpc \o dns
      BY DEF EnsureVPC
    <3> DEFINE op(az) == Make({Routed(az)}, {<<"routeTable">>, Subnet(az)})
               f == [i \in DOMAIN Zones |-> op(Zones[i])]
    <3>2. EnsureRouteTable = rt \o f
      BY DEF EnsureRouteTable, ForEach
    <3>3. DOMAIN Zones = 1..2 /\ Zones[1] = "a" /\ Zones[2] = "b"
      BY DEF Zones
    <3>4. as = <<op("a"), op("b")>>
      OBVIOUS
    <3> HIDE DEF op
    <3>5. f = <<op("a"), op("b")>>
      BY <3>3
    <3> QED
      BY <3>1, <3>2, <3>4, <3>5
  <2>9. AwsEnsureNetwork = (((((vpc \o dns) \o sub("a")) \o sub("b")) \o gw) \o (rt \o as))
    <3>1. Zones[1] = "a" /\ Zones[2] = "b"
      BY DEF Zones
    <3> QED
      BY <1>2, <2>8, <3>1 DEF AwsEnsureNetwork
  <2> HIDE DEF vpc, dns, sub, gw, rt, as
  <2> DEFINE s1 == vpc \o dns
             s2 == s1 \o sub("a")
             s3 == s2 \o sub("b")
             s4 == s3 \o gw
             s5 == rt \o as
  <2>10. Fine(s1, h) /\ Given(s1) = Given(vpc) \cup Given(dns)
    BY <2>2, <2>3, Then
  <2> HIDE DEF s1
  <2>11. Fine(s2, h) /\ Given(s2) = Given(s1) \cup Given(sub("a"))
    BY <2>4, <2>10, Then
  <2> HIDE DEF s2
  <2>12. Fine(s3, h) /\ Given(s3) = Given(s2) \cup Given(sub("b"))
    BY <2>4, <2>11, Then
  <2> HIDE DEF s3
  <2>13. Fine(s4, h) /\ Given(s4) = Given(s3) \cup Given(gw)
    BY <2>5, <2>12, Then
  <2> HIDE DEF s4
  <2>14. Fine(s5, h \cup Given(s4)) /\ Given(s5) = Given(rt) \cup Given(as)
    BY <2>6, <2>7, Then
  <2> HIDE DEF s5
  <2>15. Fine(s4 \o s5, h) /\ Given(s4 \o s5) = Given(s4) \cup Given(s5)
    BY <2>13, <2>14, Then
  <2>16. AwsEnsureNetwork = s4 \o s5
    BY <2>9 DEF s1, s2, s3, s4, s5
  <2>17. Network \subseteq Given(s4) \cup Given(s5)
    <3>1. /\ Given(vpc) = {<<"vpc">>} /\ Given(dns) = {<<"dnsSupport">>, <<"dnsHostnames">>}
          /\ Given(sub("a")) = {Subnet("a"), Public("a")} /\ Given(sub("b")) = {Subnet("b"), Public("b")}
          /\ Given(gw) = {<<"gateway">>, <<"attached">>}
          /\ Given(rt) = {<<"routeTable">>, <<"defaultRoute">>} /\ Given(as) = {Routed("a"), Routed("b")}
      BY <2>2, <2>3, <2>4, <2>5, <2>6, <2>7
    <3> QED
      BY <2>1, <2>10, <2>11, <2>12, <2>13, <2>14, <3>1
  <2> QED
    BY <2>15, <2>16, <2>17
<1> QED
  BY <1>1, <1>2

LEMMA CloudIs ==
  ASSUME TypeOK
  PROVE  /\ spec.cloud \in {"aws", "gcp", "azure"} /\ spec.supplied \in BOOLEAN
         /\ spec.auto \in BOOLEAN /\ spec.public \in BOOLEAN
         /\ spec.auto => spec.cloud # "azure"
BY DEF TypeOK, Specs, Clouds

LEMMA AccessWanted ==
  ASSUME TypeOK
  PROVE  <<"access">> \in Wanted
<1>1. CASE spec.cloud = "aws"
  BY <1>1, AwsWants
<1>2. CASE spec.cloud = "gcp"
  BY <1>2 DEF Wanted, GcpWanted
<1>3. CASE spec.cloud = "azure"
  BY <1>3 DEF Wanted, AzureWanted
<1> QED
  BY <1>1, <1>2, <1>3, CloudIs

LEMMA PoolsWanted ==
  ASSUME TypeOK, ~spec.auto
  PROVE  PoolParts \subseteq Wanted
<1>1. CASE spec.cloud = "aws"
  BY <1>1, AwsWants
<1>2. CASE spec.cloud = "gcp"
  BY <1>2 DEF Wanted, GcpWanted, PoolParts
<1>3. CASE spec.cloud = "azure"
  BY <1>3 DEF Wanted, AzureWanted, PoolParts
<1> QED
  BY <1>1, <1>2, <1>3, CloudIs

LEMMA Reconciles ==
  ASSUME run = "apply", TypeOK, NEW h, Fact("active") \in h
  PROVE  Fine(ReconcileAccess, h) /\ Given(ReconcileAccess) = {<<"access">>}
<1> DEFINE w == {<<"access">>}
           n == {}
<1>1. \A x \in w : x[1] = "access" /\ Parents(x) = {}
  BY DEF Parents
<1>2. w \cap Named("pool", PoolNames) = {} /\ \A a \in IdentityRoles : <<"binding", a>> \notin w
  BY <1>1 DEF Named
<1>3. w \subseteq Wanted
  BY AccessWanted
<1>4. ReconcileAccess = <<Make(w, n)>>
  BY DEF ReconcileAccess
<1> HIDE DEF w, n
<1>5. Fit(Make(w, n)) /\ Needs(Make(w, n)) \subseteq h /\ Gives(Make(w, n)) = w
  BY <1>1, <1>2, <1>3, Makes
<1>6. Fine(<<Make(w, n)>>, h) /\ Given(<<Make(w, n)>>) = w
  BY <1>5, Single
<1> QED
  BY <1>4, <1>6 DEF w

LEMMA CreatesCluster ==
  ASSUME run = "apply", NEW w, NEW n, NEW h,
         w \subseteq {r \in Wanted : Inside(r)} \cup {<<"residue">>}
                     \cup (IF spec.cloud = "aws" THEN {<<"profile", "autoNode">>} ELSE {}),
         spec.cloud = "aws" => w \cap Named("pool", PoolNames) = {},
         \A a \in IdentityRoles : <<"binding", a>> \notin w,
         Ground \subseteq n, AutoRole \subseteq h
  PROVE  LET s == <<Call("createCluster", "", w, n)>> IN Fine(s, h) /\ Given(s) = {}
<1> DEFINE c == Call("createCluster", "", w, n)
<1>1. c.op = "createCluster" /\ c.what = w /\ c.on = n
  BY DEF Call
<1> HIDE DEF c
<1>2. Fit(c)
  BY <1>1 DEF Fit, ApplyFit
<1>3. Needs(c) \subseteq h /\ Gives(c) = {}
  BY <1>1 DEF Needs, Gives
<1>4. Fine(<<c>>, h) /\ Given(<<c>>) = {}
  BY <1>2, <1>3, Single
<1> QED
  BY <1>4 DEF c

LEMMA AutoRoleIs ==
  ASSUME spec.cloud = "aws"
  PROVE  /\ ~spec.auto => AutoRole = {}
         /\ spec.auto => AutoRole = RoleParts("autoNode")
              /\ AutoRole = {Role("autoNode")}
                   \cup {Policy("autoNode", PoliciesOf("autoNode")[i]) : i \in DOMAIN PoliciesOf("autoNode")}
<1>1. InlinePolicy("autoNode") = {}
  BY DEF InlinePolicy
<1> QED
  BY <1>1 DEF AutoRole, RoleParts, PartsOf, Policy

LEMMA ClusterRoleIs ==
  ASSUME spec.cloud = "aws"
  PROVE  ClusterRole = {Role("cluster")}
           \cup {Policy("cluster", PoliciesOf("cluster")[i]) : i \in DOMAIN PoliciesOf("cluster")}
<1>1. InlinePolicy("cluster") = {}
  BY DEF InlinePolicy
<1> QED
  BY <1>1 DEF ClusterRole, RoleParts, PartsOf, Policy

LEMMA AwsCreatesCluster ==
  ASSUME run = "apply", TypeOK, spec.cloud = "aws", NEW h
  PROVE  Fine(AwsCreateCluster, h) /\ AutoRole \subseteq Given(AwsCreateCluster)
<1> DEFINE w == {<<"access">>} \cup (IF spec.auto THEN {<<"profile", "autoNode">>} ELSE {})
           n == {Role("cluster")} \cup SubnetsOf(spec)
           s == IF spec.auto THEN EnsureRole("autoNode") ELSE <<>>
           t == <<Call("createCluster", "", w, n)>>
<1>1. Fine(s, h) /\ AutoRole \subseteq Given(s)
  <2>1. CASE ~spec.auto
    BY <2>1, Nothing, AutoRoleIs
  <2>2. CASE spec.auto
    <3>1. "autoNode" \in AwsRoles
      BY <2>2 DEF AwsRoles
    <3> QED
      BY <2>2, <3>1, EnsuresRole, AutoRoleIs
  <2> QED
    BY <2>1, <2>2
<1>2. /\ w \subseteq {r \in Wanted : Inside(r)} \cup {<<"residue">>}
                     \cup (IF spec.cloud = "aws" THEN {<<"profile", "autoNode">>} ELSE {})
      /\ w \cap Named("pool", PoolNames) = {} /\ \A a \in IdentityRoles : <<"binding", a>> \notin w
  <2>1. Inside(<<"access">>)
    BY DEF Inside
  <2>2. \A x \in w : x[1] \in {"access", "profile"}
    OBVIOUS
  <2>3. w \cap Named("pool", PoolNames) = {} /\ \A a \in IdentityRoles : <<"binding", a>> \notin w
    BY <2>2 DEF Named
  <2> QED
    BY <2>1, <2>3, AccessWanted
<1>3. Ground \subseteq n
  BY DEF Ground
<1>4. AwsCreateCluster = s \o t
  BY DEF AwsCreateCluster
<1> HIDE DEF s, w, n
<1>5. Fine(t, h \cup Given(s)) /\ Given(t) = {}
  BY <1>1, <1>2, <1>3, CreatesCluster
<1> HIDE DEF t
<1>6. Fine(s \o t, h) /\ Given(s \o t) = Given(s) \cup Given(t)
  BY <1>1, <1>5, Then
<1> QED
  BY <1>1, <1>4, <1>6

LEMMA AwsCreates ==
  ASSUME run = "apply", TypeOK, spec.cloud = "aws", NEW h
  PROVE  Fine(AwsCreate, h) /\ ClusterRole \cup AutoRole \subseteq Given(AwsCreate)
<1> DEFINE s == EnsureRole("cluster")
           c == Do("createDescribed")
<1>1. Fine(s, h) /\ ClusterRole = Given(s)
  <2>1. "cluster" \in AwsRoles
    BY DEF AwsRoles
  <2> QED
    BY <2>1, EnsuresRole, ClusterRoleIs
<1>2. c.op = "do" /\ c.name = "createDescribed"
  BY CallFields
<1>3. AwsCreate = s \o <<c>>
  BY DEF AwsCreate
<1> HIDE DEF s, c
<1>4. Fit(c)
  BY <1>2 DEF Fit, ApplyFit
<1>5. Needs(c) = {}
  BY <1>2 DEF Needs
<1>6. Gives(c) = AutoRole
  BY <1>2 DEF Gives
<1>7. Fine(<<c>>, h \cup Given(s)) /\ Given(<<c>>) = AutoRole
  BY <1>4, <1>5, <1>6, Single
<1>8. Fine(s \o <<c>>, h) /\ Given(s \o <<c>>) = ClusterRole \cup AutoRole
  BY <1>1, <1>7, Then
<1> QED
  BY <1>3, <1>8

LEMMA AwsReconciles ==
  ASSUME run = "apply", TypeOK, spec.cloud = "aws", NEW h, Fact("active") \in h
  PROVE  Fine(AwsReconcile, h) /\ Wanted \ Lasting \subseteq Got \cup Given(AwsReconcile)
<1> DEFINE s == ReconcileAccess
           t == EnsureComputeAndAddons
<1>1. Fine(s, h) /\ Given(s) = {<<"access">>}
  BY Reconciles
<1>2. Fine(t, h \cup Given(s)) /\ AwsConverged \subseteq Given(t)
  BY EnsuresComputeAndAddons
<1>3. AwsReconcile = s \o t
  BY DEF AwsReconcile
<1> HIDE DEF s, t
<1>4. Fine(s \o t, h) /\ Given(s \o t) = Given(s) \cup Given(t)
  BY <1>1, <1>2, Then
<1>5. \A a \in AwsAddons : KeptBinding(a) \cap AddonParts(a) \subseteq Got
  <2> SUFFICES ASSUME NEW a \in AwsAddons, NEW x \in KeptBinding(a) \cap AddonParts(a)
               PROVE  x \in Got
    OBVIOUS
  <2>1. x = <<"binding", a>> /\ <<"irsa", a>> \in have
    BY DEF KeptBinding
  <2>2. a \in IdentityRoles
    BY <2>1 DEF AddonParts, HasIdentity
  <2> QED
    BY <2>1, <2>2 DEF Got
<1>6. ASSUME NEW x \in Wanted \ Lasting PROVE x \in Got \cup AwsConverged \cup {<<"access">>}
  <2>1. x \notin Network /\ x \notin RoleParts("cluster") /\ x \notin AutoRole
    BY DEF Lasting, ClusterRole
  <2>2. \/ \E a \in AwsAddons : x \in AddonParts(a)
        \/ \E r \in AwsRoles : x \in RoleParts(r)
        \/ x = <<"access">>
        \/ x \in (IF spec.auto THEN {} ELSE PoolParts \cup {<<"association", "cluster-autoscaler">>})
    BY <2>1, AwsWants
  <2>3. CASE \E a \in AwsAddons : x \in AddonParts(a)
    BY <1>5, <2>3 DEF AwsConverged
  <2>4. CASE \E r \in AwsRoles : x \in RoleParts(r)
    <3>1. PICK r \in AwsRoles : x \in RoleParts(r)
      BY <2>4
    <3>2. r # "cluster"
      BY <2>1, <3>1
    <3>3. "autoNode" \in AwsRoles => spec.auto
      BY DEF AwsRoles, IdentityRoles
    <3>4. r # "autoNode"
      BY <2>1, <3>1, <3>3, AutoRoleIs
    <3> QED
      BY <3>1, <3>2, <3>4 DEF AwsConverged
  <2>5. CASE x \in (IF spec.auto THEN {} ELSE PoolParts \cup {<<"association", "cluster-autoscaler">>})
    BY <2>5 DEF AwsConverged
  <2> QED
    BY <2>2, <2>3, <2>4, <2>5
<1> QED
  BY <1>1, <1>2, <1>3, <1>4, <1>6
-----------------------------------------------------------------------------
(* What the functions of gcp and azure do in an apply. *)

LEMMA EnsuresGcpNetwork ==
  ASSUME run = "apply", TypeOK, spec.cloud = "gcp", NEW h
  PROVE  Fine(GcpEnsureNetwork, h) /\ Network \subseteq Given(GcpEnsureNetwork)
<1>1. CASE spec.supplied
  BY <1>1, Nothing DEF GcpEnsureNetwork, Network
<1>2. CASE ~spec.supplied
  <2> DEFINE s == EnsureVPCNetwork
             t == EnsureSubnetwork
             u == IF spec.public THEN <<>> ELSE EnsureCloudNAT
             v == IF spec.public THEN {} ELSE {<<"router">>}
  <2>1. Network = {<<"network">>, <<"subnetwork">>} \cup v
    BY <1>2 DEF Network
  <2>2. /\ Parents(<<"network">>) = {} /\ Parents(<<"subnetwork">>) = {<<"network">>}
        /\ Parents(<<"router">>) = {<<"network">>}
    BY DEF Parents
  <2>3. \A g : Fine(s, g) /\ Given(s) = {<<"network">>}
    <3>1. {<<"network">>} \subseteq Network /\ \A x \in {<<"network">>} : Parents(x) \subseteq {}
      BY <2>1, <2>2
    <3> QED
      BY <3>1, MakesNetwork DEF EnsureVPCNetwork
  <2>4. \A g : Fine(t, g) /\ Given(t) = {<<"subnetwork">>}
    <3>1. {<<"subnetwork">>} \subseteq Network /\ \A x \in {<<"subnetwork">>} : Parents(x) \subseteq {<<"network">>}
      BY <2>1, <2>2
    <3> QED
      BY <3>1, MakesNetwork DEF EnsureSubnetwork
  <2>5. \A g : Fine(u, g) /\ Given(u) = v
    <3>1. CASE spec.public
      BY <3>1, Nothing
    <3>2. CASE ~spec.public
      <4>1. {<<"router">>} \subseteq Network /\ \A x \in {<<"router">>} : Parents(x) \subseteq {<<"network">>}
        BY <2>1, <2>2, <3>2
      <4> QED
        BY <3>2, <4>1, MakesNetwork DEF EnsureCloudNAT
    <3> QED
      BY <3>1, <3>2
  <2>6. GcpEnsureNetwork = (s \o t) \o u
    BY <1>2 DEF GcpEnsureNetwork
  <2> HIDE DEF s, t, u, v
  <2> DEFINE st == s \o t
  <2>7. Fine(st, h) /\ Given(st) = Given(s) \cup Given(t)
    BY <2>3, <2>4, Then
  <2> HIDE DEF st
  <2>8. Fine(st \o u, h) /\ Given(st \o u) = Given(st) \cup Given(u)
    BY <2>5, <2>7, Then
  <2> QED
    BY <2>1, <2>3, <2>4, <2>5, <2>6, <2>7, <2>8 DEF st
<1> QED
  BY <1>1, <1>2

LEMMA EnsuresGcpPools ==
  ASSUME run = "apply", TypeOK, spec.cloud = "gcp", NEW h, Fact("active") \in h
  PROVE  Fine(GcpEnsureNodePools, h) /\ (~spec.auto => PoolParts \subseteq Given(GcpEnsureNodePools))
<1>1. CASE spec.auto
  BY <1>1, Nothing DEF GcpEnsureNodePools
<1>2. CASE ~spec.auto
  <2> DEFINE make == [p \in PoolNames |-> CreateNodePool(p)]
             n == {}
  <2>1. \A p \in PoolNames : make[p] = Make(NodePool(p), n)
    BY DEF CreateNodePool
  <2>2. \A p \in PoolNames : NodePool(p) \subseteq Wanted
    BY <1>2, PoolsWanted DEF PoolParts, Named, NodePool
  <2>3. GcpEnsureNodePools = EnsureNodePools(make)
    BY <1>2 DEF GcpEnsureNodePools
  <2> HIDE DEF make, n
  <2>4. Fine(EnsureNodePools(make), h) /\ PoolParts \subseteq Given(EnsureNodePools(make))
    BY <2>1, <2>2, EnsuresPools
  <2> QED
    BY <2>3, <2>4
<1> QED
  BY <1>1, <1>2

\* The pool of a new cluster, and what comes with it.
LEMMA FirstPool ==
  ASSUME TypeOK, spec.cloud # "aws", NEW w,
         w \subseteq {<<"access">>, <<"residue">>}
                     \cup (IF spec.auto \/ Pools = <<>> THEN {} ELSE NodePool(Pools[1]))
  PROVE  /\ w \subseteq {r \in Wanted : Inside(r)} \cup {<<"residue">>}
         /\ \A a \in IdentityRoles : <<"binding", a>> \notin w
<1>1. Pools # <<>> => Pools[1] \in PoolNames
  BY PoolCount
<1>2. \A p : \A x \in NodePool(p) : x[1] \in {"pool", "bounds"}
  BY DEF NodePool
<1>3. Inside(<<"access">>) /\ \A p : \A x \in NodePool(p) : Inside(x)
  BY <1>2 DEF Inside
<1>4. ~spec.auto => \A p \in PoolNames : NodePool(p) \subseteq Wanted
  BY PoolsWanted DEF PoolParts, Named, NodePool
<1>5. w \subseteq {r \in Wanted : Inside(r)} \cup {<<"residue">>}
  BY <1>1, <1>3, <1>4, AccessWanted
<1>6. \A x \in w : x[1] \in {"access", "residue", "pool", "bounds"}
  BY <1>2
<1> QED
  BY <1>5, <1>6

LEMMA GcpCreates ==
  ASSUME run = "apply", TypeOK, spec.cloud = "gcp", NEW h, status = "active" => Fact("active") \in h
  PROVE  Fine(GcpCreate, h)
<1>1. GcpShown = status \/ GcpShown = "absent"
  BY DEF GcpShown
<1>2. CASE GcpShown = "absent"
  <2> DEFINE w == {<<"access">>, <<"residue">>} \cup PlaceholderNodePool
             n == IF spec.supplied THEN {} ELSE {<<"subnetwork">>}
  <2>1. w \subseteq {<<"access">>, <<"residue">>}
                     \cup (IF spec.auto \/ Pools = <<>> THEN {} ELSE NodePool(Pools[1]))
    BY DEF PlaceholderNodePool
  <2>2. Ground \subseteq n
    BY DEF Ground
  <2>3. AutoRole = {}
    BY DEF AutoRole
  <2>4. GcpCreate = <<Call("createCluster", "", w, n)>>
    BY <1>2 DEF GcpCreate, GcpCreateCluster
  <2> HIDE DEF w, n
  <2>5. Fine(<<Call("createCluster", "", w, n)>>, h)
    BY <2>1, <2>2, <2>3, FirstPool, CreatesCluster
  <2> QED
    BY <2>4, <2>5
<1>3. CASE GcpShown = "active"
  BY <1>1, <1>3, EnsuresGcpPools DEF GcpCreate
<1>4. CASE GcpShown \notin {"absent", "active"}
  BY <1>4, Nothing DEF GcpCreate
<1> QED
  BY <1>2, <1>3, <1>4

LEMMA GcpReconciles ==
  ASSUME run = "apply", TypeOK, spec.cloud = "gcp", NEW h, Fact("active") \in h
  PROVE  Fine(GcpReconcile, h) /\ Wanted \ Lasting \subseteq Given(GcpReconcile)
<1> DEFINE s == ReconcileAccess
           t == GcpEnsureNodePools
<1>1. Fine(s, h) /\ Given(s) = {<<"access">>}
  BY Reconciles
<1>2. Fine(t, h \cup Given(s)) /\ (~spec.auto => PoolParts \subseteq Given(t))
  BY EnsuresGcpPools
<1>3. GcpReconcile = s \o t
  BY DEF GcpReconcile
<1> HIDE DEF s, t
<1>4. Fine(s \o t, h) /\ Given(s \o t) = Given(s) \cup Given(t)
  BY <1>1, <1>2, Then
<1>5. Wanted \ Lasting \subseteq {<<"access">>} \cup (IF spec.auto THEN {} ELSE PoolParts)
  BY DEF Wanted, GcpWanted, Lasting, Network, PoolParts
<1> QED
  BY <1>1, <1>2, <1>3, <1>4, <1>5

LEMMA EnsuresAzureNetwork ==
  ASSUME run = "apply", TypeOK, spec.cloud = "azure", NEW h
  PROVE  Fine(AzureEnsureNetwork, h) /\ Network \subseteq Given(AzureEnsureNetwork)
<1> DEFINE s == <<Make({<<"group">>}, {})>>
           v == IF spec.supplied THEN {} ELSE {<<"vnet">>, <<"subnet">>}
           a == Make({<<"vnet">>}, {<<"group">>})
           b == Make({<<"subnet">>}, {<<"vnet">>})
           t == IF spec.supplied THEN <<>> ELSE <<a, b>>
<1>1. Network = {<<"group">>} \cup v
  BY DEF Network
<1>2. /\ Parents(<<"group">>) = {} /\ Parents(<<"vnet">>) = {<<"group">>}
      /\ Parents(<<"subnet">>) = {<<"vnet">>}
  BY DEF Parents
<1>3. Fine(s, h) /\ Given(s) = {<<"group">>}
  <2>1. {<<"group">>} \subseteq Network /\ \A x \in {<<"group">>} : Parents(x) \subseteq {}
    BY <1>1, <1>2
  <2> QED
    BY <2>1, MakesNetwork
<1>4. \A g : Fine(t, g) /\ Given(t) = v
  <2>1. CASE spec.supplied
    BY <2>1, Nothing
  <2>2. CASE ~spec.supplied
    <3>1. {<<"vnet">>} \subseteq Network /\ \A x \in {<<"vnet">>} : Parents(x) \subseteq {<<"group">>}
      BY <1>1, <1>2, <2>2
    <3>2. \A g : Fit(a) /\ Needs(a) \subseteq g /\ Gives(a) = {<<"vnet">>}
      BY <3>1, MakesNetwork
    <3>3. {<<"subnet">>} \subseteq Network /\ \A x \in {<<"subnet">>} : Parents(x) \subseteq {<<"vnet">>}
      BY <1>1, <1>2, <2>2
    <3>4. \A g : Fit(b) /\ Needs(b) \subseteq g /\ Gives(b) = {<<"subnet">>}
      BY <3>3, MakesNetwork
    <3>5. t = <<a, b>> /\ v = {<<"vnet">>, <<"subnet">>}
      BY <2>2
    <3> HIDE DEF a, b, t, v
    <3> QED
      BY <3>2, <3>4, <3>5, Pair
  <2> QED
    BY <2>1, <2>2
<1>5. AzureEnsureNetwork = s \o t
  BY DEF AzureEnsureNetwork
<1> HIDE DEF s, t, v
<1>6. Fine(s \o t, h) /\ Given(s \o t) = Given(s) \cup Given(t)
  BY <1>3, <1>4, Then
<1> QED
  BY <1>1, <1>3, <1>4, <1>5, <1>6

LEMMA EnsuresAzurePools ==
  ASSUME run = "apply", TypeOK, spec.cloud = "azure", NEW h, Fact("active") \in h
  PROVE  Fine(AzureEnsureNodePools, h) /\ PoolParts \subseteq Given(AzureEnsureNodePools)
<1> DEFINE make == [p \in PoolNames |-> CreateAgentPool(p)]
           n == {<<"group">>}
<1>1. \A p \in PoolNames : make[p] = Make(NodePool(p), n)
  BY DEF CreateAgentPool
<1>2. \A p \in PoolNames : NodePool(p) \subseteq Wanted
  BY PoolsWanted, CloudIs DEF PoolParts, Named, NodePool
<1>3. AzureEnsureNodePools = EnsureNodePools(make)
  BY DEF AzureEnsureNodePools
<1> HIDE DEF make, n
<1>4. Fine(EnsureNodePools(make), h) /\ PoolParts \subseteq Given(EnsureNodePools(make))
  BY <1>1, <1>2, EnsuresPools
<1> QED
  BY <1>3, <1>4

LEMMA AzureCreates ==
  ASSUME run = "apply", TypeOK, spec.cloud = "azure", NEW h, status = "active" => Fact("active") \in h
  PROVE  Fine(AzureCreate, h)
<1>1. CASE status = "absent"
  <2> DEFINE w == {<<"access">>} \cup (IF Pools = <<>> THEN {} ELSE NodePool(Pools[1]))
             n == {<<"group">>} \cup (IF spec.supplied THEN {} ELSE {<<"subnet">>})
  <2>1. w \subseteq {<<"access">>, <<"residue">>}
                     \cup (IF spec.auto \/ Pools = <<>> THEN {} ELSE NodePool(Pools[1]))
    BY CloudIs
  <2>2. Ground \subseteq n
    BY DEF Ground
  <2>3. AutoRole = {}
    BY DEF AutoRole
  <2>4. AzureCreate = <<Call("createCluster", "", w, n)>>
    BY <1>1 DEF AzureCreate, AzureCreateCluster
  <2> HIDE DEF w, n
  <2>5. Fine(<<Call("createCluster", "", w, n)>>, h)
    BY <2>1, <2>2, <2>3, FirstPool, CreatesCluster
  <2> QED
    BY <2>4, <2>5
<1>2. CASE status = "active"
  BY <1>2, EnsuresAzurePools DEF AzureCreate
<1>3. CASE status \notin {"absent", "active"}
  BY <1>3, Nothing DEF AzureCreate
<1> QED
  BY <1>1, <1>2, <1>3

LEMMA AzureReconciles ==
  ASSUME run = "apply", TypeOK, spec.cloud = "azure", NEW h, Fact("active") \in h
  PROVE  Fine(AzureReconcile, h) /\ Wanted \ Lasting \subseteq Given(AzureReconcile)
<1> DEFINE s == ReconcileAccess
           t == AzureEnsureNodePools
<1>1. Fine(s, h) /\ Given(s) = {<<"access">>}
  BY Reconciles
<1>2. Fine(t, h \cup Given(s)) /\ PoolParts \subseteq Given(t)
  BY EnsuresAzurePools
<1>3. AzureReconcile = s \o t
  BY DEF AzureReconcile
<1> HIDE DEF s, t
<1>4. Fine(s \o t, h) /\ Given(s \o t) = Given(s) \cup Given(t)
  BY <1>1, <1>2, Then
<1>5. Wanted \ Lasting \subseteq {<<"access">>} \cup PoolParts
  BY DEF Wanted, AzureWanted, Lasting, Network, PoolParts
<1> QED
  BY <1>1, <1>2, <1>3, <1>4, <1>5

\* A function that an apply calls keeps what it promised.
LEMMA AppliedBody ==
  ASSUME run = "apply", TypeOK, status # "absent" => AutoRole \subseteq have,
         NEW c, c.op = "do", Fit(c), Needs(c) \subseteq Facts
  PROVE  Fine(Body(c.name), Facts) /\ Gives(c) \subseteq Facts \cup Given(Body(c.name))
<1> DEFINE name == c.name
           h == Facts
<1>1. c.op = "do" /\ c.name = name
  OBVIOUS
<1>2. \/ name \in {"EnsureNetwork", "Create", "Reconcile"}
      \/ name = "createDescribed" /\ spec.cloud = "aws"
  BY <1>1 DEF Fit, ApplyFit
<1>3. /\ Got \subseteq h
      /\ status = "active" => Fact("active") \in h
      /\ status # "absent" => AutoRole \subseteq h
  <2>1. \A x \in AutoRole : x[1] \in {"role", "policy", "inline"}
    BY OwnParts DEF AutoRole
  <2>2. AutoRole \cap {<<"residue">>} = {}
    BY <2>1
  <2> QED
    BY <2>2 DEF Facts, Got, When, Left
<1> HIDE DEF h, name
<1>4. CASE name = "EnsureNetwork"
  <2>1. Gives(c) = Network
    BY <1>1, <1>4 DEF Gives
  <2>2. Fine(Body(name), h) /\ Network \subseteq Given(Body(name))
    BY <1>4, EnsuresAwsNetwork, EnsuresGcpNetwork, EnsuresAzureNetwork, CloudIs
    DEF Body, AwsBody, GcpBody, AzureBody
  <2> QED
    BY <2>1, <2>2 DEF h, name
<1>5. CASE name = "Create"
  <2>1. Gives(c) = ClusterRole \cup AutoRole
    BY <1>1, <1>5 DEF Gives
  <2>2. CASE spec.cloud = "aws"
    <3>1. Body(name) = AwsCreate
      BY <1>5, <2>2 DEF Body, AwsBody
    <3> QED
      BY <2>1, <2>2, <3>1, AwsCreates DEF h, name
  <2>3. CASE spec.cloud = "gcp"
    <3>1. Body(name) = GcpCreate
      BY <1>5, <2>3 DEF Body, GcpBody
    <3>2. Gives(c) = {}
      BY <2>1, <2>3 DEF ClusterRole, AutoRole
    <3> QED
      BY <1>3, <2>3, <3>1, <3>2, GcpCreates DEF h, name
  <2>4. CASE spec.cloud = "azure"
    <3>1. Body(name) = AzureCreate
      BY <1>5, <2>4 DEF Body, AzureBody
    <3>2. Gives(c) = {}
      BY <2>1, <2>4 DEF ClusterRole, AutoRole
    <3> QED
      BY <1>3, <2>4, <3>1, <3>2, AzureCreates DEF h, name
  <2> QED
    BY <2>2, <2>3, <2>4, CloudIs
<1>6. CASE name = "Reconcile"
  <2>1. Gives(c) = Wanted \ Lasting
    BY <1>1, <1>6 DEF Gives
  <2>2. Fact("active") \in h
    <3>1. Needs(c) = {Fact("active")}
      BY <1>1, <1>6 DEF Needs
    <3> QED
      BY <3>1 DEF h, name
  <2>3. CASE spec.cloud = "aws"
    <3>1. Body(name) = AwsReconcile
      BY <1>6, <2>3 DEF Body, AwsBody
    <3>2. Fine(AwsReconcile, h) /\ Wanted \ Lasting \subseteq Got \cup Given(AwsReconcile)
      BY <2>2, <2>3, AwsReconciles
    <3> QED
      BY <1>3, <2>1, <3>1, <3>2 DEF h, name
  <2>4. CASE spec.cloud = "gcp"
    <3>1. Body(name) = GcpReconcile
      BY <1>6, <2>4 DEF Body, GcpBody
    <3> QED
      BY <2>1, <2>2, <2>4, <3>1, GcpReconciles DEF h, name
  <2>5. CASE spec.cloud = "azure"
    <3>1. Body(name) = AzureReconcile
      BY <1>6, <2>5 DEF Body, AzureBody
    <3> QED
      BY <2>1, <2>2, <2>5, <3>1, AzureReconciles DEF h, name
  <2> QED
    BY <2>3, <2>4, <2>5, CloudIs
<1>7. CASE name = "createDescribed" /\ spec.cloud = "aws"
  <2>1. Gives(c) = AutoRole
    BY <1>1, <1>7 DEF Gives
  <2>2. Body(name) = AwsCreateDescribed
    BY <1>7 DEF Body, AwsBody
  <2>3. CASE status = "absent"
    BY <1>7, <2>1, <2>2, <2>3, AwsCreatesCluster DEF AwsCreateDescribed, h, name
  <2>4. CASE status = "active"
    BY <1>3, <1>7, <2>1, <2>2, <2>4, EnsuresComputeAndAddons DEF AwsCreateDescribed, h, name
  <2>5. CASE status \notin {"absent", "active"}
    BY <1>3, <2>1, <2>2, <2>5, Nothing DEF AwsCreateDescribed, h, name
  <2> QED
    BY <2>3, <2>4, <2>5
<1> QED
  BY <1>2, <1>4, <1>5, <1>6, <1>7
-----------------------------------------------------------------------------
(* What the functions do in a delete. *)

AwsNetworkParts == {<<"vpc">>, <<"dnsSupport">>, <<"dnsHostnames">>, <<"gateway">>,
                    <<"attached">>, <<"routeTable">>, <<"defaultRoute">>,
                    Subnet("a"), Public("a"), Routed("a"), Subnet("b"), Public("b"), Routed("b")}

LEMMA AwsNetworkKinds ==
  \A x \in AwsNetworkParts : x[1] \in {"vpc", "dnsSupport", "dnsHostnames", "gateway", "attached",
                                      "routeTable", "defaultRoute", "subnet", "publicIP", "routed"}
BY DEF AwsNetworkParts, Subnet, Public, Routed

LEMMA PossibleIs ==
  \A x \in Possible : x \in Wanted \cup {<<"residue">>, <<"securityGroup">>, <<"profile", "autoNode">>}
           \/ (spec.cloud = "aws" /\ x \in {<<"oidc">>, <<"irsa", "ebs-csi">>})
           \/ (spec.cloud = "gcp" /\ x = <<"firewall">>)
<1>1. \A x \in UNION Older : (spec.cloud = "aws" /\ x \in {<<"oidc">>, <<"irsa", "ebs-csi">>})
                             \/ (spec.cloud = "gcp" /\ x = <<"firewall">>)
  BY DEF Older
<1> QED
  BY <1>1 DEF Possible

LEMMA AwsPossible ==
  ASSUME spec.cloud = "aws", NEW x \in Possible
  PROVE  \/ Inside(x)
         \/ \E r \in RoleNames : x \in RoleParts(r)
         \/ x \in AwsNetworkParts
         \/ x \in {<<"residue">>, <<"securityGroup">>, <<"profile", "autoNode">>, <<"oidc">>}
<1>1. \/ \E a \in AwsAddons : x \in AddonParts(a)
      \/ \E r \in AwsRoles : x \in RoleParts(r)
      \/ x = <<"access">>
      \/ x \in Network
      \/ x \in PoolParts \cup {<<"association", "cluster-autoscaler">>}
      \/ x \in {<<"residue">>, <<"securityGroup">>, <<"profile", "autoNode">>, <<"oidc">>, <<"irsa", "ebs-csi">>}
  BY PossibleIs, AwsWants
<1>2. CASE \E a \in AwsAddons : x \in AddonParts(a)
  BY <1>2, OwnAddonParts DEF Inside
<1>3. CASE \E r \in AwsRoles : x \in RoleParts(r)
  BY <1>3, WantedRoleNames
<1>4. CASE x = <<"access">>
  BY <1>4 DEF Inside
<1>5. CASE x \in Network
  BY <1>5 DEF Network, AwsNetworkParts
<1>6. CASE x \in PoolParts \cup {<<"association", "cluster-autoscaler">>}
  <2>1. x[1] \in {"pool", "bounds", "association"}
    BY <1>6 DEF PoolParts, Named
  <2> QED
    BY <2>1 DEF Inside
<1>7. CASE x \in {<<"residue">>, <<"securityGroup">>, <<"profile", "autoNode">>, <<"oidc">>, <<"irsa", "ebs-csi">>}
  BY <1>7 DEF Inside
<1> QED
  BY <1>1, <1>2, <1>3, <1>4, <1>5, <1>6, <1>7

LEMMA GcpPossible ==
  ASSUME spec.cloud = "gcp", NEW x \in Possible
  PROVE  \/ Inside(x)
         \/ x \in {<<"network">>, <<"subnetwork">>, <<"router">>, <<"firewall">>, <<"residue">>,
                   <<"securityGroup">>, <<"profile", "autoNode">>}
<1>1. \/ x = <<"access">> \/ x \in PoolParts
      \/ x \in {<<"network">>, <<"subnetwork">>, <<"router">>, <<"firewall">>, <<"residue">>,
                <<"securityGroup">>, <<"profile", "autoNode">>}
  BY PossibleIs DEF Wanted, GcpWanted, PoolParts
<1>2. x \in PoolParts => Inside(x)
  BY DEF PoolParts, Named, Inside
<1> QED
  BY <1>1, <1>2 DEF Inside

LEMMA AzurePossible ==
  ASSUME spec.cloud = "azure", NEW x \in Possible
  PROVE  \/ Inside(x)
         \/ x \in {<<"group">>, <<"vnet">>, <<"subnet">>, <<"residue">>,
                   <<"securityGroup">>, <<"profile", "autoNode">>}
<1>1. \/ x = <<"access">> \/ x \in PoolParts
      \/ x \in {<<"group">>, <<"vnet">>, <<"subnet">>, <<"residue">>,
                <<"securityGroup">>, <<"profile", "autoNode">>}
  BY PossibleIs DEF Wanted, AzureWanted, PoolParts
<1>2. x \in PoolParts => Inside(x)
  BY DEF PoolParts, Named, Inside
<1> QED
  BY <1>1, <1>2 DEF Inside

\* A discard that a delete may make.
LEMMA Discards ==
  ASSUME run = "delete", NEW w, NEW n, NEW h,
         \A r \in Possible : Parents(r) \cap w # {} => r \in w \cup n,
         <<"group">> \notin w,
         w \cap NodeRole # {} => Fact("poolless") \in h,
         Role("cluster") \in w => Fact("asked") \in h,
         w \cap (SubnetsOf(spec) \cup {<<"subnetwork">>}) # {} => Fact("gone") \in h,
         NEW c, c \in {Discard(w, n), Retry(w, n)}
  PROVE  /\ Fit(c) /\ Needs(c) \subseteq h /\ Clears(c) = w
         /\ Gives(c) = IF Role("node") \in w THEN {Fact("nodeless")} ELSE {}
<1>1. c.op \in {"discard", "retry"} /\ c.what = w /\ c.on = n
  BY CallFields
<1>2. Fit(c)
  BY <1>1 DEF Fit, DeleteFit
<1>3. Needs(c) \subseteq h
  BY <1>1 DEF Needs
<1>4. Gives(c) = IF Role("node") \in w THEN {Fact("nodeless")} ELSE {}
  BY <1>1 DEF Gives
<1>5. Clears(c) = w
  BY <1>1 DEF Clears
<1> QED
  BY <1>2, <1>3, <1>4, <1>5

\* What else a delete calls.
LEMMA Others ==
  ASSUME run = "delete", NEW op \in {"deletePool", "waitPools", "deleteCluster", "waitGone"},
         NEW name, NEW on, NEW h, op = "deleteCluster" /\ spec.cloud = "aws" => Fact("nodeless") \in h
  PROVE  LET c == Call(op, name, {}, on)
         IN  /\ Fit(c) /\ Needs(c) \subseteq h /\ Clears(c) = {}
             /\ op = "waitPools" => Gives(c) = {Fact("poolless")}
             /\ op = "deleteCluster" => Gives(c) = {Fact("asked")}
             /\ op = "waitGone" => Gives(c) = {Fact("gone")}
<1> DEFINE c == Call(op, name, {}, on)
<1>1. c.op = op
  BY DEF Call
<1> HIDE DEF c
<1>2. Fit(c)
  BY <1>1 DEF Fit, DeleteFit
<1>3. Needs(c) \subseteq h
  BY <1>1 DEF Needs
<1>4. /\ op = "waitPools" => Gives(c) = {Fact("poolless")}
      /\ op = "deleteCluster" => Gives(c) = {Fact("asked")}
      /\ op = "waitGone" => Gives(c) = {Fact("gone")}
  BY <1>1 DEF Gives
<1>5. Clears(c) = {}
  BY <1>1 DEF Clears
<1> QED
  BY <1>2, <1>3, <1>4, <1>5 DEF c

\* Nothing is attached to what is attached to a role, and to a role only its parts.
LEMMA RoleChildren ==
  ASSUME TypeOK, NEW r, NEW x \in Possible
  PROVE  /\ Parents(x) \cap {<<"inline", r>>, <<"profile", r>>} = {}
         /\ \A p : Policy(r, p) \notin Parents(x)
         /\ Role(r) \in Parents(x) => x \in PartsOf(r)
         /\ <<"oidc">> \notin Parents(x)
<1>1. \A y \in Parents(x) : y[1] \in {"vpc", "vnet", "subnet", "routeTable", "role", "network", "group"}
  BY DEF Parents, Subnet, Role
<1>2. Parents(x) \cap {<<"inline", r>>, <<"profile", r>>, <<"oidc">>} = {} /\ \A p : Policy(r, p) \notin Parents(x)
  BY <1>1 DEF Policy
<1>3. Role(r) \in Parents(x) => x[1] \in {"policy", "inline"} /\ x[2] = r
  <2>1. x[1] \notin {"policy", "inline"} => \A y \in Parents(x) : y[1] # "role"
    BY DEF Parents, Subnet
  <2>2. Role(r)[1] = "role"
    BY DEF Role
  <2>3. x[1] \in {"policy", "inline"} => Parents(x) = {Role(x[2])}
    BY DEF Parents
  <2>4. Role(r) = Role(x[2]) => x[2] = r
    BY DEF Role
  <2> QED
    BY <2>1, <2>2, <2>3, <2>4
<1>4. ASSUME x[1] \in {"policy", "inline"}, x[2] = r PROVE x \in PartsOf(r)
  <2>1. ~Inside(x)
    BY <1>4 DEF Inside
  <2>2. spec.cloud = "aws"
    BY <1>4, <2>1, CloudIs, GcpPossible, AzurePossible
  <2>3. x \notin AwsNetworkParts
    BY <1>4, AwsNetworkKinds
  <2>4. PICK q \in RoleNames : x \in RoleParts(q)
    BY <1>4, <2>1, <2>2, <2>3, AwsPossible
  <2>5. q = r
    BY <1>4, <2>4, OwnParts
  <2>6. x # Role(r)
    BY <1>4 DEF Role
  <2> QED
    BY <2>4, <2>5, <2>6 DEF RoleParts
<1> QED
  BY <1>2, <1>3, <1>4

LEMMA DiscardsRolePart ==
  ASSUME run = "delete", TypeOK, NEW r, NEW w, w \subseteq {Role(r)} \cup PartsOf(r),
         NEW n, Role(r) \in w => PartsOf(r) \subseteq n,
         NEW h, r = "node" => Fact("poolless") \in h, r = "cluster" => Fact("asked") \in h
  PROVE  LET c == Discard(w, n)
         IN  /\ Fit(c) /\ Needs(c) \subseteq h /\ Clears(c) = w
             /\ Gives(c) = IF Role("node") \in w THEN {Fact("nodeless")} ELSE {}
<1>1. \A x \in w : x[2] = r /\ x[1] \in {"role", "policy", "inline", "profile"}
  <2>1. \A x \in w : x \in RoleParts(r) \/ x = <<"profile", r>>
    BY DEF RoleParts
  <2> QED
    BY <2>1, OwnParts
<1>2. ASSUME NEW x \in Possible, Parents(x) \cap w # {} PROVE x \in w \cup n
  <2>1. PICK y \in w : y \in Parents(x)
    BY <1>2
  <2>2. \/ y = Role(r) \/ (\E p : y = Policy(r, p)) \/ y = <<"inline", r>> \/ y = <<"profile", r>>
    BY DEF PartsOf, InlinePolicy
  <2>3. y = Role(r)
    BY <2>1, <2>2, RoleChildren
  <2> QED
    BY <2>1, <2>3, RoleChildren
<1>3. <<"group">> \notin w
  <2>1. <<"group">>[1] = "group"
    OBVIOUS
  <2> QED
    BY <1>1, <2>1
<1>4. w \cap NodeRole # {} => Fact("poolless") \in h
  BY <1>1, OwnParts DEF NodeRole
<1>5. Role("cluster") \in w => Fact("asked") \in h
  BY <1>1 DEF Role
<1>6. w \cap (SubnetsOf(spec) \cup {<<"subnetwork">>}) = {}
  BY <1>1 DEF SubnetsOf, Subnet
<1> HIDE DEF PartsOf
<1> QED
  BY <1>2, <1>3, <1>4, <1>5, <1>6, Discards

LEMMA DeletesRole ==
  ASSUME run = "delete", TypeOK, NEW r \in RoleNames, NEW h,
         r = "node" => Fact("poolless") \in h, r = "cluster" => Fact("asked") \in h
  PROVE  /\ Fine(DeleteRole(r), h)
         /\ {Role(r)} \cup PartsOf(r) \subseteq Cleared(DeleteRole(r))
         /\ r = "node" => Fact("nodeless") \in Given(DeleteRole(r))
<1> DEFINE ps == PoliciesOf(r)
           f == [i \in 1..Len(ps) |-> Discard({Policy(r, ps[i])}, {})]
           a == Discard(InlinePolicy(r), {})
           b == Discard({<<"profile", r>>}, {})
           c == Discard({Role(r)}, PartsOf(r))
           t == <<a, b, c>>
<1>1. Len(ps) \in Nat /\ DOMAIN ps = 1..Len(ps)
  BY Policies
<1>2. PartsOf(r) = {Policy(r, ps[i]) : i \in 1..Len(ps)} \cup InlinePolicy(r) \cup {<<"profile", r>>}
  BY <1>1 DEF PartsOf
<1>3. \A p : Policy(r, p) # Role(r) /\ <<"profile", r>> # Role(r) /\ <<"inline", r>> # Role(r)
  BY DEF Policy, Role
<1>4. Role(r) \notin InlinePolicy(r)
  BY <1>3 DEF InlinePolicy
<1>5. ASSUME NEW i \in 1..Len(ps)
      PROVE  Fit(f[i]) /\ Needs(f[i]) \subseteq h /\ Clears(f[i]) = {Policy(r, ps[i])}
  <2> DEFINE w == {Policy(r, ps[i])}
             n == {}
  <2>1. w \subseteq {Role(r)} \cup PartsOf(r) /\ Role(r) \notin w /\ f[i] = Discard(w, n)
    BY <1>2, <1>3
  <2> HIDE DEF w, n, f, ps
  <2>2. Fit(Discard(w, n)) /\ Needs(Discard(w, n)) \subseteq h /\ Clears(Discard(w, n)) = w
    BY <2>1, DiscardsRolePart
  <2> QED
    BY <2>1, <2>2 DEF w
<1>6. f = [i \in 1..Len(ps) |-> f[i]]
  OBVIOUS
<1>7. \A g : Fit(a) /\ Needs(a) \subseteq h \cup g /\ Clears(a) = InlinePolicy(r)
  <2> DEFINE w == InlinePolicy(r)
             n == {}
  <2>1. w \subseteq {Role(r)} \cup PartsOf(r) /\ Role(r) \notin w
    BY <1>2, <1>4
  <2> HIDE DEF w, n
  <2>2. \A g : Fit(Discard(w, n)) /\ Needs(Discard(w, n)) \subseteq h \cup g /\ Clears(Discard(w, n)) = w
    BY <2>1, DiscardsRolePart
  <2> QED
    BY <2>2 DEF w, n
<1>8. \A g : Fit(b) /\ Needs(b) \subseteq h \cup g /\ Clears(b) = {<<"profile", r>>}
  <2> DEFINE w == {<<"profile", r>>}
             n == {}
  <2>1. w \subseteq {Role(r)} \cup PartsOf(r) /\ Role(r) \notin w
    BY <1>2, <1>3
  <2> HIDE DEF w, n
  <2>2. \A g : Fit(Discard(w, n)) /\ Needs(Discard(w, n)) \subseteq h \cup g /\ Clears(Discard(w, n)) = w
    BY <2>1, DiscardsRolePart
  <2> QED
    BY <2>2 DEF w, n
<1>9. \A g : /\ Fit(c) /\ Needs(c) \subseteq h \cup g /\ Clears(c) = {Role(r)}
             /\ r = "node" => Fact("nodeless") \in Gives(c)
  <2> DEFINE w == {Role(r)}
             n == PartsOf(r)
  <2>1. w \subseteq {Role(r)} \cup PartsOf(r) /\ PartsOf(r) \subseteq n
    OBVIOUS
  <2>2. r = "node" => Role("node") \in w
    OBVIOUS
  <2> HIDE DEF w, n
  <2>3. \A g : /\ Fit(Discard(w, n)) /\ Needs(Discard(w, n)) \subseteq h \cup g /\ Clears(Discard(w, n)) = w
               /\ Gives(Discard(w, n)) = IF Role("node") \in w THEN {Fact("nodeless")} ELSE {}
    BY <2>1, DiscardsRolePart
  <2>4. r = "node" => Fact("nodeless") \in Gives(Discard(w, n))
    BY <2>2, <2>3
  <2> QED
    BY <2>3, <2>4 DEF w, n
<1>10. DeleteRole(r) = f \o t
  <2> DEFINE op(p) == Discard({Policy(r, p)}, {})
  <2>1. DeleteRole(r) = [i \in DOMAIN ps |-> op(ps[i])] \o t
    BY DEF DeleteRole, ForEach
  <2> QED
    BY <1>1, <2>1
<1> HIDE DEF f, a, b, c, ps
<1>11. Fine(f, h) /\ Cleared(f) = UNION {Clears(f[i]) : i \in 1..Len(ps)}
  BY <1>1, <1>5, <1>6, Each
<1>12. ASSUME NEW i \in 1..Len(ps) PROVE Policy(r, ps[i]) \in Cleared(f)
  <2>1. Policy(r, ps[i]) \in Clears(f[i])
    BY <1>5
  <2> QED
    BY <1>11, <2>1
<1>13. /\ Fine(t, h \cup Given(f)) /\ Cleared(t) = InlinePolicy(r) \cup {<<"profile", r>>} \cup {Role(r)}
       /\ r = "node" => Fact("nodeless") \in Given(t)
  BY <1>7, <1>8, <1>9, Triple
<1> HIDE DEF t
<1>14. Fine(f \o t, h) /\ Cleared(f \o t) = Cleared(f) \cup Cleared(t) /\ Given(f \o t) = Given(f) \cup Given(t)
  BY <1>11, <1>13, Then
<1>15. {Role(r)} \cup PartsOf(r) \subseteq Cleared(f \o t)
  BY <1>2, <1>12, <1>13, <1>14
<1> QED
  BY <1>10, <1>13, <1>14, <1>15

LEMMA DeletesNodeGroups ==
  ASSUME run = "delete", NEW h
  PROVE  Fine(DeleteNodeGroups, h)
<1> DEFINE f == DeleteNodeGroups
<1>1. f = [i \in 1..Len(Pools) |-> Call("deletePool", Pools[i], {}, {})]
  BY PoolCount DEF DeleteNodeGroups, ForEach
<1>2. ASSUME NEW i \in 1..Len(Pools) PROVE Fit(f[i]) /\ Needs(f[i]) \subseteq h
  <2>1. f[i] = Call("deletePool", Pools[i], {}, {})
    BY <1>1
  <2> HIDE DEF f
  <2>2. Fit(Call("deletePool", Pools[i], {}, {})) /\ Needs(Call("deletePool", Pools[i], {}, {})) \subseteq h
    BY Others
  <2> QED
    BY <2>1, <2>2
<1>3. f = [i \in 1..Len(Pools) |-> f[i]]
  BY <1>1
<1> HIDE DEF f
<1>4. Fine(f, h)
  BY <1>2, <1>3, PoolCount, Each
<1> QED
  BY <1>4 DEF f

\* The node groups and their role go first, then the cluster is asked to go.
LEMMA AwsDeletesCluster ==
  ASSUME run = "delete", TypeOK, spec.cloud = "aws", NEW h
  PROVE  LET s == DeleteNodeGroups \o WaitForNodeGroupsGone \o DeleteRole("node")
                  \o <<Call("deleteCluster", "", {}, Named("pool", PoolNames))>>
         IN  Fine(s, h) /\ Fact("asked") \in Given(s) /\ RoleParts("node") \subseteq Cleared(s)
<1> DEFINE a == DeleteNodeGroups
           b == WaitForNodeGroupsGone
           c == DeleteRole("node")
           on == Named("pool", PoolNames)
           e == Call("deleteCluster", "", {}, on)
           d == <<e>>
           ab == a \o b
           abc == ab \o c
<1>1. Fine(a, h)
  BY DeletesNodeGroups
<1>2. \A g : Fine(b, g) /\ Given(b) = {Fact("poolless")}
  <2> DEFINE none == {}
             op == "waitPools"
             w  == Call(op, "", {}, none)
  <2>0. op = "waitPools" /\ op # "deleteCluster" /\ op \in {"deletePool", "waitPools", "deleteCluster", "waitGone"}
    OBVIOUS
  <2> HIDE DEF none, op
  <2>1. ASSUME NEW g PROVE Fit(w) /\ Needs(w) \subseteq g /\ Gives(w) = {Fact("poolless")}
    BY <2>0, Others
  <2>2. b = <<w>>
    BY DEF WaitForNodeGroupsGone, none, op
  <2> HIDE DEF w, b
  <2> QED
    BY <2>1, <2>2, Single
<1>3. ASSUME NEW g, Fact("poolless") \in g
      PROVE  /\ Fine(c, g) /\ RoleParts("node") \subseteq Cleared(c) /\ Fact("nodeless") \in Given(c)
  BY <1>3, DeletesRole DEF RoleNames, RoleParts
<1>4. ASSUME NEW g, Fact("nodeless") \in g
      PROVE  Fine(d, g) /\ Given(d) = {Fact("asked")}
  <2> HIDE DEF on
  <2>1. Fit(e) /\ Needs(e) \subseteq g /\ Gives(e) = {Fact("asked")}
    BY <1>4, Others
  <2> HIDE DEF e
  <2> QED
    BY <2>1, Single
<1> HIDE DEF a, b, c, d
<1>5. Fine(ab, h) /\ Given(ab) = Given(a) \cup Given(b)
  BY <1>1, <1>2, Then
<1> HIDE DEF ab
<1>6. Fine(c, h \cup Given(ab)) /\ RoleParts("node") \subseteq Cleared(c) /\ Fact("nodeless") \in Given(c)
  BY <1>2, <1>3, <1>5
<1>7. Fine(abc, h) /\ Given(abc) = Given(ab) \cup Given(c) /\ Cleared(abc) = Cleared(ab) \cup Cleared(c)
  BY <1>5, <1>6, Then
<1> HIDE DEF abc
<1>8. Fine(d, h \cup Given(abc)) /\ Given(d) = {Fact("asked")}
  BY <1>4, <1>6, <1>7
<1>9. /\ Fine(abc \o d, h) /\ Given(abc \o d) = Given(abc) \cup Given(d)
      /\ Cleared(abc \o d) = Cleared(abc) \cup Cleared(d)
  BY <1>7, <1>8, Then
<1>10. Fine(abc \o d, h) /\ Fact("asked") \in Given(abc \o d) /\ RoleParts("node") \subseteq Cleared(abc \o d)
  BY <1>6, <1>7, <1>8, <1>9
<1> QED
  BY <1>10 DEF a, b, c, d, ab, abc

LEMMA AwsDeletes ==
  ASSUME run = "delete", TypeOK, spec.cloud = "aws", NEW h,
         status \in {"absent", "deleting"} => Fact("asked") \in h
  PROVE  /\ Fine(AwsDelete, h)
         /\ \A r \in RoleNames \ {"node"} : {Role(r)} \cup PartsOf(r) \subseteq Cleared(AwsDelete)
         /\ status \notin {"absent", "deleting"} => RoleParts("node") \subseteq Cleared(AwsDelete)
<1> DEFINE p == IF status \in {"absent", "deleting"} THEN <<>>
                ELSE DeleteNodeGroups \o WaitForNodeGroupsGone \o DeleteRole("node")
                     \o <<Call("deleteCluster", "", {}, Named("pool", PoolNames))>>
           d(r) == DeleteRole(r)
           q == IF status = "absent" THEN <<>> ELSE DeleteOIDCProvider
           s1 == p \o d("cluster")
           s2 == s1 \o d("autoNode")
           s3 == s2 \o d("ebs-csi")
           s4 == s3 \o d("efs-csi")
           s5 == s4 \o d("external-dns")
           s6 == s5 \o d("cluster-autoscaler")
           s7 == s6 \o q
<1>1. /\ Fine(p, h) /\ Fact("asked") \in h \cup Given(p)
      /\ status \notin {"absent", "deleting"} => RoleParts("node") \subseteq Cleared(p)
  <2>1. CASE status \in {"absent", "deleting"}
    BY <2>1, Nothing
  <2>2. CASE status \notin {"absent", "deleting"}
    BY <2>2, AwsDeletesCluster
  <2> QED
    BY <2>1, <2>2
<1>2. ASSUME NEW r \in RoleNames \ {"node"}, NEW g, Fact("asked") \in g
      PROVE  Fine(d(r), g)
  BY <1>2, DeletesRole
<1>3. ASSUME NEW r \in RoleNames \ {"node"} PROVE {Role(r)} \cup PartsOf(r) \subseteq Cleared(d(r))
  <2>1. \A g : Fact("asked") \in {Fact("asked")}
    OBVIOUS
  <2> QED
    BY <2>1, DeletesRole
<1>4. \A g : Fine(q, g)
  <2>1. CASE status = "absent"
    BY <2>1, Nothing
  <2>2. CASE status # "absent"
    <3> DEFINE w == {<<"oidc">>}
               n == {}
    <3>1. \A x \in w : x[1] = "oidc"
      OBVIOUS
    <3>2. \A x \in Possible : Parents(x) \cap w = {}
      BY RoleChildren
    <3>3. q = <<Discard(w, n)>>
      BY <2>2 DEF DeleteOIDCProvider
    <3>4. w \cap NodeRole = {} /\ Role("cluster") \notin w
      BY <3>1, OwnParts DEF NodeRole, Role
    <3>5. w \cap (SubnetsOf(spec) \cup {<<"subnetwork">>}) = {} /\ <<"group">> \notin w
      BY <3>1 DEF SubnetsOf, Subnet
    <3> HIDE DEF w, n
    <3>6. \A g : Fit(Discard(w, n)) /\ Needs(Discard(w, n)) \subseteq g
      BY <3>2, <3>4, <3>5, Discards
    <3> QED
      BY <3>3, <3>6, Single
  <2> QED
    BY <2>1, <2>2
<1>5. AwsDelete = s7
  BY DEF AwsDelete
<1> HIDE DEF p, d, q
<1> DEFINE in(s) == Fine(s, h) /\ Fact("asked") \in h \cup Given(s)
<1>6. ASSUME NEW s, in(s), NEW r \in RoleNames \ {"node"}
      PROVE  in(s \o d(r)) /\ Cleared(s \o d(r)) = Cleared(s) \cup Cleared(d(r))
  <2>1. Fine(d(r), h \cup Given(s))
    BY <1>2, <1>6
  <2>2. /\ Fine(s \o d(r), h) /\ Given(s \o d(r)) = Given(s) \cup Given(d(r))
        /\ Cleared(s \o d(r)) = Cleared(s) \cup Cleared(d(r))
    BY <1>6, <2>1, Then
  <2> QED
    BY <1>6, <2>2
<1> HIDE DEF in
<1>7. in(s1) /\ Cleared(s1) = Cleared(p) \cup Cleared(d("cluster"))
  BY <1>1, <1>6 DEF RoleNames, in
<1> HIDE DEF s1
<1>8. in(s2) /\ Cleared(s2) = Cleared(s1) \cup Cleared(d("autoNode"))
  BY <1>6, <1>7 DEF RoleNames
<1> HIDE DEF s2
<1>9. in(s3) /\ Cleared(s3) = Cleared(s2) \cup Cleared(d("ebs-csi"))
  BY <1>6, <1>8 DEF RoleNames
<1> HIDE DEF s3
<1>10. in(s4) /\ Cleared(s4) = Cleared(s3) \cup Cleared(d("efs-csi"))
  BY <1>6, <1>9 DEF RoleNames
<1> HIDE DEF s4
<1>11. in(s5) /\ Cleared(s5) = Cleared(s4) \cup Cleared(d("external-dns"))
  BY <1>6, <1>10 DEF RoleNames
<1> HIDE DEF s5
<1>12. in(s6) /\ Cleared(s6) = Cleared(s5) \cup Cleared(d("cluster-autoscaler"))
  BY <1>6, <1>11 DEF RoleNames
<1> HIDE DEF s6
<1>13. Fine(s7, h) /\ Cleared(s7) = Cleared(s6) \cup Cleared(q)
  BY <1>4, <1>12, Then DEF in
<1> HIDE DEF s7
<1>14. \A r \in RoleNames \ {"node"} : Cleared(d(r)) \subseteq Cleared(s7)
  BY <1>7, <1>8, <1>9, <1>10, <1>11, <1>12, <1>13 DEF RoleNames
<1>15. Cleared(p) \subseteq Cleared(s7)
  BY <1>7, <1>8, <1>9, <1>10, <1>11, <1>12, <1>13
<1> QED
  BY <1>1, <1>3, <1>5, <1>13, <1>14, <1>15

LEMMA NoParents ==
  ASSUME NEW x, Inside(x) \/ x[1] \in {"residue", "profile", "oidc", "vpc", "gateway", "network", "group", "role"}
  PROVE  Parents(x) = {}
BY DEF Inside, Parents

\* What is part of what in a VPC.
LEMMA VPCChildren ==
  ASSUME spec.cloud = "aws", NEW x \in Possible
  PROVE  /\ <<"vpc">> \in Parents(x) =>
              x \in {<<"dnsSupport">>, <<"dnsHostnames">>, <<"attached">>, <<"routeTable">>,
                     <<"securityGroup">>, Subnet("a"), Subnet("b")}
         /\ \A az : Subnet(az) \in Parents(x) => x \in {Public(az), Routed(az)}
         /\ <<"routeTable">> \in Parents(x) => x \in {<<"defaultRoute">>, Routed("a"), Routed("b")}
         /\ \A y \in Parents(x) : y[1] \in {"vpc", "subnet", "routeTable", "role"}
<1> DEFINE goal == /\ <<"vpc">> \in Parents(x) =>
                        x \in {<<"dnsSupport">>, <<"dnsHostnames">>, <<"attached">>, <<"routeTable">>,
                               <<"securityGroup">>, Subnet("a"), Subnet("b")}
                   /\ \A az : Subnet(az) \in Parents(x) => x \in {Public(az), Routed(az)}
                   /\ <<"routeTable">> \in Parents(x) => x \in {<<"defaultRoute">>, Routed("a"), Routed("b")}
                   /\ \A y \in Parents(x) : y[1] \in {"vpc", "subnet", "routeTable", "role"}
<1>1. \A az, bz : /\ Subnet(az)[1] = "subnet" /\ Subnet(az) # <<"vpc">> /\ Subnet(az) # <<"routeTable">>
                  /\ Subnet(az) = Subnet(bz) => az = bz
  BY DEF Subnet
<1>2. CASE Inside(x) \/ x \in {<<"residue">>, <<"profile", "autoNode">>, <<"oidc">>, <<"vpc">>, <<"gateway">>}
  BY <1>2, NoParents
<1>3. CASE \E r \in RoleNames : x \in RoleParts(r)
  <2>1. PICK r \in RoleNames : Parents(x) \subseteq {Role(r)}
    BY <1>3, OwnParts
  <2>2. Role(r)[1] = "role" /\ Role(r) # <<"vpc">> /\ Role(r) # <<"routeTable">> /\ \A az : Role(r) # Subnet(az)
    BY DEF Role, Subnet
  <2> QED
    BY <2>1, <2>2
<1>4. CASE x \in {<<"dnsSupport">>, <<"dnsHostnames">>, <<"attached">>, <<"routeTable">>, <<"securityGroup">>}
  <2>1. Parents(x) = {<<"vpc">>}
    BY <1>4, AwsNetworkParents
  <2>2. <<"vpc">> # <<"routeTable">> /\ <<"vpc">>[1] = "vpc"
    OBVIOUS
  <2> QED
    BY <1>1, <1>4, <2>1, <2>2
<1>5. CASE x = <<"defaultRoute">>
  <2>1. Parents(x) = {<<"routeTable">>}
    BY <1>5, AwsNetworkParents
  <2>2. <<"vpc">> # <<"routeTable">> /\ <<"routeTable">>[1] = "routeTable"
    OBVIOUS
  <2> QED
    BY <1>1, <1>5, <2>1, <2>2
<1>6. ASSUME NEW az \in {"a", "b"}, x \in {Subnet(az), Public(az), Routed(az)} PROVE goal
  <2>1. <<"vpc">> # <<"routeTable">> /\ <<"routeTable">>[1] = "routeTable" /\ <<"vpc">>[1] = "vpc"
    OBVIOUS
  <2>2. CASE x = Subnet(az)
    BY <1>1, <2>1, <2>2, AwsNetworkParents
  <2>3. CASE x = Public(az)
    BY <1>1, <2>1, <2>3, AwsNetworkParents
  <2>4. CASE x = Routed(az)
    BY <1>1, <2>1, <2>4, AwsNetworkParents
  <2> QED
    BY <1>6, <2>2, <2>3, <2>4
<1>7. x \in AwsNetworkParts =>
        \/ x \in {<<"dnsSupport">>, <<"dnsHostnames">>, <<"attached">>, <<"routeTable">>,
                  <<"vpc">>, <<"gateway">>, <<"defaultRoute">>}
        \/ \E az \in {"a", "b"} : x \in {Subnet(az), Public(az), Routed(az)}
  BY DEF AwsNetworkParts
<1> QED
  BY <1>2, <1>3, <1>4, <1>5, <1>6, <1>7, AwsPossible

\* Nothing of a VPC is there without it.
LEMMA VPCRoot ==
  ASSUME TypeOK, spec.cloud = "aws", Rooted, NEW x \in have \cap NetworkLike
  PROVE  <<"vpc">> \in have /\ x \in AwsNetworkParts \cup {<<"securityGroup">>}
<1>1. \A y \in have : Parents(y) \subseteq have
  BY DEF Rooted
<1>2. x \in AwsNetworkParts \cup {<<"securityGroup">>}
  <2>1. x \in Possible /\ x[1] \in {"vpc", "dnsSupport", "dnsHostnames", "attached",
          "routeTable", "defaultRoute", "subnet", "publicIP", "routed", "securityGroup",
          "network", "subnetwork", "router", "firewall", "group", "vnet"}
    BY DEF NetworkLike
  <2>2. ~Inside(x)
    BY <2>1 DEF Inside
  <2>3. \A r : x \notin RoleParts(r)
    BY <2>1, OwnParts
  <2> QED
    BY <2>1, <2>2, <2>3, AwsPossible
<1>3. x # <<"gateway">>
  BY DEF NetworkLike
<1>4. x = <<"vpc">> => <<"vpc">> \in have
  OBVIOUS
<1>5. ASSUME x \in {<<"dnsSupport">>, <<"dnsHostnames">>, <<"attached">>, <<"routeTable">>, <<"securityGroup">>}
      PROVE  <<"vpc">> \in have
  BY <1>1, <1>5, AwsNetworkParents
<1>6. ASSUME x = <<"defaultRoute">> PROVE <<"vpc">> \in have
  <2>1. <<"routeTable">> \in have
    BY <1>1, <1>6, AwsNetworkParents
  <2> QED
    BY <1>1, <2>1, AwsNetworkParents
<1>7. ASSUME NEW az \in {"a", "b"}, x \in {Subnet(az), Public(az), Routed(az)} PROVE <<"vpc">> \in have
  BY <1>1, <1>7, AwsNetworkParents
<1> QED
  BY <1>2, <1>3, <1>4, <1>5, <1>6, <1>7 DEF AwsNetworkParts

\* A discard of parts of a network, after the cluster.
LEMMA DiscardsNetwork ==
  ASSUME run = "delete", NEW w, \A x \in w : x[1] \notin {"role", "policy", "inline", "group"},
         NEW n, \A x \in Possible : Parents(x) \cap w # {} => x \in w \cup n, NEW h, Fact("gone") \in h,
         NEW c, c \in {Discard(w, n), Retry(w, n)}
  PROVE  /\ Fit(c) /\ Needs(c) \subseteq h /\ Clears(c) = w
         /\ Fine(<<c>>, h) /\ Cleared(<<c>>) = w
<1>1. w \cap NodeRole = {} /\ Role("cluster") \notin w
  BY OwnParts DEF NodeRole, Role
<1>2. <<"group">> \notin w
  <2>1. <<"group">>[1] = "group"
    OBVIOUS
  <2> QED
    BY <2>1
<1>3. Fit(c) /\ Needs(c) \subseteq h /\ Clears(c) = w
  BY <1>1, <1>2, Discards
<1> QED
  BY <1>3, Single

LEMMA AwsDeletesNetwork ==
  ASSUME run = "delete", TypeOK, spec.cloud = "aws", Rooted, NEW h, Fact("gone") \in h
  PROVE  Fine(AwsDeleteNetwork, h) /\ have \cap NetworkLike \subseteq Cleared(AwsDeleteNetwork)
<1>1. CASE <<"vpc">> \notin have
  <2>1. have \cap NetworkLike = {}
    BY <1>1, VPCRoot
  <2> QED
    BY <1>1, <2>1, Nothing DEF AwsDeleteNetwork
<1>2. CASE <<"vpc">> \in have
  <2> DEFINE sg == DeleteSecurityGroups
             gw == DeleteInternetGateways
             sb == DeleteSubnets
             rt == DeleteRouteTables
             vpc == DeleteVPC
  <2>1. \A g : Fine(sg, h \cup g) /\ Cleared(sg) = {<<"securityGroup">>}
    <3> DEFINE w == {<<"securityGroup">>}
               n == {<<"residue">>}
               c == Discard(w, n)
    <3>1. \A x \in w : x[1] = "securityGroup"
      OBVIOUS
    <3>2. sg = <<c>>
      BY DEF DeleteSecurityGroups
    <3> HIDE DEF w, n
    <3>3. \A x \in Possible : Parents(x) \cap w = {}
      BY <3>1, VPCChildren
    <3>4. \A g : Fine(<<c>>, h \cup g) /\ Cleared(<<c>>) = w
      BY <3>1, <3>3, DiscardsNetwork
    <3> QED
      BY <3>2, <3>4 DEF w
  <2>2. \A g : Fine(gw, h \cup g) /\ have \cap {<<"attached">>} \subseteq Cleared(gw)
    <3>1. CASE <<"attached">> \notin have
      BY <3>1, Nothing DEF DeleteInternetGateways
    <3>2. CASE <<"attached">> \in have
      <4> DEFINE w1 == {<<"attached">>}
                 n1 == {}
                 w2 == {<<"gateway">>}
                 n2 == {<<"attached">>}
                 a == Discard(w1, n1)
                 b == Discard(w2, n2)
      <4>1. (\A x \in w1 : x[1] = "attached") /\ (\A x \in w2 : x[1] = "gateway")
        OBVIOUS
      <4>2. gw = <<a, b>>
        BY <3>2 DEF DeleteInternetGateways
      <4> HIDE DEF w1, w2, n1, n2
      <4>3. \A x \in Possible : Parents(x) \cap w1 = {} /\ Parents(x) \cap w2 = {}
        BY <4>1, VPCChildren
      <4>4. \A g : Fit(a) /\ Needs(a) \subseteq h \cup g /\ Clears(a) = w1
        BY <4>1, <4>3, DiscardsNetwork
      <4>5. \A g : Fit(b) /\ Needs(b) \subseteq h \cup g /\ Clears(b) = w2
        BY <4>1, <4>3, DiscardsNetwork
      <4> HIDE DEF a, b, gw
      <4> QED
        BY <4>2, <4>4, <4>5, Pair DEF w1
    <3> QED
      BY <3>1, <3>2
  <2>3. \A g : /\ Fine(sb, h \cup g)
               /\ \A az \in {"a", "b"} : {Subnet(az), Public(az), Routed(az)} \subseteq Cleared(sb)
    <3> DEFINE w(az) == {Subnet(az), Public(az), Routed(az)}
               n == {<<"residue">>}
               op(az) == Discard(w(az), n)
               f == [i \in DOMAIN Zones |-> op(Zones[i])]
    <3>1. sb = f
      BY DEF DeleteSubnets, ForEach
    <3>2. DOMAIN Zones = 1..2 /\ Zones[1] = "a" /\ Zones[2] = "b"
      BY DEF Zones
    <3>3. \A az : \A x \in w(az) : x[1] \in {"subnet", "publicIP", "routed"}
      BY DEF Subnet, Public, Routed
    <3>4. \A az : \A x \in Possible : Parents(x) \cap w(az) # {} => x \in w(az)
      <4> SUFFICES ASSUME NEW az, NEW x \in Possible, NEW y \in Parents(x) \cap w(az) PROVE x \in w(az)
        OBVIOUS
      <4>1. y = Subnet(az)
        <5>1. Public(az)[1] = "publicIP" /\ Routed(az)[1] = "routed"
          BY DEF Public, Routed
        <5> QED
          BY <5>1, VPCChildren
      <4> QED
        BY <4>1, VPCChildren
    <3> HIDE DEF w, n
    <3>5. \A az, g : Fit(op(az)) /\ Needs(op(az)) \subseteq h \cup g /\ Clears(op(az)) = w(az)
      BY <3>3, <3>4, DiscardsNetwork
    <3> HIDE DEF op
    <3>6. f = <<op("a"), op("b")>>
      BY <3>2
    <3> HIDE DEF f
    <3>7. \A g : Fine(f, h \cup g) /\ Cleared(f) = w("a") \cup w("b")
      BY <3>5, <3>6, Pair
    <3> QED
      BY <3>1, <3>7 DEF w
  <2>4. \A g : Fine(rt, h \cup g) /\ Cleared(rt) = {<<"routeTable">>, <<"defaultRoute">>}
    <3> DEFINE w == {<<"routeTable">>, <<"defaultRoute">>}
               n == Named("routed", {"a", "b"})
               c == Discard(w, n)
    <3>1. \A x \in w : x = <<"routeTable">> \/ x[1] = "defaultRoute"
      OBVIOUS
    <3>2. \A x \in w : x[1] \in {"routeTable", "defaultRoute"}
      OBVIOUS
    <3>3. rt = <<c>>
      BY DEF DeleteRouteTables
    <3>4. Routed("a") \in n /\ Routed("b") \in n /\ <<"defaultRoute">> \in w
      BY DEF Named, Routed
    <3> HIDE DEF w, n
    <3>5. ASSUME NEW x \in Possible, NEW y \in Parents(x) \cap w PROVE x \in w \cup n
      <4>1. y = <<"routeTable">>
        BY <3>1, VPCChildren
      <4> QED
        BY <3>4, <4>1, VPCChildren
    <3>6. \A g : Fine(<<c>>, h \cup g) /\ Cleared(<<c>>) = w
      BY <3>2, <3>5, DiscardsNetwork
    <3> QED
      BY <3>3, <3>6 DEF w
  <2>5. \A g : Fine(vpc, h \cup g) /\ Cleared(vpc) = {<<"vpc">>, <<"dnsSupport">>, <<"dnsHostnames">>}
    <3> DEFINE w == {<<"vpc">>, <<"dnsSupport">>, <<"dnsHostnames">>}
               n == {<<"securityGroup">>, <<"attached">>, <<"routeTable">>,
                     <<"residue">>, Subnet("a"), Subnet("b")}
               c == Retry(w, n)
    <3>1. \A x \in w : x = <<"vpc">> \/ x[1] \in {"dnsSupport", "dnsHostnames"}
      OBVIOUS
    <3>2. \A x \in w : x[1] \in {"vpc", "dnsSupport", "dnsHostnames"}
      OBVIOUS
    <3>3. vpc = <<c>>
      BY DEF DeleteVPC
    <3>4. \A x \in {<<"dnsSupport">>, <<"dnsHostnames">>, <<"attached">>, <<"routeTable">>,
                    <<"securityGroup">>, Subnet("a"), Subnet("b")} : x \in w \cup n
      OBVIOUS
    <3> HIDE DEF w, n
    <3>5. ASSUME NEW x \in Possible, NEW y \in Parents(x) \cap w PROVE x \in w \cup n
      <4>1. y = <<"vpc">>
        BY <3>1, VPCChildren
      <4> QED
        BY <3>4, <4>1, VPCChildren
    <3>6. \A g : Fine(<<c>>, h \cup g) /\ Cleared(<<c>>) = w
      BY <3>2, <3>5, DiscardsNetwork
    <3> QED
      BY <3>3, <3>6 DEF w
  <2>6. AwsDeleteNetwork = ((((sg \o gw) \o sb) \o rt) \o vpc)
    BY <1>2 DEF AwsDeleteNetwork
  <2> HIDE DEF sg, gw, sb, rt, vpc
  <2> DEFINE s1 == sg \o gw
             s2 == s1 \o sb
             s3 == s2 \o rt
             s4 == s3 \o vpc
  <2>7. Fine(s1, h) /\ Cleared(s1) = Cleared(sg) \cup Cleared(gw)
    <3>1. Fine(sg, h)
      BY <2>1, Finer
    <3> QED
      BY <2>2, <3>1, Then
  <2> HIDE DEF s1
  <2>8. Fine(s2, h) /\ Cleared(s2) = Cleared(s1) \cup Cleared(sb)
    BY <2>3, <2>7, Then
  <2> HIDE DEF s2
  <2>9. Fine(s3, h) /\ Cleared(s3) = Cleared(s2) \cup Cleared(rt)
    BY <2>4, <2>8, Then
  <2> HIDE DEF s3
  <2>10. Fine(s4, h) /\ Cleared(s4) = Cleared(s3) \cup Cleared(vpc)
    BY <2>5, <2>9, Then
  <2>11. AwsDeleteNetwork = s4
    BY <2>6 DEF s1, s2, s3
  <2> HIDE DEF s4
  <2>12. ASSUME NEW x \in have \cap NetworkLike PROVE x \in Cleared(s4)
    <3>1. x \in AwsNetworkParts \cup {<<"securityGroup">>} /\ x # <<"gateway">>
      BY VPCRoot DEF NetworkLike
    <3>2. \/ x = <<"securityGroup">> \/ x \in have \cap {<<"attached">>}
          \/ x \in {<<"routeTable">>, <<"defaultRoute">>} \/ x \in {<<"vpc">>, <<"dnsSupport">>, <<"dnsHostnames">>}
          \/ \E az \in {"a", "b"} : x \in {Subnet(az), Public(az), Routed(az)}
      BY <3>1 DEF AwsNetworkParts
    <3> QED
      BY <2>1, <2>2, <2>3, <2>4, <2>5, <2>7, <2>8, <2>9, <2>10, <3>2, ZenonT(40)
  <2> QED
    BY <2>10, <2>11, <2>12
<1> QED
  BY <1>1, <1>2

LEMMA GcpChildren ==
  ASSUME spec.cloud = "gcp", NEW x \in Possible
  PROVE  /\ \A y \in Parents(x) : y[1] \in {"vpc", "network"}
         /\ <<"network">> \in Parents(x) => x \in {<<"firewall">>, <<"router">>, <<"subnetwork">>}
<1>1. CASE Inside(x) \/ x \in {<<"network">>, <<"residue">>, <<"profile", "autoNode">>}
  BY <1>1, NoParents
<1>2. CASE x \in {<<"subnetwork">>, <<"router">>, <<"firewall">>}
  <2>1. Parents(x) = {<<"network">>}
    BY <1>2 DEF Parents
  <2> QED
    BY <1>2, <2>1
<1>3. CASE x = <<"securityGroup">>
  <2>1. Parents(x) = {<<"vpc">>}
    BY <1>3 DEF Parents
  <2> QED
    BY <2>1
<1> QED
  BY <1>1, <1>2, <1>3, GcpPossible

LEMMA GcpDeletesNetwork ==
  ASSUME run = "delete", TypeOK, spec.cloud = "gcp", Rooted, NEW h, Fact("gone") \in h
  PROVE  Fine(GcpDeleteNetwork, h) /\ have \cap NetworkLike \subseteq Cleared(GcpDeleteNetwork)
<1>1. ASSUME NEW x \in have \cap NetworkLike
      PROVE  <<"network">> \in have /\ x \in {<<"network">>, <<"subnetwork">>, <<"router">>, <<"firewall">>}
  <2>1. Parents(x) \subseteq have /\ have \subseteq Possible
    BY DEF Rooted, TypeOK
  <2>2. ~Inside(x) /\ x \in Possible /\ x[1] \notin {"residue", "profile"}
    BY DEF NetworkLike, Inside
  <2>3. x # <<"securityGroup">>
    <3>1. <<"vpc">> \notin Possible
      BY GcpPossible DEF Inside
    <3>2. x = <<"securityGroup">> => Parents(x) = {<<"vpc">>}
      BY DEF Parents
    <3> QED
      BY <2>1, <3>1, <3>2
  <2>4. x \in {<<"network">>, <<"subnetwork">>, <<"router">>, <<"firewall">>}
    BY <2>2, <2>3, GcpPossible
  <2>5. x # <<"network">> => Parents(x) = {<<"network">>}
    BY <2>4 DEF Parents
  <2> QED
    BY <2>1, <2>4, <2>5
<1>2. CASE <<"network">> \notin have
  BY <1>1, <1>2, Nothing DEF GcpDeleteNetwork
<1>3. CASE <<"network">> \in have
  <2> DEFINE one(k, n) == <<Discard({<<k>>}, n)>>
             fw == DeleteEgressFirewall
             ro == DeleteRouter
             sn == DeleteSubnetwork
             net == DeleteGcpNetwork
  <2>1. ASSUME NEW k \in {"firewall", "router", "subnetwork"}, NEW n
        PROVE  \A g : Fine(one(k, n), h \cup g) /\ Cleared(one(k, n)) = {<<k>>}
    <3> DEFINE w == {<<k>>}
    <3>1. \A x \in w : x[1] = k
      OBVIOUS
    <3> HIDE DEF w
    <3>2. \A x \in Possible : Parents(x) \cap w = {}
      BY <3>1, GcpChildren
    <3>3. \A g : Fine(<<Discard(w, n)>>, h \cup g) /\ Cleared(<<Discard(w, n)>>) = w
      BY <3>1, <3>2, DiscardsNetwork
    <3> QED
      BY <3>3 DEF w
  <2>2. \A g : Fine(net, h \cup g) /\ Cleared(net) = {<<"network">>}
    <3> DEFINE w == {<<"network">>}
               n == {<<"firewall">>, <<"router">>, <<"subnetwork">>, <<"residue">>}
    <3>1. \A x \in w : x = <<"network">> /\ x[1] = "network"
      OBVIOUS
    <3>2. net = <<Retry(w, n)>>
      BY DEF DeleteGcpNetwork
    <3>3. \A x \in {<<"firewall">>, <<"router">>, <<"subnetwork">>} : x \in n
      OBVIOUS
    <3> HIDE DEF w, n
    <3>4. \A x \in Possible : Parents(x) \cap w # {} => x \in n
      BY <3>1, <3>3, GcpChildren
    <3>5. \A g : Fine(<<Retry(w, n)>>, h \cup g) /\ Cleared(<<Retry(w, n)>>) = w
      BY <3>1, <3>4, DiscardsNetwork
    <3> QED
      BY <3>2, <3>5 DEF w
  <2>3. /\ fw = one("firewall", {}) /\ ro = one("router", {})
        /\ sn = one("subnetwork", Named("pool", PoolNames))
    BY DEF DeleteEgressFirewall, DeleteRouter, DeleteSubnetwork
  <2>4. GcpDeleteNetwork = (((fw \o ro) \o sn) \o net)
    BY <1>3 DEF GcpDeleteNetwork
  <2> HIDE DEF one
  <2>5. /\ \A g : Fine(fw, h \cup g) /\ Cleared(fw) = {<<"firewall">>}
        /\ \A g : Fine(ro, h \cup g) /\ Cleared(ro) = {<<"router">>}
        /\ \A g : Fine(sn, h \cup g) /\ Cleared(sn) = {<<"subnetwork">>}
    BY <2>1, <2>3
  <2> HIDE DEF fw, ro, sn, net
  <2> DEFINE s1 == fw \o ro
             s2 == s1 \o sn
             s3 == s2 \o net
  <2>6. Fine(s1, h) /\ Cleared(s1) = Cleared(fw) \cup Cleared(ro)
    <3>1. Fine(fw, h)
      BY <2>5, Finer
    <3> QED
      BY <2>5, <3>1, Then
  <2> HIDE DEF s1
  <2>7. Fine(s2, h) /\ Cleared(s2) = Cleared(s1) \cup Cleared(sn)
    BY <2>5, <2>6, Then
  <2> HIDE DEF s2
  <2>8. Fine(s3, h) /\ Cleared(s3) = Cleared(s2) \cup Cleared(net)
    BY <2>2, <2>7, Then
  <2>9. GcpDeleteNetwork = s3
    BY <2>4 DEF s1, s2
  <2> HIDE DEF s3
  <2>10. have \cap NetworkLike \subseteq Cleared(s3)
    BY <1>1, <2>2, <2>5, <2>6, <2>7, <2>8
  <2> QED
    BY <2>8, <2>9, <2>10
<1> QED
  BY <1>2, <1>3

LEMMA AzureDeletesNetwork ==
  ASSUME run = "delete", TypeOK, spec.cloud = "azure", Rooted, NEW h
  PROVE  Fine(AzureDeleteNetwork, h) /\ have \cap NetworkLike \subseteq Cleared(AzureDeleteNetwork)
<1>1. have \subseteq Possible
  BY DEF TypeOK
<1>2. CASE <<"group">> \in have
  <2> DEFINE c == Call("deleteGroup", "", {}, {})
  <2>1. c.op = "deleteGroup"
    BY DEF Call
  <2>2. AzureDeleteNetwork = <<c>>
    BY <1>2 DEF AzureDeleteNetwork
  <2> HIDE DEF c
  <2>3. Fit(c)
    BY <2>1 DEF Fit, DeleteFit
  <2>4. Needs(c) = {}
    BY <2>1 DEF Needs
  <2>5. Clears(c) = Possible
    BY <2>1 DEF Clears
  <2>6. Fine(<<c>>, h) /\ Cleared(<<c>>) = Possible
    BY <2>3, <2>4, <2>5, Single
  <2> QED
    BY <1>1, <2>2, <2>6
<1>3. CASE <<"group">> \notin have
  <2>1. ASSUME NEW x \in have \cap NetworkLike PROVE FALSE
    <3>1. \A y \in have : Parents(y) \subseteq have
      BY DEF Rooted
    <3>2. ~Inside(x) /\ x \in Possible /\ x[1] \notin {"residue", "profile"}
      BY DEF NetworkLike, Inside
    <3>3. <<"vpc">> \notin Possible
      BY AzurePossible DEF Inside
    <3>4. /\ Parents(<<"securityGroup">>) = {<<"vpc">>} /\ Parents(<<"vnet">>) = {<<"group">>}
          /\ Parents(<<"subnet">>) = {<<"vnet">>}
      BY DEF Parents
    <3>5. x \in {<<"group">>, <<"vnet">>, <<"subnet">>, <<"securityGroup">>}
      BY <3>2, AzurePossible
    <3> QED
      BY <1>1, <1>3, <3>1, <3>3, <3>4, <3>5
  <2> QED
    BY <1>3, <2>1, Nothing DEF AzureDeleteNetwork
<1> QED
  BY <1>2, <1>3

\* A function that a delete calls leaves nothing of what it is there for.
LEMMA DeletedBody ==
  ASSUME run = "delete", TypeOK, Rooted, status # "active" => have \cap NodeRole = {},
         NEW c, c.op = "do", Fit(c), Needs(c) \subseteq Facts
  PROVE  /\ Fine(Body(c.name), Facts) /\ Gives(c) = {}
         /\ have \cap Clears(c) \subseteq Cleared(Body(c.name))
<1> DEFINE name == c.name
           h == Facts
<1>1. c.op = "do" /\ c.name = name
  OBVIOUS
<1>2. name \in {"Delete", "DeleteNetwork"}
  BY <1>1 DEF Fit, DeleteFit
<1>3. status \in {"absent", "deleting"} => Fact("asked") \in h
  BY DEF Facts, When
<1> HIDE DEF h, name
<1>4. Gives(c) = {}
  BY <1>1, <1>2 DEF Gives
<1>5. CASE name = "Delete"
  <2>1. Clears(c) = RoleLike
    BY <1>1, <1>5 DEF Clears
  <2>2. CASE spec.cloud = "aws"
    <3>1. Body(name) = AwsDelete
      BY <1>5, <2>2 DEF Body, AwsBody
    <3>2. /\ Fine(AwsDelete, h)
          /\ \A r \in RoleNames \ {"node"} : {Role(r)} \cup PartsOf(r) \subseteq Cleared(AwsDelete)
          /\ status \notin {"absent", "deleting"} => RoleParts("node") \subseteq Cleared(AwsDelete)
      BY <1>3, <2>2, AwsDeletes
    <3>3. ASSUME NEW x \in have \cap RoleLike PROVE x \in Cleared(AwsDelete)
      <4>1. x \in Possible /\ x[1] \in {"role", "policy", "inline", "profile"} /\ ~Inside(x)
        BY DEF RoleLike, Inside
      <4>2. x = <<"profile", "autoNode">> \/ \E r \in RoleNames : x \in RoleParts(r)
        BY <2>2, <4>1, AwsPossible, AwsNetworkKinds
      <4>3. CASE x = <<"profile", "autoNode">>
        <5>1. x \in PartsOf("autoNode") /\ "autoNode" \in RoleNames \ {"node"}
          BY <4>3 DEF PartsOf, RoleNames
        <5> QED
          BY <3>2, <5>1
      <4>4. CASE \E r \in RoleNames : x \in RoleParts(r)
        <5>1. PICK r \in RoleNames : x \in RoleParts(r)
          BY <4>4
        <5>2. CASE r = "node"
          BY <3>2, <5>1, <5>2 DEF NodeRole
        <5>3. CASE r # "node"
          BY <3>2, <5>1, <5>3 DEF RoleParts
        <5> QED
          BY <5>2, <5>3
      <4> QED
        BY <4>2, <4>3, <4>4
    <3> QED
      BY <1>4, <2>1, <3>1, <3>2, <3>3 DEF h, name
  <2>3. CASE spec.cloud # "aws"
    <3> DEFINE k == Call("deleteCluster", "", {}, {})
    <3>1. have \cap RoleLike = {}
      <4> SUFFICES ASSUME NEW x \in have \cap RoleLike PROVE FALSE
        OBVIOUS
      <4>1. x \in Possible /\ x[1] \in {"role", "policy", "inline", "profile"} /\ ~Inside(x)
        BY DEF RoleLike, Inside
      <4>2. x = <<"profile", "autoNode">>
        BY <2>3, <4>1, CloudIs, GcpPossible, AzurePossible
      <4> QED
        BY <2>3, <4>2 DEF Rooted
    <3>2. Fine(<<k>>, h)
      <4>1. k.op = "deleteCluster"
        BY DEF Call
      <4> HIDE DEF k
      <4>2. Fit(k)
        BY <4>1 DEF Fit, DeleteFit
      <4>3. Needs(k) = {}
        BY <2>3, <4>1 DEF Needs
      <4> QED
        BY <4>2, <4>3, Single
    <3>3. Body(name) = <<>> \/ Body(name) = <<k>>
      BY <1>5, <2>3, CloudIs DEF Body, GcpBody, AzureBody, GcpDelete, AzureDelete
    <3> HIDE DEF k
    <3>4. Fine(Body(name), h)
      BY <3>2, <3>3, Nothing
    <3> QED
      BY <1>4, <2>1, <3>1, <3>4 DEF h, name
  <2> QED
    BY <2>2, <2>3
<1>6. CASE name = "DeleteNetwork"
  <2>1. Clears(c) = NetworkLike
    BY <1>1, <1>6 DEF Clears
  <2>2. Fact("gone") \in h
    <3>1. Needs(c) = {Fact("gone")}
      BY <1>1, <1>6 DEF Needs
    <3> QED
      BY <3>1 DEF h, name
  <2>3. Fine(Body(name), h) /\ have \cap NetworkLike \subseteq Cleared(Body(name))
    <3>1. CASE spec.cloud = "aws"
      BY <1>6, <2>2, <3>1, AwsDeletesNetwork DEF Body, AwsBody
    <3>2. CASE spec.cloud = "gcp"
      BY <1>6, <2>2, <3>2, GcpDeletesNetwork DEF Body, GcpBody
    <3>3. CASE spec.cloud = "azure"
      BY <1>6, <2>2, <3>3, AzureDeletesNetwork DEF Body, AzureBody
    <3> QED
      BY <3>1, <3>2, <3>3, CloudIs
  <2> QED
    BY <1>4, <2>1, <2>3 DEF h, name
<1> QED
  BY <1>2, <1>5, <1>6
-----------------------------------------------------------------------------
(* From a state to the next. *)

\* The options of the cluster never change, and what depends on them alone neither.
LEMMA SameRoles ==
  ASSUME spec' = spec
  PROVE  /\ \A r : PartsOf(r)' = PartsOf(r) /\ RoleParts(r)' = RoleParts(r)
         /\ NodeRole' = NodeRole /\ ClusterRole' = ClusterRole /\ AutoRole' = AutoRole
<1>1. \A r : PoliciesOf(r)' = PoliciesOf(r)
  BY DEF PoliciesOf
<1>2. \A r : InlinePolicy(r)' = InlinePolicy(r)
  BY DEF InlinePolicy
<1>3. \A r : PartsOf(r)' = PartsOf(r)
  BY <1>1, <1>2 DEF PartsOf, Policy
<1>4. \A r : RoleParts(r)' = RoleParts(r)
  BY <1>3 DEF RoleParts, Role
<1>5. NodeRole' = NodeRole
  BY <1>4 DEF NodeRole
<1>6. ClusterRole' = ClusterRole /\ AutoRole' = AutoRole
  BY <1>4 DEF ClusterRole, AutoRole
<1> QED
  BY <1>3, <1>4, <1>5, <1>6

LEMMA SameWanted ==
  ASSUME spec' = spec
  PROVE  /\ Wanted' = Wanted /\ Network' = Network /\ Lasting' = Lasting /\ Ground' = Ground
         /\ Possible' = Possible /\ RoleLike' = RoleLike /\ NetworkLike' = NetworkLike
         /\ SubnetsOf(spec)' = SubnetsOf(spec)
<1>1. Network' = Network
  BY DEF Network, Subnet, Public, Routed
<1>2. SubnetsOf(spec)' = SubnetsOf(spec)
  BY DEF SubnetsOf, Subnet
<1>3. Ground' = Ground
  BY <1>2 DEF Ground, Role
<1>4. Lasting' = Lasting
  BY <1>1, SameRoles DEF Lasting
<1>5. GcpWanted' = GcpWanted /\ AzureWanted' = AzureWanted
  BY DEF GcpWanted, AzureWanted, Named, PoolNames
<1>6. AwsWanted' = AwsWanted
  BY SameRoles DEF AwsWanted, AddonParts, HasIdentity, Configured, InAutoMode, IdentityRoles,
     Named, PoolNames, Subnet, Public, Routed
<1>7. Wanted' = Wanted
  BY <1>5, <1>6 DEF Wanted
<1>8. Older' = Older
  BY DEF Older
<1>9. Possible' = Possible
  BY <1>7, <1>8 DEF Possible
<1>10. RoleLike' = RoleLike /\ NetworkLike' = NetworkLike
  BY <1>9 DEF RoleLike, NetworkLike
<1> QED
  BY <1>1, <1>2, <1>3, <1>4, <1>7, <1>9, <1>10

LEMMA SameCalls ==
  ASSUME spec' = spec
  PROVE  /\ \A c : Gives(c)' = Gives(c) /\ Needs(c)' = Needs(c) /\ Clears(c)' = Clears(c)
         /\ \A r : Parents(r)' = Parents(r) /\ Inside(r)' = Inside(r)
         /\ \A s : Given(s)' = Given(s) /\ Cleared(s)' = Cleared(s)
         /\ \A s, h : Ready(s, h)' = Ready(s, h)
<1>1. \A c : Gives(c)' = Gives(c)
  BY SameRoles, SameWanted DEF Gives, Fact, Role
<1>2. \A c : Needs(c)' = Needs(c)
  BY SameRoles, SameWanted DEF Needs, Fact, Role, Inside, Named, PoolNames
<1>3. \A c : Clears(c)' = Clears(c)
  BY SameWanted DEF Clears
<1>4. \A r : Parents(r)' = Parents(r)
  BY DEF Parents, Subnet, Role
<1>5. \A s : Given(s)' = Given(s) /\ Cleared(s)' = Cleared(s)
  BY <1>1, <1>3 DEF Given, Cleared, Elements
<1>6. \A s, h : Ready(s, h)' = Ready(s, h)
  BY <1>1, <1>2 DEF Ready
<1>7. \A r : Inside(r)' = Inside(r)
  BY DEF Inside
<1> QED
  BY <1>1, <1>2, <1>3, <1>4, <1>5, <1>6, <1>7

\* A run goes on with calls that fit it, unless somebody adds a binding through IRSA.
LEMMA KeepsFine ==
  ASSUME spec' = spec, run' = run,
         \A a \in IdentityRoles : <<"irsa", a>> \in have' => <<"irsa", a>> \in have,
         NEW s, NEW h, Fine(s, h)
  PROVE  Fine(s, h)'
<1>1. ASSUME NEW c, ApplyFit(c) PROVE ApplyFit(c)'
  <2>1. CASE /\ c.op = "make" /\ c.what \subseteq Wanted
             /\ \A r \in c.what : Parents(r) \subseteq c.on
             /\ \A a \in IdentityRoles : <<"binding", a>> \in c.what => <<"irsa", a>> \notin have
    BY <2>1, SameWanted, SameCalls DEF ApplyFit
  <2>2. CASE c.op # "make"
    BY <1>1, <2>2, SameWanted, SameCalls DEF ApplyFit, Named, PoolNames
  <2> QED
    BY <1>1, <2>1, <2>2 DEF ApplyFit
<1>2. ASSUME NEW c, DeleteFit(c) PROVE DeleteFit(c)'
  BY <1>2, SameWanted, SameCalls DEF DeleteFit
<1>3. \A c \in Elements(s) : Fit(c) => Fit(c)'
  BY <1>1, <1>2 DEF Fit
<1> QED
  BY <1>3, SameCalls DEF Fine, IsSeq, Elements

LEMMA NothingPlanned ==
  ASSUME todo' = <<>>
  PROVE  Planned'
<1>1. IsSeq(<<>>)' /\ Elements(<<>>)' = {}
  BY NoCalls DEF IsSeq, Elements
<1>2. Ready(<<>>, Facts)'
  BY DEF Ready
<1>3. \A c \in Elements(todo)' : Fit(c)'
  BY <1>1 DEF Elements
<1>4. IsSeq(todo)' /\ Ready(todo, Facts)'
  BY <1>1, <1>2 DEF IsSeq, Ready, Elements
<1> QED
  BY <1>3, <1>4 DEF Planned, Fine

\* What an apply puts in place is of other kinds than what only others make.
LEMMA WantedKinds ==
  ASSUME TypeOK, NEW x \in Wanted
  PROVE  /\ x[1] \notin {"fact", "irsa", "residue", "profile", "securityGroup", "oidc", "firewall"}
         /\ x[1] = "binding" => x[2] \in IdentityRoles /\ x = <<"binding", x[2]>>
<1>1. CASE spec.cloud = "aws"
  <2>1. CASE \E a \in AwsAddons : x \in AddonParts(a)
    <3>1. PICK a \in AwsAddons : x \in AddonParts(a)
      BY <2>1
    <3>2. x[1] \in {"addon", "config", "binding"}
      BY <3>1, OwnAddonParts
    <3>3. x[1] = "binding" => a \in IdentityRoles /\ x = <<"binding", a>>
      BY <3>1 DEF AddonParts, HasIdentity
    <3> QED
      BY <3>2, <3>3
  <2>2. CASE \E r \in AwsRoles : x \in RoleParts(r)
    <3>1. x[1] \in {"role", "policy", "inline"}
      BY <2>2, OwnParts
    <3> QED
      BY <3>1
  <2>3. CASE x \in Network
    <3>1. x[1] \in NetworkKinds
      BY <2>3, NetworkParts
    <3> QED
      BY <3>1 DEF NetworkKinds
  <2>4. CASE x \in {<<"access">>} \cup PoolParts \cup {<<"association", "cluster-autoscaler">>}
    <3>1. x[1] \in {"access", "pool", "bounds", "association"}
      BY <2>4 DEF PoolParts, Named
    <3> QED
      BY <3>1
  <2> QED
    BY <1>1, <2>1, <2>2, <2>3, <2>4, AwsWants
<1>2. CASE spec.cloud # "aws"
  <2>1. x[1] \in {"access", "pool", "bounds", "network", "subnetwork", "router", "group", "vnet", "subnet"}
    BY <1>2, CloudIs DEF Wanted, GcpWanted, AzureWanted, Named
  <2> QED
    BY <2>1
<1> QED
  BY <1>1, <1>2

\* All that a wanted resource is part of is wanted.
LEMMA WantedParents ==
  ASSUME TypeOK, NEW x \in Wanted, NEW y \in Parents(x)
  PROVE  y \in Wanted /\ y[1] # "binding"
<1>1. CASE spec.cloud = "aws"
  <2>1. CASE Inside(x)
    BY <2>1, NoParents
  <2>2. CASE \E r \in AwsRoles : x \in RoleParts(r)
    <3>1. PICK r \in AwsRoles : x \in RoleParts(r)
      BY <2>2
    <3>2. y = Role(r)
      BY <3>1, OwnParts
    <3> QED
      BY <1>1, <3>2, RoleWanted DEF RoleParts, Role
  <2>3. CASE x \in Network
    <3>1. Network = {<<"vpc">>, <<"dnsSupport">>, <<"dnsHostnames">>, <<"gateway">>,
                     <<"attached">>, <<"routeTable">>, <<"defaultRoute">>}
                    \cup (UNION {{Subnet(az), Public(az), Routed(az)} : az \in {"a", "b"}})
      BY <1>1, <2>3 DEF Network
    <3>2. y \in {<<"vpc">>, <<"routeTable">>, Subnet("a"), Subnet("b")}
      <4>1. \/ x \in {<<"vpc">>, <<"gateway">>, <<"dnsSupport">>, <<"dnsHostnames">>, <<"attached">>, <<"routeTable">>}
            \/ x = <<"defaultRoute">>
            \/ \E az \in {"a", "b"} : x \in {Subnet(az), Public(az), Routed(az)}
        BY <2>3, <3>1
      <4>2. CASE x \in {<<"vpc">>, <<"gateway">>, <<"dnsSupport">>, <<"dnsHostnames">>, <<"attached">>, <<"routeTable">>}
        BY <1>1, <4>2, AwsNetworkParents
      <4>3. CASE x = <<"defaultRoute">>
        BY <1>1, <4>3, AwsNetworkParents
      <4>4. CASE \E az \in {"a", "b"} : x \in {Subnet(az), Public(az), Routed(az)}
        BY <1>1, <4>4, AwsNetworkParents
      <4> QED
        BY <4>1, <4>2, <4>3, <4>4
    <3>3. y \in Network
      BY <3>1, <3>2
    <3>4. y[1] \in {"vpc", "routeTable", "subnet"}
      BY <3>2 DEF Subnet
    <3> QED
      BY <3>3, <3>4, NetworkParts
  <2>4. Inside(x) \/ (\E r \in AwsRoles : x \in RoleParts(r)) \/ x \in Network
    <3>1. (\E a \in AwsAddons : x \in AddonParts(a)) => Inside(x)
      BY OwnAddonParts DEF Inside
    <3>2. x \in {<<"access">>} \cup PoolParts \cup {<<"association", "cluster-autoscaler">>} => Inside(x)
      BY DEF PoolParts, Named, Inside
    <3> QED
      BY <1>1, <3>1, <3>2, AwsWants
  <2> QED
    BY <2>1, <2>2, <2>3, <2>4
<1>2. CASE spec.cloud = "gcp"
  <2>1. Inside(x) \/ x = <<"network">> \/ (x \in {<<"subnetwork">>, <<"router">>} /\ ~spec.supplied)
    BY <1>2 DEF Wanted, GcpWanted, Named, Inside
  <2>2. Parents(<<"subnetwork">>) = {<<"network">>} /\ Parents(<<"router">>) = {<<"network">>}
        /\ Parents(<<"network">>) = {}
    BY DEF Parents
  <2>3. x \in {<<"subnetwork">>, <<"router">>} /\ ~spec.supplied /\ y = <<"network">>
    BY <2>1, <2>2, NoParents
  <2> QED
    BY <1>2, <2>3 DEF Wanted, GcpWanted
<1>3. CASE spec.cloud = "azure"
  <2>1. Inside(x) \/ x = <<"group">> \/ (x \in {<<"vnet">>, <<"subnet">>} /\ ~spec.supplied)
    BY <1>3 DEF Wanted, AzureWanted, Named, Inside
  <2>2. Parents(<<"vnet">>) = {<<"group">>} /\ Parents(<<"subnet">>) = {<<"vnet">>}
        /\ Parents(<<"group">>) = {}
    BY <1>3 DEF Parents
  <2>3. \/ x = <<"vnet">> /\ ~spec.supplied /\ y = <<"group">>
        \/ x = <<"subnet">> /\ ~spec.supplied /\ y = <<"vnet">>
    BY <2>1, <2>2, NoParents
  <2> QED
    BY <1>3, <2>3 DEF Wanted, AzureWanted
<1> QED
  BY <1>1, <1>2, <1>3, CloudIs

\* What no Reconcile makes again is wanted, and outside the cluster; what the
\* cluster stands on too.
LEMMA LastingParts ==
  ASSUME TypeOK
  PROVE  /\ Lasting \subseteq Wanted /\ Ground \subseteq Lasting /\ AutoRole \subseteq Lasting
         /\ \A x \in Lasting : ~Inside(x) /\ x[1] \notin {"binding", "residue", "fact"}
<1>1. ClusterRole \subseteq Wanted /\ AutoRole \subseteq Wanted
  <2>1. CASE spec.cloud = "aws"
    <3>1. "cluster" \in AwsRoles /\ (spec.auto => "autoNode" \in AwsRoles)
      BY DEF AwsRoles
    <3> QED
      BY <2>1, <3>1, RoleWanted DEF ClusterRole, AutoRole
  <2>2. CASE spec.cloud # "aws"
    BY <2>2 DEF ClusterRole, AutoRole
  <2> QED
    BY <2>1, <2>2
<1>2. Lasting \subseteq Wanted
  BY <1>1, NetworkParts DEF Lasting
<1>3. Ground \subseteq Lasting
  <2>1. CASE spec.cloud = "aws"
    <3>1. Role("cluster") \in ClusterRole
      BY <2>1 DEF ClusterRole, RoleParts
    <3>2. SubnetsOf(spec) \subseteq Network
      BY <2>1 DEF Network, SubnetsOf
    <3>3. Ground = {Role("cluster")} \cup SubnetsOf(spec)
      BY <2>1 DEF Ground
    <3> QED
      BY <3>1, <3>2, <3>3 DEF Lasting
  <2>2. CASE spec.cloud = "gcp"
    BY <2>2 DEF Ground, Lasting, Network
  <2>3. CASE spec.cloud = "azure"
    BY <2>3 DEF Ground, Lasting, Network
  <2> QED
    BY <2>1, <2>2, <2>3, CloudIs
<1>4. ASSUME NEW x \in Lasting PROVE ~Inside(x) /\ x[1] \notin {"binding", "residue", "fact"}
  <2>1. x[1] \in NetworkKinds \/ x[1] \in {"role", "policy", "inline"}
    BY NetworkParts, OwnParts DEF Lasting, ClusterRole, AutoRole
  <2> QED
    BY <2>1 DEF Inside, NetworkKinds
<1> QED
  BY <1>2, <1>3, <1>4 DEF Lasting

\* Only on EKS have nodes a role.
LEMMA NodeRoleParts ==
  ASSUME TypeOK
  PROVE  /\ spec.cloud # "aws" => Possible \cap NodeRole = {}
         /\ spec.cloud = "aws" /\ ~spec.auto => NodeRole \subseteq Wanted
         /\ \A x \in NodeRole : ~Inside(x) /\ x[1] \in {"role", "policy", "inline"}
         /\ Role("node") \in NodeRole
         /\ \A x \in NodeRole : x # Role("node") => Parents(x) = {Role("node")}
<1>1. \A x \in NodeRole : ~Inside(x) /\ x[1] \in {"role", "policy", "inline"}
  BY OwnParts DEF NodeRole
<1>2. spec.cloud # "aws" => Possible \cap NodeRole = {}
  BY <1>1, CloudIs, GcpPossible, AzurePossible
<1>3. spec.cloud = "aws" /\ ~spec.auto => NodeRole \subseteq Wanted
  <2>1. ~spec.auto => "node" \in AwsRoles
    BY DEF AwsRoles
  <2> QED
    BY <2>1, RoleWanted DEF NodeRole
<1>4. Role("node") \in NodeRole
  BY DEF NodeRole, RoleParts
<1>5. ASSUME NEW x \in NodeRole, x # Role("node") PROVE Parents(x) = {Role("node")}
  <2>1. x \in PartsOf("node") /\ x # <<"profile", "node">>
    BY <1>5 DEF NodeRole, RoleParts
  <2>2. (\E p : x = Policy("node", p)) \/ x = <<"inline", "node">>
    BY <2>1 DEF PartsOf, InlinePolicy
  <2> QED
    BY <2>2, Kinds
<1> QED
  BY <1>1, <1>2, <1>3, <1>4, <1>5

\* What a run finds of resources is there, but for a binding through IRSA.
LEMMA Found ==
  ASSUME TypeOK
  PROVE  /\ run = "apply" /\ Fact("active") \in Facts => status = "active"
         /\ run = "apply" => \A x \in Facts : x[1] \notin {"fact", "binding"} => x \in have
         /\ run = "delete" =>
              /\ Fact("poolless") \in Facts => NodePools = {}
              /\ Fact("nodeless") \in Facts => have \cap NodeRole = {}
              /\ Fact("asked") \in Facts => status \in {"absent", "deleting"}
              /\ Fact("gone") \in Facts => status = "absent"
<1>1. Fact("active") \notin Got
  <2>1. <<"fact", "active">>[1] = "fact"
    OBVIOUS
  <2>2. \A x \in have : x[1] # "fact"
    <3>1. \A x \in Wanted : x[1] # "fact"
      BY WantedKinds
    <3>2. \A x \in Possible : x[1] # "fact"
      BY <3>1, PossibleIs
    <3> QED
      BY <3>2 DEF TypeOK
  <2>3. \A x \in Got : x[1] # "fact"
    <3>1. \A x \in Got : x \in have \/ \E a : x = <<"binding", a>>
      BY DEF Got, Left
    <3> QED
      BY <2>2, <3>1
  <2> QED
    BY <2>1, <2>3 DEF Fact
<1>2. run = "apply" /\ Fact("active") \in Facts => status = "active"
  BY <1>1 DEF Facts, When
<1>3. ASSUME run = "apply", NEW x \in Facts, x[1] \notin {"fact", "binding"} PROVE x \in have
  <2>1. x \in have \/ (\E a : x = <<"binding", a>>) \/ x = <<"fact", "active">>
    BY <1>3 DEF Facts, Got, Left, When, Fact
  <2> QED
    BY <1>3, <2>1
<1>4. ASSUME run = "delete"
      PROVE  /\ Fact("poolless") \in Facts => NodePools = {}
             /\ Fact("nodeless") \in Facts => have \cap NodeRole = {}
             /\ Fact("asked") \in Facts => status \in {"absent", "deleting"}
             /\ Fact("gone") \in Facts => status = "absent"
  BY <1>4 DEF Facts, When, Fact
<1> QED
  BY <1>2, <1>3, <1>4

\* What a delete finds holds on as long as nothing is made.
LEMMA DeleteFacts ==
  ASSUME run = "delete", run' = run, spec' = spec, have' \subseteq have,
         status \in {"absent", "deleting"} => status' \in {"absent", "deleting"},
         status = "absent" => status' = "absent"
  PROVE  Facts \subseteq Facts'
<1>1. NodePools' \subseteq NodePools
  BY DEF NodePools, PoolNames
<1>2. have \cap NodeRole = {} => (have \cap NodeRole)' = {}
  BY SameRoles
<1>3. NodePools = {} => NodePools' = {}
  BY <1>1
<1>4. Facts = When("poolless", NodePools = {}) \cup When("nodeless", have \cap NodeRole = {})
       \cup When("asked", status \in {"absent", "deleting"}) \cup When("gone", status = "absent")
  BY DEF Facts
<1>5. Facts' = When("poolless", NodePools = {})' \cup When("nodeless", have \cap NodeRole = {})'
       \cup When("asked", status \in {"absent", "deleting"})' \cup When("gone", status = "absent")'
  BY DEF Facts
<1>6. When("poolless", NodePools = {}) \subseteq When("poolless", NodePools = {})'
  BY <1>3 DEF When, Fact
<1>7. When("nodeless", have \cap NodeRole = {}) \subseteq When("nodeless", have \cap NodeRole = {})'
  BY <1>2 DEF When, Fact
<1>8. /\ When("asked", status \in {"absent", "deleting"}) \subseteq When("asked", status \in {"absent", "deleting"})'
      /\ When("gone", status = "absent") \subseteq When("gone", status = "absent")'
  BY DEF When, Fact
<1> QED
  BY <1>4, <1>5, <1>6, <1>7, <1>8

\* What an apply finds holds on as long as nothing else than the residue goes.
LEMMA ApplyFacts ==
  ASSUME run = "apply", run' = run, Left \subseteq have', 
         \A a \in IdentityRoles : <<"irsa", a>> \in have => <<"irsa", a>> \in have',
         status = "active" => status' = "active"
  PROVE  Facts \subseteq Facts'
<1>1. Left \subseteq Left'
  BY DEF Left
<1>2. Got \subseteq Got'
  BY <1>1 DEF Got
<1>3. When("active", status = "active") \subseteq When("active", status = "active")'
  BY DEF When, Fact
<1>4. Facts = Got \cup When("active", status = "active")
  BY DEF Facts
<1>5. Facts' = Got' \cup When("active", status = "active")'
  BY DEF Facts
<1> QED
  BY <1>2, <1>3, <1>4, <1>5

\* What a call may be, and what it may rely on.
LEMMA FirstCall ==
  ASSUME TypeOK, Planned, todo # <<>>
  PROVE  /\ (run = "apply" /\ ApplyFit(Head(todo))) \/ (run = "delete" /\ DeleteFit(Head(todo)))
         /\ Fit(Head(todo)) /\ Needs(Head(todo)) \subseteq Facts
<1>1. Fit(Head(todo)) /\ Needs(Head(todo)) \subseteq Facts
  <2>1. Facts \cup Gives(Head(todo)) \subseteq Facts \cup Gives(Head(todo))
    OBVIOUS
  <2> QED
    BY <2>1, Rest DEF Planned
<1>2. run \in {"apply", "delete"}
  BY DEF TypeOK
<1> QED
  BY <1>1, <1>2 DEF Fit

\* A call is done.
LEMMA GoesOn ==
  ASSUME Planned, todo # <<>>, spec' = spec, run' = run, todo' = Tail(todo),
         \A a \in IdentityRoles : <<"irsa", a>> \in have' => <<"irsa", a>> \in have,
         Facts \cup Gives(Head(todo)) \subseteq Facts'
  PROVE  /\ Planned' /\ Facts \cup Given(todo) \subseteq (Facts \cup Given(todo))'
         /\ Cleared(todo) = Clears(Head(todo)) \cup Cleared(todo)'
<1>1. /\ Fine(Tail(todo), Facts')
      /\ Given(todo) = Gives(Head(todo)) \cup Given(Tail(todo))
      /\ Cleared(todo) = Clears(Head(todo)) \cup Cleared(Tail(todo))
  BY Rest DEF Planned
<1>2. Planned'
  <2>1. \A s, h : Fine(s, h) => Fine(s, h)'
    BY KeepsFine
  <2> QED
    BY <1>1, <2>1 DEF Planned
<1>3. Given(todo)' = Given(Tail(todo)) /\ Cleared(todo)' = Cleared(Tail(todo))
  BY SameCalls
<1> QED
  BY <1>1, <1>2, <1>3

\* Something happens between two calls.
LEMMA GoesOnStill ==
  ASSUME Planned, spec' = spec, run' = run, todo' = todo,
         \A a \in IdentityRoles : <<"irsa", a>> \in have' => <<"irsa", a>> \in have,
         Facts \subseteq Facts'
  PROVE  /\ Planned' /\ Facts \cup Given(todo) \subseteq (Facts \cup Given(todo))'
         /\ Cleared(todo) = Cleared(todo)'
<1>1. Fine(todo, Facts')
  BY Finer DEF Planned
<1>2. Planned'
  <2>1. \A s, h : Fine(s, h) => Fine(s, h)'
    BY KeepsFine
  <2> QED
    BY <1>1, <2>1 DEF Planned
<1>3. Given(todo)' = Given(todo) /\ Cleared(todo)' = Cleared(todo)
  BY SameCalls
<1> QED
  BY <1>2, <1>3

LEMMA ApplyingOn ==
  ASSUME Applying, spec' = spec, run' = run, record' = record, complete' = complete,
         Facts \cup Given(todo) \subseteq (Facts \cup Given(todo))',
         run = "apply" /\ complete => ~wrote' /\ status' = "active" /\ Got \subseteq Got'
  PROVE  Applying'
<1> SUFFICES ASSUME run = "apply"
             PROVE  /\ record' \in {"pending", "ready"}
                    /\ Wanted' \cup {Fact("active")} \subseteq (Facts \cup Given(todo))'
                    /\ complete' => ~wrote' /\ status' = "active" /\ Wanted' \subseteq Got'
  BY DEF Applying, Fact
<1>1. /\ record \in {"pending", "ready"}
      /\ Wanted \cup {Fact("active")} \subseteq Facts \cup Given(todo)
      /\ complete => ~wrote /\ status = "active" /\ Wanted \subseteq Got
  BY DEF Applying
<1> QED
  BY <1>1, SameWanted

LEMMA DeletingOn ==
  ASSUME Deleting, spec' = spec, run' = run, record' = record,
         Facts \cup Given(todo) \subseteq (Facts \cup Given(todo))',
         run = "delete" => have' \subseteq have /\ have' \cap Cleared(todo) \subseteq Cleared(todo)'
  PROVE  Deleting'
<1> SUFFICES ASSUME run = "delete"
             PROVE  /\ record' = "decommissioning"
                    /\ Fact("gone") \in (Facts \cup Given(todo))'
                    /\ have' \subseteq {r \in Possible' : Inside(r)'} \cup Unfindable \cup {<<"residue">>} \cup Cleared(todo)'
  BY DEF Deleting, Fact, Unfindable
<1>1. /\ record = "decommissioning"
      /\ Fact("gone") \in Facts \cup Given(todo)
      /\ have \subseteq {r \in Possible : Inside(r)} \cup Unfindable \cup {<<"residue">>} \cup Cleared(todo)
  BY DEF Deleting
<1>2. Possible' = Possible /\ \A r : Inside(r)' = Inside(r)
  BY SameWanted, SameCalls
<1>3. have' \subseteq {r \in Possible : Inside(r)} \cup Unfindable \cup {<<"residue">>} \cup Cleared(todo)'
  BY <1>1
<1> QED
  BY <1>1, <1>2, <1>3

LEMMA ParentKinds ==
  ASSUME NEW x, NEW y \in Parents(x)
  PROVE  /\ y[1] \in {"vpc", "vnet", "subnet", "routeTable", "role", "network", "group"}
         /\ ~Inside(y) /\ y # <<"residue">> /\ y # <<"gateway">>
<1>1. y[1] \in {"vpc", "vnet", "subnet", "routeTable", "role", "network", "group"}
  BY DEF Parents, Subnet, Role
<1>2. <<"residue">>[1] = "residue" /\ <<"gateway">>[1] = "gateway"
  OBVIOUS
<1> QED
  BY <1>1, <1>2 DEF Inside

LEMMA GroundParts ==
  ASSUME TypeOK
  PROVE  /\ \A x \in Ground \cup NodeRole \cup {Role("cluster")} : ~Inside(x) /\ x # <<"residue">>
         /\ spec.cloud = "aws" => Role("cluster") \in Ground
<1>1. \A x \in Ground : ~Inside(x) /\ x[1] # "residue"
  BY LastingParts
<1>2. \A x \in NodeRole : ~Inside(x) /\ x[1] # "residue"
  BY NodeRoleParts
<1>3. ~Inside(Role("cluster")) /\ Role("cluster")[1] # "residue"
  BY DEF Role, Inside
<1>4. <<"residue">>[1] = "residue"
  OBVIOUS
<1> QED
  BY <1>1, <1>2, <1>3, <1>4 DEF Ground

\* The cluster stands as firmly as before when something in it goes.
LEMMA InsideGoes ==
  ASSUME TypeOK, spec' = spec, status' = status, have' \subseteq have,
         \A x \in have \ have' : Inside(x) \/ x = <<"residue">>, Rooted, Grounded
  PROVE  Rooted' /\ Grounded'
<1>1. \A x : ~Inside(x) /\ x # <<"residue">> /\ x \in have => x \in have'
  OBVIOUS
<1>2. Rooted'
  <2>1. \A x \in have' : Parents(x) \subseteq have'
    BY <1>1, ParentKinds DEF Rooted
  <2> QED
    BY <2>1, SameCalls DEF Rooted
<1>3. NodePools' \subseteq NodePools
  BY DEF NodePools, PoolNames
<1>4. Ground' = Ground /\ NodeRole' = NodeRole /\ \A r : Inside(r)' = Inside(r)
  BY SameWanted, SameRoles, SameCalls
<1>5. \A x \in Ground \cup NodeRole \cup {Role("cluster")} : x \in have => x \in have'
  BY <1>1, GroundParts
<1>6. /\ status # "absent" => Ground \ {Role("cluster")} \subseteq have'
      /\ spec.cloud = "aws" /\ status \in {"creating", "active"} => Role("cluster") \in have'
      /\ status = "absent" => \A r \in have' : ~Inside(r)
      /\ status # "active" => have' \cap NodeRole = {}
      /\ spec.cloud = "aws" /\ NodePools' # {} => NodeRole \subseteq have'
  BY <1>3, <1>5 DEF Grounded
<1> QED
  BY <1>2, <1>4, <1>6 DEF Grounded, Role

LEMMA SameRecording ==
  ASSUME TypeOK, spec' = spec, status' = status, Recording,
         record' = record, run # "idle" \/ run' = "idle",
         record \in {"none", "pending", "ready"} => going' = {},
         \A x \in have \ have' : Inside(x) \/ x = <<"residue">>,
         have' \subseteq have
  PROVE  Recording'
<1>1. \A x \in Lasting : x \in have => x \in have'
  <2>1. <<"residue">>[1] = "residue"
    OBVIOUS
  <2> QED
    BY <2>1, LastingParts
<1>2. Lasting' = Lasting /\ AutoRole' = AutoRole /\ AutoRole \subseteq Lasting
  BY SameWanted, SameRoles, LastingParts
<1>3. /\ record = "ready" => status = "active" /\ Lasting \subseteq have'
      /\ record \in {"none", "pending", "ready"} => going' = {} /\ status # "deleting"
           /\ (status # "absent" => AutoRole \subseteq have')
      /\ record = "gone" => run' = "idle" /\ status = "absent" /\ Left' \subseteq Unfindable
  BY <1>1, <1>2 DEF Recording, Left
<1> QED
  BY <1>2, <1>3 DEF Recording, Unfindable
-----------------------------------------------------------------------------
(* The calls keep the invariant. *)

\* GKE's cluster is found wherever it is.
LEMMA FindsCluster == Described = status
BY DEF Described, GcpShown, Locate

\* A call that changes no resource and no cluster.
LEMMA QuietCall ==
  ASSUME IInv, todo # <<>>, Continue, UNCHANGED <<have, status, location, wrote>>,
         going' \subseteq PoolNames, run = "delete" \/ going' = going,
         Clears(Head(todo)) = {}, Gives(Head(todo)) \subseteq Facts
  PROVE  IInv'
<1>1. /\ TypeOK /\ Planned /\ Applying /\ Deleting /\ Rooted /\ Grounded /\ Recording
      /\ spec' = spec /\ record' = record /\ run' = run /\ implied' = implied
      /\ complete' = complete /\ faults' = faults /\ todo' = Tail(todo)
      /\ have' = have /\ status' = status /\ location' = location /\ wrote' = wrote
  BY DEF IInv, Continue, Kept
<1>2. Facts' = Facts /\ Got' = Got
  BY <1>1, SameRoles DEF Facts, Got, Left, When, NodePools, PoolNames, Fact
<1>3. run \in {"apply", "delete"}
  BY <1>1, FirstCall
<1>4. TypeOK'
  BY <1>1, <1>3, SameWanted DEF TypeOK
<1>5. /\ Planned' /\ Facts \cup Given(todo) \subseteq (Facts \cup Given(todo))'
      /\ Cleared(todo) = Clears(Head(todo)) \cup Cleared(todo)'
  BY <1>1, <1>2, GoesOn
<1>6. Applying'
  BY <1>1, <1>2, <1>5, ApplyingOn DEF Applying
<1>7. Deleting'
  BY <1>1, <1>5, DeletingOn
<1>8. Rooted' /\ Grounded'
  BY <1>1, InsideGoes
<1>9. Recording'
  BY <1>1, <1>3, SameRecording DEF Recording, Deleting
<1> QED
  BY <1>4, <1>5, <1>6, <1>7, <1>8, <1>9 DEF IInv

LEMMA WaitingActiveKeeps ==
  ASSUME IInv, WaitingActive
  PROVE  IInv'
<1>1. /\ todo # <<>> /\ Head(todo).op = "waitActive" /\ Continue /\ status = "active"
      /\ UNCHANGED <<have, status, location, wrote>> /\ going' = going /\ going \subseteq PoolNames
  BY FindsCluster DEF WaitingActive, NextCall, cloud, IInv, TypeOK
<1>2. run = "apply"
  BY <1>1, FirstCall DEF IInv, DeleteFit
<1>3. Gives(Head(todo)) \subseteq Facts
  BY <1>1, <1>2 DEF Gives, Facts, When
<1>4. Clears(Head(todo)) = {}
  BY <1>1 DEF Clears
<1> QED
  BY <1>1, <1>3, <1>4, QuietCall

LEMMA WaitingGoneKeeps ==
  ASSUME IInv, WaitingGone
  PROVE  IInv'
<1>1. /\ todo # <<>> /\ Head(todo).op = "waitGone" /\ Continue /\ status = "absent"
      /\ UNCHANGED <<have, status, location, wrote>> /\ going' = going /\ going \subseteq PoolNames
  BY FindsCluster DEF WaitingGone, NextCall, cloud, IInv, TypeOK
<1>2. run = "delete"
  BY <1>1, FirstCall DEF IInv, ApplyFit
<1>3. Gives(Head(todo)) \subseteq Facts
  BY <1>1, <1>2 DEF Gives, Facts, When
<1>4. Clears(Head(todo)) = {}
  BY <1>1 DEF Clears
<1> QED
  BY <1>1, <1>3, <1>4, QuietCall

LEMMA WaitingPoolsKeeps ==
  ASSUME IInv, WaitingPools
  PROVE  IInv'
<1>1. /\ todo # <<>> /\ Head(todo).op = "waitPools" /\ Continue /\ NodePools = {}
      /\ UNCHANGED <<have, status, location, wrote>> /\ going' = going /\ going \subseteq PoolNames
  BY DEF WaitingPools, NextCall, cloud, IInv, TypeOK
<1>2. run = "delete"
  BY <1>1, FirstCall DEF IInv, ApplyFit
<1>3. Gives(Head(todo)) \subseteq Facts
  BY <1>1, <1>2 DEF Gives, Facts, When
<1>4. Clears(Head(todo)) = {}
  BY <1>1 DEF Clears
<1> QED
  BY <1>1, <1>3, <1>4, QuietCall

LEMMA DeletingPoolKeeps ==
  ASSUME IInv, DeletingPool
  PROVE  IInv'
<1>1. /\ todo # <<>> /\ Head(todo).op = "deletePool" /\ Continue
      /\ UNCHANGED <<have, status, location, wrote>> /\ going' \subseteq PoolNames
  BY DEF DeletingPool, NextCall, IInv, TypeOK, NodePools
<1>2. run = "delete"
  BY <1>1, FirstCall DEF IInv, ApplyFit
<1>3. Gives(Head(todo)) \subseteq Facts
  BY <1>1 DEF Gives
<1>4. Clears(Head(todo)) = {}
  BY <1>1 DEF Clears
<1> QED
  BY <1>1, <1>2, <1>3, <1>4, QuietCall

LEMMA MakingKeeps ==
  ASSUME IInv, Making
  PROVE  IInv'
<1> DEFINE c == Head(todo)
<1>1. /\ TypeOK /\ Planned /\ Applying /\ Deleting /\ Rooted /\ Grounded /\ Recording
      /\ spec' = spec /\ record' = record /\ run' = run /\ implied' = implied
      /\ complete' = complete /\ faults' = faults /\ todo' = Tail(todo) /\ todo # <<>>
      /\ have' = have \cup c.what /\ status' = status /\ location' = location /\ going' = going
      /\ c.op = "make" /\ (c.what \subseteq have \/ c.on \subseteq have)
  BY DEF IInv, Making, NextCall, Continue, Kept
<1>2. wrote' = (wrote \/ ~(c.what \subseteq have))
  BY DEF Making
<1>3. run = "apply" /\ ApplyFit(c) /\ Needs(c) \subseteq Facts
  BY <1>1, FirstCall DEF DeleteFit
<1>4. /\ c.what \subseteq Wanted
      /\ \A r \in c.what : Parents(r) \subseteq c.on
      /\ \A a \in IdentityRoles : <<"binding", a>> \in c.what => <<"irsa", a>> \notin have
  BY <1>1, <1>3 DEF ApplyFit
<1> HIDE DEF c
<1>5. TypeOK'
  <2>1. have' \subseteq Possible
    BY <1>1, <1>4 DEF TypeOK, Possible
  <2>2. wrote' \in BOOLEAN
    BY <1>2 DEF TypeOK
  <2> QED
    BY <1>1, <1>3, <2>1, <2>2, SameWanted DEF TypeOK
<1>6. \A x \in c.what : x # <<"residue">> /\ x[1] # "irsa"
  <2>1. <<"residue">>[1] = "residue"
    OBVIOUS
  <2> QED
    BY <1>1, <1>4, <2>1, WantedKinds
<1>7. \A a \in IdentityRoles : <<"irsa", a>> \in have' <=> <<"irsa", a>> \in have
  BY <1>1, <1>6
<1>8. Facts \subseteq Facts' /\ Got \subseteq Got'
  <2>1. Left \subseteq have' /\ Left \subseteq Left'
    BY <1>1 DEF Left
  <2>2. Facts \subseteq Facts'
    BY <1>1, <1>3, <1>7, <2>1, ApplyFacts
  <2> QED
    BY <1>7, <2>1, <2>2 DEF Got
<1>9. Gives(c) \subseteq Facts'
  <2>1. Gives(c) = c.what
    BY <1>1 DEF Gives
  <2>2. c.what \subseteq Left'
    BY <1>1, <1>6 DEF Left
  <2> QED
    BY <1>1, <1>3, <2>1, <2>2 DEF Facts, Got
<1>10. Planned' /\ Facts \cup Given(todo) \subseteq (Facts \cup Given(todo))'
  BY <1>1, <1>7, <1>8, <1>9, GoesOn DEF c
<1>11. Applying'
  <2>1. ASSUME complete PROVE ~wrote' /\ status' = "active"
    <3>1. ~wrote /\ status = "active" /\ Wanted \subseteq Got
      BY <1>1, <1>3, <2>1 DEF Applying
    <3>2. c.what \subseteq have
      <4> SUFFICES ASSUME NEW x \in c.what PROVE x \in have
        OBVIOUS
      <4>1. x \in Got
        BY <1>4, <3>1
      <4>2. x \in have \/ \E a \in IdentityRoles : x = <<"binding", a>> /\ <<"irsa", a>> \in have
        BY <4>1 DEF Got, Left
      <4> QED
        BY <1>4, <4>2
    <3> QED
      BY <1>1, <1>2, <3>1, <3>2
  <2> QED
    BY <1>1, <1>8, <1>10, <2>1, ApplyingOn
<1>12. Deleting'
  BY <1>1, <1>3 DEF Deleting
<1>13. Rooted'
  <2>1. \A x \in have' : Parents(x) \subseteq have'
    BY <1>1, <1>4 DEF Rooted
  <2>2. \A x \in c.what : x # <<"profile", "autoNode">>
    <3>1. <<"profile", "autoNode">>[1] = "profile"
      OBVIOUS
    <3> QED
      BY <1>1, <1>4, <3>1, WantedKinds
  <2>3. <<"profile", "autoNode">> \in have' => spec.cloud = "aws"
    BY <1>1, <2>2 DEF Rooted
  <2> QED
    BY <1>1, <2>1, <2>3, SameCalls DEF Rooted
<1>14. Grounded'
  <2>1. (\E r \in c.what : Inside(r) \/ r \in NodeRole) => status = "active"
    BY <1>1, <1>3, Found DEF Needs
  <2>2. spec.cloud = "aws" /\ NodePools' # {} => NodeRole \subseteq have'
    <3>1. CASE c.what \cap Named("pool", PoolNames) = {}
      <4>1. NodePools' = NodePools
        BY <1>1, <3>1 DEF NodePools, PoolNames, Named
      <4> QED
        BY <1>1, <4>1 DEF Grounded
    <3>2. CASE spec.cloud = "aws" /\ c.what \cap Named("pool", PoolNames) # {}
      <4>1. NodeRole \subseteq Facts
        BY <1>1, <1>3, <3>2 DEF Needs
      <4>2. \A x \in NodeRole : x[1] \notin {"fact", "binding"}
        BY <1>1, NodeRoleParts
      <4>3. NodeRole \subseteq have
        BY <1>1, <1>3, <4>1, <4>2, Found
      <4> QED
        BY <1>1, <4>3
    <3> QED
      BY <3>1, <3>2
  <2>3. Ground' = Ground /\ NodeRole' = NodeRole /\ \A r : Inside(r)' = Inside(r)
    BY <1>1, SameWanted, SameRoles, SameCalls
  <2>4. /\ status # "absent" => Ground \ {Role("cluster")} \subseteq have'
        /\ spec.cloud = "aws" /\ status \in {"creating", "active"} => Role("cluster") \in have'
        /\ status = "absent" => \A r \in have' : ~Inside(r)
        /\ status # "active" => have' \cap NodeRole = {}
    BY <1>1, <2>1 DEF Grounded
  <2> QED
    BY <1>1, <2>2, <2>3, <2>4 DEF Grounded, Role
<1>15. Recording'
  <2>1. Lasting' = Lasting /\ AutoRole' = AutoRole
    BY <1>1, SameWanted, SameRoles
  <2> QED
    BY <1>1, <1>3, <2>1 DEF Recording, Applying
<1> QED
  BY <1>5, <1>10, <1>11, <1>12, <1>13, <1>14, <1>15 DEF IInv

LEMMA DiscardingKeeps ==
  ASSUME IInv, Discarding
  PROVE  IInv'
<1> DEFINE c == Head(todo)
<1>1. /\ TypeOK /\ Planned /\ Applying /\ Deleting /\ Rooted /\ Grounded /\ Recording
      /\ spec' = spec /\ record' = record /\ run' = run /\ implied' = implied
      /\ complete' = complete /\ faults' = faults /\ todo' = Tail(todo) /\ todo # <<>>
      /\ have' = have \ c.what /\ status' = status /\ location' = location /\ going' = going
      /\ wrote' = wrote
      /\ c.op \in {"discard", "retry"} /\ (c.what \cap have = {} \/ c.on \cap have = {})
  BY DEF IInv, Discarding, NextCall, Continue, Kept
<1>2. run = "delete" /\ DeleteFit(c) /\ Needs(c) \subseteq Facts
  BY <1>1, FirstCall DEF ApplyFit
<1>3. /\ \A r \in Possible : Parents(r) \cap c.what # {} => r \in c.what \cup c.on
      /\ <<"group">> \notin c.what
  BY <1>1, <1>2 DEF DeleteFit
<1>4. /\ c.what \cap NodeRole # {} => NodePools = {}
      /\ Role("cluster") \in c.what => status \in {"absent", "deleting"}
      /\ c.what \cap (SubnetsOf(spec) \cup {<<"subnetwork">>}) # {} => status = "absent"
  BY <1>1, <1>2, Found DEF Needs
<1> HIDE DEF c
<1>5. TypeOK'
  BY <1>1, <1>2, SameWanted DEF TypeOK
<1>6. Rooted'
  <2>1. ASSUME NEW x \in have', NEW y \in Parents(x) PROVE y \in have'
    <3>1. x \in have /\ x \notin c.what /\ y \in have /\ x \in Possible
      BY <1>1 DEF Rooted, TypeOK
    <3>2. CASE y \in c.what
      <4>1. x \in c.on
        BY <1>3, <3>1, <3>2
      <4> QED
        BY <1>1, <3>1, <3>2, <4>1
    <3>3. CASE y \notin c.what
      BY <1>1, <3>1, <3>3
    <3> QED
      BY <3>2, <3>3
  <2> QED
    BY <1>1, <2>1, SameCalls DEF Rooted
<1>7. Facts \subseteq Facts'
  BY <1>1, <1>2, DeleteFacts
<1>8. Gives(c) \subseteq Facts'
  <2>1. CASE Role("node") \notin c.what
    <3>1. Gives(c) = {}
      BY <1>1, <2>1 DEF Gives
    <3> QED
      BY <3>1
  <2>2. CASE Role("node") \in c.what
    <3>1. Gives(c) = {Fact("nodeless")}
      BY <1>1, <2>2 DEF Gives
    <3>2. have' \cap NodeRole = {}
      <4> SUFFICES ASSUME NEW x \in have' \cap NodeRole PROVE FALSE
        OBVIOUS
      <4>1. Role("node") \notin have'
        BY <1>1, <2>2
      <4>2. Parents(x) \subseteq have'
        BY <1>1, <1>6, SameCalls DEF Rooted
      <4> QED
        BY <1>1, <4>1, <4>2, NodeRoleParts
    <3>3. (have \cap NodeRole)' = {}
      BY <1>1, <3>2, SameRoles
    <3>4. Fact("nodeless") \in Facts'
      BY <1>1, <1>2, <3>3 DEF Facts, When, Fact
    <3> QED
      BY <3>1, <3>4
  <2> QED
    BY <2>1, <2>2
<1>9. /\ Planned' /\ Facts \cup Given(todo) \subseteq (Facts \cup Given(todo))'
      /\ Cleared(todo) = Clears(c) \cup Cleared(todo)'
  BY <1>1, <1>7, <1>8, GoesOn DEF c
<1>10. Applying'
  BY <1>1, <1>2 DEF Applying
<1>11. Deleting'
  <2>1. Clears(c) = c.what
    BY <1>1 DEF Clears
  <2> QED
    BY <1>1, <1>9, <2>1, DeletingOn
<1>12. Grounded'
  <2>1. NodePools' \subseteq NodePools
    BY <1>1 DEF NodePools, PoolNames
  <2>2. Ground' = Ground /\ NodeRole' = NodeRole /\ \A r : Inside(r)' = Inside(r)
    BY <1>1, SameWanted, SameRoles, SameCalls
  <2>3. Ground \subseteq {Role("cluster")} \cup SubnetsOf(spec) \cup {<<"subnetwork">>} \cup {<<"group">>}
    BY <1>1, CloudIs DEF Ground
  <2>4. status # "absent" => Ground \ {Role("cluster")} \subseteq have'
    BY <1>1, <1>3, <1>4, <2>3 DEF Grounded
  <2>5. spec.cloud = "aws" /\ NodePools' # {} => NodeRole \subseteq have'
    BY <1>1, <1>4, <2>1 DEF Grounded
  <2>6. /\ spec.cloud = "aws" /\ status \in {"creating", "active"} => Role("cluster") \in have'
        /\ status = "absent" => \A r \in have' : ~Inside(r)
        /\ status # "active" => have' \cap NodeRole = {}
    BY <1>1, <1>4 DEF Grounded
  <2> QED
    BY <1>1, <2>2, <2>4, <2>5, <2>6 DEF Grounded, Role
<1>13. Recording'
  BY <1>1, <1>2 DEF Recording, Deleting
<1> QED
  BY <1>5, <1>6, <1>9, <1>10, <1>11, <1>12, <1>13 DEF IInv

LEMMA CreatingClusterKeeps ==
  ASSUME IInv, CreatingCluster
  PROVE  IInv'
<1> DEFINE c == Head(todo)
<1>1. /\ TypeOK /\ Planned /\ Applying /\ Deleting /\ Rooted /\ Grounded /\ Recording
      /\ spec' = spec /\ record' = record /\ run' = run /\ implied' = implied
      /\ complete' = complete /\ faults' = faults /\ todo' = Tail(todo) /\ todo # <<>>
      /\ going' = going /\ c.op = "createCluster"
  BY DEF IInv, CreatingCluster, NextCall, Continue, Kept
<1>2. run = "apply" /\ ApplyFit(c) /\ Needs(c) \subseteq Facts
  BY <1>1, FirstCall DEF DeleteFit
<1>3. /\ c.what \subseteq {r \in Wanted : Inside(r)} \cup {<<"residue">>}
                         \cup (IF spec.cloud = "aws" THEN {<<"profile", "autoNode">>} ELSE {})
      /\ spec.cloud = "aws" => c.what \cap Named("pool", PoolNames) = {}
      /\ Ground \subseteq c.on
  BY <1>1, <1>2 DEF ApplyFit
<1>4. AutoRole \subseteq have
  <2>1. AutoRole \subseteq Facts
    BY <1>1, <1>2 DEF Needs
  <2>2. \A x \in AutoRole : x[1] \notin {"fact", "binding"}
    BY <1>1, LastingParts
  <2> QED
    BY <1>1, <1>2, <2>1, <2>2, Found
<1>5. Gives(c) = {}
  BY <1>1 DEF Gives
<1>6. CASE status # "absent"
  <2>1. UNCHANGED <<status, location, have, wrote>> /\ going \subseteq PoolNames /\ Continue
    BY <1>1, <1>6 DEF CreatingCluster, TypeOK
  <2>2. Clears(c) = {}
    BY <1>1 DEF Clears
  <2> QED
    BY <1>1, <1>5, <2>1, <2>2, QuietCall
<1>7. CASE status = "absent"
  <2>1. /\ c.on \subseteq have /\ status' = "creating" /\ location' = implied
        /\ have' = have \cup c.what /\ wrote' = TRUE
    BY <1>7 DEF CreatingCluster
  <2> HIDE DEF c
  <2>2. \A x \in c.what : \/ Inside(x) /\ x \in Wanted
                          \/ x = <<"residue">>
                          \/ x = <<"profile", "autoNode">> /\ spec.cloud = "aws"
    BY <1>3
  <2>3. TypeOK'
    <3>1. have' \subseteq Possible
      BY <1>1, <2>1, <2>2 DEF TypeOK, Possible
    <3> QED
      BY <1>1, <1>2, <2>1, <3>1, SameWanted DEF TypeOK, Status
  <2>4. \A x \in c.what : x[1] # "irsa"
    BY <1>1, <2>2, WantedKinds
  <2>5. \A a \in IdentityRoles : <<"irsa", a>> \in have' => <<"irsa", a>> \in have
    BY <2>1, <2>4
  <2>6. Facts \subseteq Facts'
    BY <1>1, <1>2, <1>7, <2>1, ApplyFacts DEF Left
  <2>7. Planned' /\ Facts \cup Given(todo) \subseteq (Facts \cup Given(todo))'
    BY <1>1, <1>5, <2>5, <2>6, GoesOn DEF c
  <2>8. Applying'
    <3>1. ~complete
      BY <1>1, <1>2, <1>7 DEF Applying
    <3> QED
      BY <1>1, <2>7, <3>1, ApplyingOn
  <2>9. Deleting'
    BY <1>1, <1>2 DEF Deleting
  <2>10. \A x \in c.what : Parents(x) = {}
    <3>1. <<"residue">>[1] = "residue" /\ <<"profile", "autoNode">>[1] = "profile"
      OBVIOUS
    <3> QED
      BY <2>2, <3>1, NoParents
  <2>11. Rooted'
    <3>1. \A x \in have' : Parents(x) \subseteq have'
      BY <1>1, <2>1, <2>10 DEF Rooted
    <3>2. <<"profile", "autoNode">> \in have' => spec.cloud = "aws"
      <4>1. ~Inside(<<"profile", "autoNode">>) /\ <<"profile", "autoNode">> # <<"residue">>
        BY DEF Inside
      <4> QED
        BY <1>1, <2>1, <2>2, <4>1 DEF Rooted
    <3> QED
      BY <1>1, <3>1, <3>2, SameCalls DEF Rooted
  <2>12. Grounded'
    <3>1. Ground' = Ground /\ NodeRole' = NodeRole /\ \A r : Inside(r)' = Inside(r)
      BY <1>1, SameWanted, SameRoles, SameCalls
    <3>2. Ground \subseteq have' /\ (spec.cloud = "aws" => Role("cluster") \in have')
      BY <1>1, <1>3, <2>1, GroundParts
    <3>3. have' \cap NodeRole = {}
      <4>1. \A x \in NodeRole : ~Inside(x) /\ x[1] \notin {"residue", "profile"}
        BY <1>1, NodeRoleParts
      <4>2. <<"residue">>[1] = "residue" /\ <<"profile", "autoNode">>[1] = "profile"
        OBVIOUS
      <4>3. c.what \cap NodeRole = {}
        BY <2>2, <4>1, <4>2
      <4> QED
        BY <1>1, <1>7, <2>1, <4>3 DEF Grounded
    <3>4. spec.cloud = "aws" /\ NodePools' # {} => NodeRole \subseteq have'
      <4>1. spec.cloud = "aws" => NodePools' = NodePools
        BY <1>3, <2>1 DEF NodePools, PoolNames, Named
      <4> QED
        BY <1>1, <2>1, <4>1 DEF Grounded
    <3> QED
      BY <1>1, <2>1, <3>1, <3>2, <3>3, <3>4 DEF Grounded, Role
  <2>13. Recording'
    <3>1. record = "pending"
      BY <1>1, <1>2, <1>7 DEF Applying, Recording
    <3>2. AutoRole' = AutoRole
      BY <1>1, SameRoles
    <3> QED
      BY <1>1, <1>4, <2>1, <3>1, <3>2 DEF Recording
  <2> QED
    BY <2>3, <2>7, <2>8, <2>9, <2>11, <2>12, <2>13 DEF IInv
<1> QED
  BY <1>6, <1>7

LEMMA DeletingClusterKeeps ==
  ASSUME IInv, DeletingCluster
  PROVE  IInv'
<1> DEFINE c == Head(todo)
<1>1. /\ TypeOK /\ Planned /\ Applying /\ Deleting /\ Rooted /\ Grounded /\ Recording
      /\ spec' = spec /\ record' = record /\ run' = run /\ implied' = implied
      /\ complete' = complete /\ faults' = faults /\ todo' = Tail(todo) /\ todo # <<>>
      /\ UNCHANGED <<have, location, going, wrote>> /\ c.op = "deleteCluster"
  BY DEF IInv, DeletingCluster, NextCall, Continue, Kept
<1>2. run = "delete" /\ Needs(c) \subseteq Facts
  BY <1>1, FirstCall DEF ApplyFit
<1>3. Clears(c) = {} /\ Gives(c) = {Fact("asked")}
  BY <1>1 DEF Clears, Gives
<1>4. CASE status \in {"absent", "deleting"}
  <2>1. status' = status /\ Continue /\ going \subseteq PoolNames
    BY <1>1, <1>4 DEF DeletingCluster, TypeOK
  <2>2. Gives(c) \subseteq Facts
    BY <1>2, <1>3, <1>4 DEF Facts, When
  <2> QED
    BY <1>1, <1>3, <2>1, <2>2, QuietCall
<1>5. CASE status \notin {"absent", "deleting"}
  <2>1. status' = "deleting" /\ status \in {"active", "failed"}
    BY <1>5 DEF DeletingCluster
  <2>2. have \cap NodeRole = {}
    <3>1. CASE spec.cloud = "aws"
      BY <1>1, <1>2, <3>1, Found DEF Needs
    <3>2. CASE spec.cloud # "aws"
      BY <1>1, <3>2, NodeRoleParts DEF TypeOK
    <3> QED
      BY <3>1, <3>2
  <2> HIDE DEF c
  <2>3. TypeOK'
    BY <1>1, <1>2, <2>1, SameWanted DEF TypeOK, Status
  <2>4. Facts \subseteq Facts'
    BY <1>1, <1>2, <2>1, DeleteFacts
  <2>5. Gives(c) \subseteq Facts'
    BY <1>1, <1>2, <1>3, <2>1 DEF Facts, When, Fact
  <2>6. /\ Planned' /\ Facts \cup Given(todo) \subseteq (Facts \cup Given(todo))'
        /\ Cleared(todo) = Cleared(todo)'
    BY <1>1, <1>3, <2>4, <2>5, GoesOn DEF c
  <2>7. Applying' /\ Deleting'
    BY <1>1, <1>2, <2>6, DeletingOn DEF Applying
  <2>8. Rooted'
    BY <1>1, SameCalls DEF Rooted
  <2>9. Grounded'
    <3>1. Ground' = Ground /\ NodeRole' = NodeRole /\ NodePools' = NodePools
      BY <1>1, SameWanted, SameRoles DEF NodePools, PoolNames
    <3> QED
      BY <1>1, <2>1, <2>2, <3>1 DEF Grounded, Role
  <2>10. Recording'
    BY <1>1, <1>2 DEF Recording, Deleting
  <2> QED
    BY <2>3, <2>6, <2>7, <2>8, <2>9, <2>10 DEF IInv
<1> QED
  BY <1>4, <1>5

LEMMA DeletingGroupKeeps ==
  ASSUME IInv, DeletingGroup
  PROVE  IInv'
<1> DEFINE c == Head(todo)
<1>1. /\ TypeOK /\ Planned /\ Applying /\ Deleting /\ Rooted /\ Grounded /\ Recording
      /\ spec' = spec /\ record' = record /\ run' = run /\ implied' = implied
      /\ complete' = complete /\ faults' = faults /\ todo' = Tail(todo) /\ todo # <<>>
      /\ have' = {} /\ status' = "absent" /\ going' = {} /\ UNCHANGED <<location, wrote>>
      /\ c.op = "deleteGroup"
  BY DEF IInv, DeletingGroup, NextCall, Continue, Kept
<1>2. run = "delete"
  BY <1>1, FirstCall DEF ApplyFit
<1>3. Gives(c) = {}
  BY <1>1 DEF Gives
<1> HIDE DEF c
<1>4. TypeOK'
  BY <1>1, <1>2, SameWanted DEF TypeOK, Status
<1>5. Facts \subseteq Facts'
  BY <1>1, <1>2, DeleteFacts
<1>6. Planned' /\ Facts \cup Given(todo) \subseteq (Facts \cup Given(todo))'
  BY <1>1, <1>3, <1>5, GoesOn DEF c
<1>7. Applying' /\ Deleting'
  BY <1>1, <1>2, <1>6, DeletingOn DEF Applying
<1>8. Rooted'
  BY <1>1 DEF Rooted
<1>9. Grounded'
  BY <1>1 DEF Grounded, NodePools
<1>10. Recording'
  BY <1>1, <1>2 DEF Recording, Deleting
<1> QED
  BY <1>4, <1>6, <1>7, <1>8, <1>9, <1>10 DEF IInv

LEMMA DoingKeeps ==
  ASSUME IInv, Doing
  PROVE  IInv'
<1> DEFINE c == Head(todo)
           b == Body(c.name)
<1>1. /\ TypeOK /\ Planned /\ Applying /\ Deleting /\ Rooted /\ Grounded /\ Recording
      /\ spec' = spec /\ record' = record /\ run' = run /\ implied' = implied
      /\ complete' = complete /\ faults' = faults /\ todo # <<>>
      /\ todo' = b \o Tail(todo) /\ c.op = "do"
      /\ have' = have /\ status' = status /\ location' = location /\ going' = going /\ wrote' = wrote
  BY DEF IInv, Doing, NextCall, cloud, Kept
<1>2. run \in {"apply", "delete"} /\ Fit(c) /\ Needs(c) \subseteq Facts
  BY <1>1, FirstCall
<1>3. Facts' = Facts /\ Got' = Got
  BY <1>1, SameRoles DEF Facts, Got, Left, When, NodePools, PoolNames, Fact
<1>4. /\ run = "apply" => Fine(b, Facts) /\ Gives(c) \subseteq Facts \cup Given(b)
      /\ run = "delete" => Fine(b, Facts) /\ Gives(c) = {} /\ have \cap Clears(c) \subseteq Cleared(b)
  <2>1. CASE run = "apply"
    <3>1. status # "absent" => AutoRole \subseteq have
      BY <1>1, <2>1 DEF Applying, Recording
    <3> QED
      BY <1>1, <1>2, <2>1, <3>1, AppliedBody
  <2>2. CASE run = "delete"
    <3>1. status # "active" => have \cap NodeRole = {}
      BY <1>1 DEF Grounded
    <3> QED
      BY <1>1, <1>2, <2>2, <3>1, DeletedBody
  <2> QED
    BY <1>2, <2>1, <2>2
<1>5. /\ Given(todo) = Gives(c) \cup Given(Tail(todo))
      /\ Cleared(todo) = Clears(c) \cup Cleared(Tail(todo))
      /\ Fine(Tail(todo), Facts \cup Given(b) \cup Gives(c))
  <2>1. Facts \cup Gives(c) \subseteq Facts \cup Given(b) \cup Gives(c)
    OBVIOUS
  <2> QED
    BY <1>1, <2>1, Rest DEF Planned
<1> HIDE DEF c, b
<1>6. Fine(Tail(todo), Facts \cup Given(b)) /\ Fine(b, Facts)
  <2>1. Facts \cup Given(b) \cup Gives(c) = Facts \cup Given(b)
    BY <1>2, <1>4
  <2> QED
    BY <1>2, <1>4, <1>5, <2>1
<1>7. /\ Fine(b \o Tail(todo), Facts)
      /\ Given(b \o Tail(todo)) = Given(b) \cup Given(Tail(todo))
      /\ Cleared(b \o Tail(todo)) = Cleared(b) \cup Cleared(Tail(todo))
  BY <1>6, Then
<1>8. Given(todo)' = Given(b) \cup Given(Tail(todo)) /\ Cleared(todo)' = Cleared(b) \cup Cleared(Tail(todo))
  BY <1>1, <1>7, SameCalls
<1>9. Facts \cup Given(todo) \subseteq (Facts \cup Given(todo))'
  BY <1>2, <1>3, <1>4, <1>5, <1>8
<1>10. Planned'
  <2>1. \A s, h : Fine(s, h) => Fine(s, h)'
    BY <1>1, KeepsFine
  <2> QED
    BY <1>1, <1>3, <1>7, <2>1 DEF Planned
<1>11. TypeOK'
  BY <1>1, <1>2, SameWanted DEF TypeOK
<1>12. Applying'
  BY <1>1, <1>3, <1>9, ApplyingOn DEF Applying
<1>13. Deleting'
  BY <1>1, <1>4, <1>5, <1>8, <1>9, DeletingOn
<1>14. Rooted' /\ Grounded'
  BY <1>1, InsideGoes
<1>15. Recording'
  BY <1>1, <1>2, SameRecording DEF Recording
<1> QED
  BY <1>10, <1>11, <1>12, <1>13, <1>14, <1>15 DEF IInv
-----------------------------------------------------------------------------
(* What goes on outside the runs keeps the invariant. *)

\* Something in the cloud changes, and what a run has found still holds.
LEMMA Meanwhile ==
  ASSUME IInv, Unheld, TypeOK', Rooted', Grounded', Recording',
         \A a \in IdentityRoles : <<"irsa", a>> \in have' => <<"irsa", a>> \in have,
         run = "apply" => Left \subseteq have' /\ (status = "active" => status' = "active"),
         run = "delete" => /\ have' \subseteq have
                           /\ status \in {"absent", "deleting"} => status' \in {"absent", "deleting"}
                           /\ status = "absent" => status' = "absent"
  PROVE  IInv'
<1>1. /\ TypeOK /\ Planned /\ Applying /\ Deleting
      /\ spec' = spec /\ record' = record /\ run' = run /\ todo' = todo /\ wrote' = wrote
      /\ complete' = complete
  BY DEF IInv, Unheld
<1>2. CASE run = "idle"
  <2>1. todo' = <<>>
    BY <1>1, <1>2 DEF TypeOK
  <2>2. Planned'
    BY <2>1, NothingPlanned
  <2>3. Applying' /\ Deleting'
    BY <1>1, <1>2 DEF Applying, Deleting
  <2> QED
    BY <2>2, <2>3 DEF IInv
<1>3. CASE run = "apply"
  <2>0. \A a \in IdentityRoles : <<"irsa", a>> \in have => <<"irsa", a>> \in have'
    <3>1. \A a : <<"irsa", a>> # <<"residue">>
      OBVIOUS
    <3> QED
      BY <1>3, <3>1 DEF Left
  <2>1. Facts \subseteq Facts'
    BY <1>1, <1>3, <2>0, ApplyFacts
  <2>2. Got \subseteq Got'
    BY <1>3, <2>0 DEF Got, Left
  <2>3. Planned' /\ Facts \cup Given(todo) \subseteq (Facts \cup Given(todo))'
    BY <1>1, <2>1, GoesOnStill
  <2>4. complete => ~wrote' /\ status' = "active"
    BY <1>1, <1>3 DEF Applying
  <2>5. Applying'
    BY <1>1, <2>2, <2>3, <2>4, ApplyingOn
  <2>6. Deleting'
    BY <1>1, <1>3 DEF Deleting
  <2> QED
    BY <2>3, <2>5, <2>6 DEF IInv
<1>4. CASE run = "delete"
  <2>1. Facts \subseteq Facts'
    BY <1>1, <1>4, DeleteFacts
  <2>2. /\ Planned' /\ Facts \cup Given(todo) \subseteq (Facts \cup Given(todo))'
        /\ Cleared(todo) = Cleared(todo)'
    BY <1>1, <2>1, GoesOnStill
  <2>3. Deleting'
    BY <1>1, <1>4, <2>2, DeletingOn
  <2>4. Applying'
    BY <1>1, <1>4 DEF Applying
  <2> QED
    BY <2>2, <2>3, <2>4 DEF IInv
<1> QED
  BY <1>1, <1>2, <1>3, <1>4 DEF TypeOK

LEMMA ClusterReadyKeeps ==
  ASSUME IInv, ClusterReady
  PROVE  IInv'
<1>1. /\ TypeOK /\ Rooted /\ Grounded /\ Recording /\ Unheld
      /\ spec' = spec /\ record' = record /\ run' = run /\ implied' = implied /\ todo' = todo
      /\ wrote' = wrote /\ complete' = complete /\ faults' = faults
      /\ status = "creating" /\ status' = "active" /\ UNCHANGED <<have, location, going>>
  BY DEF IInv, ClusterReady, Unheld
<1>2. TypeOK'
  BY <1>1, SameWanted DEF TypeOK, Status
<1>3. Rooted'
  BY <1>1, SameCalls DEF Rooted
<1>4. NodePools' = NodePools /\ Ground' = Ground /\ NodeRole' = NodeRole
  BY <1>1, SameWanted, SameRoles DEF NodePools, PoolNames
<1>5. Grounded'
  BY <1>1, <1>4 DEF Grounded, Role
<1>6. Recording'
  <2>1. AutoRole' = AutoRole
    BY <1>1, SameRoles
  <2> QED
    BY <1>1, <2>1 DEF Recording
<1>7. Left \subseteq have'
  BY <1>1 DEF Left
<1> QED
  BY <1>1, <1>2, <1>3, <1>5, <1>6, <1>7, Meanwhile

LEMMA ClusterFailsKeeps ==
  ASSUME IInv, ClusterFails
  PROVE  IInv'
<1>1. /\ TypeOK /\ Rooted /\ Grounded /\ Recording /\ Unheld
      /\ spec' = spec /\ record' = record /\ run' = run /\ implied' = implied /\ todo' = todo
      /\ wrote' = wrote /\ complete' = complete /\ faults < MaxFaults /\ faults' = faults + 1
      /\ status = "creating" /\ status' = "failed" /\ UNCHANGED <<have, location, going>>
  BY DEF IInv, ClusterFails, Unheld
<1>2. TypeOK'
  <2>1. faults' \in 0..MaxFaults
    BY <1>1, CallsAssumption DEF TypeOK
  <2> QED
    BY <1>1, <2>1, SameWanted DEF TypeOK, Status
<1>3. Rooted'
  BY <1>1, SameCalls DEF Rooted
<1>4. NodePools' = NodePools /\ Ground' = Ground /\ NodeRole' = NodeRole
  BY <1>1, SameWanted, SameRoles DEF NodePools, PoolNames
<1>5. Grounded'
  BY <1>1, <1>4 DEF Grounded, Role
<1>6. Recording'
  <2>1. AutoRole' = AutoRole
    BY <1>1, SameRoles
  <2> QED
    BY <1>1, <2>1 DEF Recording
<1>7. Left \subseteq have'
  BY <1>1 DEF Left
<1> QED
  BY <1>1, <1>2, <1>3, <1>5, <1>6, <1>7, Meanwhile

LEMMA ClusterGoesKeeps ==
  ASSUME IInv, ClusterGoes
  PROVE  IInv'
<1>1. /\ TypeOK /\ Applying /\ Rooted /\ Grounded /\ Recording /\ Unheld
      /\ spec' = spec /\ record' = record /\ run' = run /\ implied' = implied /\ todo' = todo
      /\ wrote' = wrote /\ complete' = complete /\ faults' = faults
      /\ status = "deleting" /\ status' = "absent" /\ have' = have \ InCluster /\ going' = {}
      /\ location' = location
  BY DEF IInv, ClusterGoes, Unheld
<1>2. run # "apply" /\ record \notin {"none", "pending", "ready", "gone"}
  BY <1>1 DEF Applying, Recording
<1>3. InCluster = {r \in have : Inside(r)}
  BY DEF InCluster, Inside
<1>4. TypeOK'
  BY <1>1, SameWanted DEF TypeOK, Status
<1>5. Rooted'
  <2>1. \A x \in have' : Parents(x) \subseteq have'
    BY <1>1, <1>3, ParentKinds DEF Rooted
  <2> QED
    BY <1>1, <2>1, SameCalls DEF Rooted
<1>6. Grounded'
  <2>1. \A x \in have' : ~Inside(x)
    BY <1>1, <1>3
  <2>2. NodePools' = {}
    BY <2>1 DEF NodePools, Inside
  <2>3. have' \cap NodeRole = {}
    BY <1>1 DEF Grounded
  <2> QED
    BY <1>1, <2>1, <2>2, <2>3, SameRoles, SameCalls DEF Grounded
<1>7. Recording'
  BY <1>1, <1>2 DEF Recording
<1>8. \A a \in IdentityRoles : <<"irsa", a>> \in have' => <<"irsa", a>> \in have
  BY <1>1
<1> QED
  BY <1>1, <1>2, <1>4, <1>5, <1>6, <1>7, <1>8, Meanwhile

\* Something goes that was inside the cluster, or a residue outside of it.
LEMMA SomethingGoes ==
  ASSUME IInv, Unheld, UNCHANGED <<status, location>>, faults' \in 0..MaxFaults,
         have' \subseteq have, \A x \in have \ have' : Inside(x) \/ x = <<"residue">>,
         going' \subseteq going,
         run = "apply" => Left \subseteq have'
  PROVE  IInv'
<1>1. /\ TypeOK /\ Rooted /\ Grounded /\ Recording
      /\ spec' = spec /\ record' = record /\ run' = run /\ implied' = implied /\ todo' = todo
      /\ wrote' = wrote /\ complete' = complete /\ status' = status /\ location' = location
  BY DEF IInv, Unheld
<1>2. TypeOK'
  BY <1>1, SameWanted DEF TypeOK
<1>3. Rooted' /\ Grounded'
  BY <1>1, InsideGoes
<1>4. Recording'
  <2>1. run # "idle" \/ run' = "idle"
    BY <1>1
  <2>2. record \in {"none", "pending", "ready"} => going' = {}
    BY <1>1 DEF Recording
  <2> QED
    BY <1>1, <2>1, <2>2, SameRecording
<1> QED
  BY <1>1, <1>2, <1>3, <1>4, Meanwhile

LEMMA PoolGoesKeeps ==
  ASSUME IInv, PoolGoes
  PROVE  IInv'
<1>1. PICK p \in going : going' = going \ {p} /\ have' = have \ NodePool(p)
  BY DEF PoolGoes
<1>2. \A x \in NodePool(p) : x[1] \in {"pool", "bounds"}
  BY DEF NodePool
<1>3. \A x \in have \ have' : Inside(x)
  BY <1>1, <1>2 DEF Inside
<1>4. run # "apply"
  BY <1>1 DEF IInv, Applying, Recording
<1>5. UNCHANGED <<status, location>> /\ Unheld /\ faults' \in 0..MaxFaults
  BY DEF PoolGoes, IInv, TypeOK
<1> QED
  BY <1>1, <1>3, <1>4, <1>5, SomethingGoes

LEMMA ResidueGoesKeeps ==
  ASSUME IInv, ResidueGoes
  PROVE  IInv'
<1>1. /\ have' = have \ {<<"residue">>} /\ going' = going
      /\ UNCHANGED <<status, location>> /\ Unheld /\ faults' \in 0..MaxFaults
  BY DEF ResidueGoes, IInv, TypeOK
<1>2. Left \subseteq have'
  BY <1>1 DEF Left
<1> QED
  BY <1>1, <1>2, SomethingGoes

LEMMA DriftKeeps ==
  ASSUME IInv, Drift
  PROVE  IInv'
<1>1. /\ run = "idle" /\ faults < MaxFaults /\ faults' = faults + 1 /\ going' = going
      /\ UNCHANGED <<status, location>> /\ Unheld
  BY DEF Drift
<1>2. have' \subseteq have /\ \A x \in have \ have' : Inside(x)
  <2>1. \A x \in InCluster : Inside(x)
    BY DEF InCluster, Inside
  <2>2. PICK r \in InCluster : have' = have \ ({r} \cup {x \in InCluster :
            \/ r[1] = "pool" /\ x = <<"bounds", r[2]>>
            \/ r[1] = "addon" /\ x[1] \in {"config", "binding", "irsa"} /\ x[2] = r[2]})
    BY DEF Drift
  <2> DEFINE gone == {r} \cup {x \in InCluster :
            \/ r[1] = "pool" /\ x = <<"bounds", r[2]>>
            \/ r[1] = "addon" /\ x[1] \in {"config", "binding", "irsa"} /\ x[2] = r[2]}
  <2>3. gone \subseteq InCluster
    BY <2>2
  <2> HIDE DEF gone
  <2> QED
    BY <2>1, <2>2, <2>3 DEF gone
<1>3. faults' \in 0..MaxFaults
  BY <1>1, CallsAssumption DEF IInv, TypeOK
<1> QED
  BY <1>1, <1>2, <1>3, SomethingGoes

LEMMA LoadBalancerLeftKeeps ==
  ASSUME IInv, LoadBalancerLeft
  PROVE  IInv'
<1> DEFINE new == {<<"securityGroup">>, <<"residue">>}
<1>1. /\ TypeOK /\ Rooted /\ Grounded /\ Recording /\ Unheld
      /\ spec' = spec /\ record' = record /\ run' = run /\ implied' = implied /\ todo' = todo
      /\ wrote' = wrote /\ complete' = complete /\ faults' = faults + 1 /\ faults < MaxFaults
      /\ spec.cloud = "aws" /\ status = "active" /\ <<"vpc">> \in have /\ run = "idle"
      /\ have' = have \cup new /\ UNCHANGED <<status, location, going>>
  BY DEF IInv, LoadBalancerLeft, Unheld
<1>2. TypeOK'
  <2>1. have' \subseteq Possible
    BY <1>1 DEF TypeOK, Possible
  <2>2. faults' \in 0..MaxFaults
    BY <1>1, CallsAssumption DEF TypeOK
  <2> QED
    BY <1>1, <2>1, <2>2, SameWanted DEF TypeOK
<1>3. \A x \in new : /\ Parents(x) \subseteq {<<"vpc">>}
                     /\ x[1] \in {"securityGroup", "residue"} /\ x # <<"profile", "autoNode">>
  BY DEF Parents
<1> HIDE DEF new
<1>4. Rooted'
  <2>1. \A x \in have' : Parents(x) \subseteq have'
    BY <1>1, <1>3 DEF Rooted
  <2> QED
    BY <1>1, <2>1, SameCalls
    DEF Rooted
<1>5. Grounded'
  <2>1. NodePools' = NodePools
    <3>1. \A p : <<"pool", p>> \notin new
      BY <1>3
    <3> QED
      BY <1>1, <3>1 DEF NodePools, PoolNames
  <2>2. Ground' = Ground /\ NodeRole' = NodeRole
    BY <1>1, SameWanted, SameRoles
  <2> QED
    BY <1>1, <2>1, <2>2 DEF Grounded, Role
<1>6. Recording'
  <2>1. Lasting' = Lasting /\ AutoRole' = AutoRole
    BY <1>1, SameWanted, SameRoles
  <2> QED
    BY <1>1, <2>1 DEF Recording
<1>7. \A a \in IdentityRoles : <<"irsa", a>> \in have' => <<"irsa", a>> \in have
  BY <1>1, <1>3
<1> QED
  BY <1>1, <1>2, <1>4, <1>5, <1>6, <1>7, Meanwhile
-----------------------------------------------------------------------------
(* The ends of the runs keep the invariant. *)

\* No run goes on.
LEMMA Ends ==
  ASSUME IInv, Idle, UNCHANGED <<spec, cloud, implied>>, faults' \in 0..MaxFaults,
         record' \in {"none", "pending", "ready", "decommissioning", "gone"}, Recording'
  PROVE  IInv'
<1>1. /\ TypeOK /\ Rooted /\ Grounded
      /\ spec' = spec /\ run' = "idle" /\ implied' = implied /\ todo' = <<>>
      /\ wrote' = FALSE /\ complete' = FALSE
      /\ have' = have /\ status' = status /\ location' = location /\ going' = going
  BY DEF IInv, Idle, cloud
<1>2. TypeOK'
  BY <1>1, SameWanted DEF TypeOK
<1>3. Planned'
  BY <1>1, NothingPlanned
<1>4. Applying' /\ Deleting'
  BY <1>1 DEF Applying, Deleting
<1>5. Rooted' /\ Grounded'
  BY <1>1, InsideGoes
<1> QED
  BY <1>2, <1>3, <1>4, <1>5 DEF IInv

LEMMA RunStopsKeeps ==
  ASSUME IInv, RunStops
  PROVE  IInv'
<1>1. /\ TypeOK /\ Recording /\ run # "idle" /\ Idle /\ run' = "idle"
      /\ UNCHANGED <<spec, cloud, record, implied>> /\ faults < MaxFaults /\ faults' = faults + 1
      /\ have' = have /\ status' = status /\ going' = going
  BY DEF IInv, RunStops, Idle, cloud
<1>2. faults' \in 0..MaxFaults
  BY <1>1, CallsAssumption DEF TypeOK
<1>3. Recording'
  BY <1>1, SameRecording DEF Recording
<1> QED
  BY <1>1, <1>2, <1>3, Ends DEF TypeOK

LEMMA CallRefusedKeeps ==
  ASSUME IInv, CallRefused
  PROVE  IInv'
<1>1. /\ TypeOK /\ Recording /\ run # "idle" /\ Idle /\ run' = "idle"
      /\ UNCHANGED <<spec, cloud, record, implied>> /\ faults' = faults
      /\ have' = have /\ status' = status /\ going' = going
  BY DEF IInv, CallRefused, Idle, cloud, TypeOK
<1>2. Recording'
  BY <1>1, SameRecording DEF Recording
<1> QED
  BY <1>1, <1>2, Ends DEF TypeOK

\* With no call left to make, an apply has put all in place and a delete has
\* left nothing.
LEMMA Finished ==
  ASSUME IInv, todo = <<>>
  PROVE  /\ run = "apply" => /\ status = "active" /\ Wanted \subseteq Got /\ Lasting \subseteq have
                             /\ record \in {"pending", "ready"}
         /\ run = "delete" => status = "absent" /\ Left \subseteq Unfindable
<1>1. TypeOK /\ Given(todo) = {} /\ Cleared(todo) = {}
  BY Nothing DEF IInv
<1>2. ASSUME run = "apply"
      PROVE  /\ status = "active" /\ Wanted \subseteq Got /\ Lasting \subseteq have
             /\ record \in {"pending", "ready"}
  <2>1. Wanted \cup {Fact("active")} \subseteq Facts /\ record \in {"pending", "ready"}
    BY <1>1, <1>2 DEF IInv, Applying
  <2>2. status = "active" /\ Lasting \subseteq have
    BY <1>1, <1>2, <2>1, Found, LastingParts
  <2>3. \A x \in Wanted : x[1] # "fact"
    BY <1>1, WantedKinds
  <2>4. \A x \in Facts : x \in Got \/ x = <<"fact", "active">>
    BY <1>2 DEF Facts, When, Fact
  <2>5. Wanted \subseteq Got
    BY <2>1, <2>3, <2>4
  <2> QED
    BY <2>1, <2>2, <2>5
<1>3. ASSUME run = "delete" PROVE status = "absent" /\ Left \subseteq Unfindable
  <2>1. /\ Fact("gone") \in Facts
        /\ have \subseteq {r \in Possible : Inside(r)} \cup Unfindable \cup {<<"residue">>}
    BY <1>1, <1>3 DEF IInv, Deleting
  <2>2. status = "absent"
    BY <1>1, <1>3, <2>1, Found
  <2>3. \A x \in have : ~Inside(x)
    BY <2>2 DEF IInv, Grounded
  <2> QED
    BY <2>1, <2>2, <2>3 DEF Left
<1> QED
  BY <1>2, <1>3

LEMMA FinishKeeps ==
  ASSUME IInv, Finish
  PROVE  IInv'
<1>1. /\ TypeOK /\ Recording /\ run # "idle" /\ Idle /\ run' = "idle" /\ todo = <<>>
      /\ record' = IF run = "apply" THEN "ready" ELSE "gone"
      /\ UNCHANGED <<spec, cloud, implied>> /\ faults' = faults /\ spec' = spec
      /\ have' = have /\ status' = status /\ going' = going
  BY DEF IInv, Finish, Idle, cloud
<1>2. run \in {"apply", "delete"}
  BY <1>1 DEF TypeOK
<1>3. Lasting' = Lasting /\ AutoRole' = AutoRole /\ AutoRole \subseteq Lasting
  BY <1>1, SameWanted, SameRoles DEF Lasting
<1>4. Recording'
  <2>1. CASE run = "apply"
    <3>1. /\ record' = "ready" /\ status' = "active" /\ Lasting' \subseteq have' /\ AutoRole' \subseteq have'
          /\ going' = {}
      BY <1>1, <1>3, <2>1, Finished DEF Recording
    <3> QED
      BY <3>1 DEF Recording
  <2>2. CASE run = "delete"
    <3>1. record' = "gone" /\ status' = "absent" /\ Left' \subseteq Unfindable
      BY <1>1, <2>2, Finished DEF Left
    <3> QED
      BY <1>1, <3>1 DEF Recording, Unfindable
  <2> QED
    BY <1>2, <2>1, <2>2
<1> QED
  BY <1>1, <1>4, Ends DEF TypeOK
-----------------------------------------------------------------------------
(* The starts of the runs keep the invariant. *)

LEMMA FourCalls ==
  ASSUME NEW a, NEW b, NEW c, NEW d, NEW h,
         Needs(a) \subseteq h, Needs(b) \subseteq h, Needs(c) \subseteq h,
         Needs(d) \subseteq h \cup Gives(c)
  PROVE  LET s == <<a, b, c, d>>
         IN  /\ IsSeq(s) /\ Ready(s, h) /\ Elements(s) = {a, b, c, d}
             /\ Given(s) = Gives(a) \cup Gives(b) \cup Gives(c) \cup Gives(d)
<1> DEFINE s == <<a, b, c, d>>
<1>1. s \in Seq({a, b, c, d}) /\ DOMAIN s = 1..4 /\ s[1] = a /\ s[2] = b /\ s[3] = c /\ s[4] = d
  OBVIOUS
<1> HIDE DEF s
<1>2. Elements(s) = {a, b, c, d}
  BY <1>1 DEF Elements
<1>3. Ready(s, h)
  <2> SUFFICES ASSUME NEW j \in 1..4
               PROVE  Needs(s[j]) \subseteq h \cup UNION {Gives(s[i]) : i \in 1..(j - 1)}
    BY <1>1 DEF Ready
  <2>1. j \in {1, 2, 3} => Needs(s[j]) \subseteq h
    BY <1>1
  <2>2. j = 4 => 3 \in 1..(j - 1) /\ Needs(s[j]) \subseteq h \cup Gives(s[3])
    BY <1>1
  <2>3. j \in {1, 2, 3} \/ j = 4
    OBVIOUS
  <2> QED
    BY <2>1, <2>2, <2>3
<1>4. Given(s) = Gives(a) \cup Gives(b) \cup Gives(c) \cup Gives(d)
  BY <1>2 DEF Given
<1> QED
  BY <1>1, <1>2, <1>3, <1>4 DEF IsSeq, s

LEMMA ThreeCalls ==
  ASSUME NEW a, NEW b, NEW c, NEW h,
         Needs(a) \subseteq h, Needs(b) \subseteq h, Needs(c) \subseteq h \cup Gives(b)
  PROVE  LET s == <<a, b, c>>
         IN  /\ IsSeq(s) /\ Ready(s, h) /\ Elements(s) = {a, b, c}
             /\ Given(s) = Gives(a) \cup Gives(b) \cup Gives(c)
             /\ Cleared(s) = Clears(a) \cup Clears(b) \cup Clears(c)
<1> DEFINE s == <<a, b, c>>
<1>1. s \in Seq({a, b, c}) /\ DOMAIN s = 1..3 /\ s[1] = a /\ s[2] = b /\ s[3] = c
  OBVIOUS
<1> HIDE DEF s
<1>2. Elements(s) = {a, b, c}
  BY <1>1 DEF Elements
<1>3. Ready(s, h)
  <2> SUFFICES ASSUME NEW j \in 1..3
               PROVE  Needs(s[j]) \subseteq h \cup UNION {Gives(s[i]) : i \in 1..(j - 1)}
    BY <1>1 DEF Ready
  <2>1. j \in {1, 2} => Needs(s[j]) \subseteq h
    BY <1>1
  <2>2. j = 3 => 2 \in 1..(j - 1) /\ Needs(s[j]) \subseteq h \cup Gives(s[2])
    BY <1>1
  <2>3. j \in {1, 2} \/ j = 3
    OBVIOUS
  <2> QED
    BY <2>1, <2>2, <2>3
<1>4. /\ Given(s) = Gives(a) \cup Gives(b) \cup Gives(c)
      /\ Cleared(s) = Clears(a) \cup Clears(b) \cup Clears(c)
  BY <1>2 DEF Given, Cleared
<1> QED
  BY <1>1, <1>2, <1>3, <1>4 DEF IsSeq, s

\* What an apply sets out to do is enough, and each step may rely on the ones before.
LEMMA AppliesSteps ==
  ASSUME NEW h, record = "ready" => Fact("active") \in h /\ Lasting \subseteq h
  PROVE  /\ IsSeq(ApplySteps) /\ Ready(ApplySteps, h)
         /\ \A c \in Elements(ApplySteps) :
              \/ c.op = "do" /\ c.name \in {"EnsureNetwork", "Create", "Reconcile"}
              \/ c.op = "waitActive"
         /\ Wanted \cup {Fact("active")} \subseteq h \cup Given(ApplySteps)
<1> DEFINE n == Do("EnsureNetwork")
           c == Do("Create")
           w == Call("waitActive", "", {}, {})
           r == Do("Reconcile")
<1>1. /\ n.op = "do" /\ n.name = "EnsureNetwork" /\ c.op = "do" /\ c.name = "Create"
      /\ r.op = "do" /\ r.name = "Reconcile" /\ w.op = "waitActive"
  BY DEF Do, Call
<1>2. ApplySteps = IF record = "ready" THEN <<r>> ELSE <<n, c, w, r>>
  BY DEF ApplySteps
<1> HIDE DEF n, c, w, r
<1>3. Needs(n) = {} /\ Needs(c) = {} /\ Needs(w) = {} /\ Needs(r) = {Fact("active")}
  BY <1>1 DEF Needs
<1>4. /\ Gives(n) = Network /\ Gives(c) = ClusterRole \cup AutoRole
      /\ Gives(w) = {Fact("active")} /\ Gives(r) = Wanted \ Lasting
  BY <1>1 DEF Gives
<1>5. CASE record = "ready"
  <2>1. /\ IsSeq(<<r>>) /\ Ready(<<r>>, h) /\ Elements(<<r>>) = {r} /\ Given(<<r>>) = Gives(r)
    BY <1>3, <1>5, One, OneReady
  <2> QED
    BY <1>1, <1>2, <1>4, <1>5, <2>1
<1>6. CASE record # "ready"
  <2> DEFINE s == <<n, c, w, r>>
  <2>1. /\ IsSeq(s) /\ Ready(s, h) /\ Elements(s) = {n, c, w, r}
        /\ Given(s) = Gives(n) \cup Gives(c) \cup Gives(w) \cup Gives(r)
    BY <1>3, <1>4, FourCalls
  <2>2. ApplySteps = s
    BY <1>2, <1>6
  <2> HIDE DEF s
  <2>3. Wanted \cup {Fact("active")} \subseteq Given(s)
    BY <1>4, <2>1 DEF Lasting
  <2> QED
    BY <1>1, <2>1, <2>2, <2>3
<1> QED
  BY <1>5, <1>6

LEMMA StartApplyKeeps ==
  ASSUME IInv, StartApply
  PROVE  IInv'
<1>1. /\ TypeOK /\ Rooted /\ Grounded /\ Recording
      /\ run = "idle" /\ record \in {"none", "pending", "ready"} /\ run' = "apply" /\ todo' = ApplySteps
      /\ record' = (IF record = "none" THEN "pending" ELSE record) /\ implied' \in Flags
      /\ wrote' = FALSE /\ complete' = Complete
      /\ spec' = spec /\ faults' = faults
      /\ have' = have /\ status' = status /\ location' = location /\ going' = going
  BY DEF IInv, StartApply, cloud
<1>2. TypeOK'
  <2>1. complete' \in BOOLEAN
    BY <1>1 DEF Complete
  <2>2. implied' \in {"region", "zone"} /\ record' \in {"pending", "ready"}
    BY <1>1 DEF Flags
  <2> QED
    BY <1>1, <2>1, <2>2, SameWanted DEF TypeOK
<1>3. Got' = Got /\ Facts' = Got \cup When("active", status = "active")
  <2>1. Got' = Got
    BY <1>1 DEF Got, Left
  <2>2. Facts' = Got' \cup When("active", status = "active")'
    BY <1>1 DEF Facts
  <2>3. When("active", status = "active")' = When("active", status = "active")
    BY <1>1 DEF When, Fact
  <2> QED
    BY <2>1, <2>2, <2>3
<1>4. record = "ready" => Fact("active") \in Facts' /\ Lasting \subseteq Facts'
  <2> SUFFICES ASSUME record = "ready" PROVE Fact("active") \in Facts' /\ Lasting \subseteq Facts'
    OBVIOUS
  <2>1. status = "active" /\ Lasting \subseteq have
    BY <1>1 DEF Recording
  <2>2. \A x \in Lasting : x # <<"residue">>
    <3>1. <<"residue">>[1] = "residue"
      OBVIOUS
    <3> QED
      BY <1>1, <3>1, LastingParts
  <2> QED
    BY <1>3, <2>1, <2>2 DEF When, Got, Left
<1>5. /\ IsSeq(ApplySteps) /\ Ready(ApplySteps, Facts')
      /\ \A c \in Elements(ApplySteps) :
           \/ c.op = "do" /\ c.name \in {"EnsureNetwork", "Create", "Reconcile"}
           \/ c.op = "waitActive"
      /\ Wanted \cup {Fact("active")} \subseteq Facts' \cup Given(ApplySteps)
  BY <1>4, AppliesSteps
<1>6. Planned'
  <2>1. IsSeq(todo)' /\ Elements(todo)' = Elements(ApplySteps)
    BY <1>1, <1>5 DEF IsSeq, Elements
  <2>2. \A c \in Elements(ApplySteps) : Fit(c)'
    BY <1>1, <1>5 DEF Fit, ApplyFit
  <2>3. Ready(todo, Facts)'
    BY <1>1, <1>5, SameCalls
  <2> QED
    BY <2>1, <2>2, <2>3 DEF Planned, Fine
<1>7. Applying'
  <2>1. Wanted' \cup {Fact("active")} \subseteq (Facts \cup Given(todo))'
    BY <1>1, <1>5, SameWanted, SameCalls
  <2>2. ASSUME Complete PROVE status = "active" /\ Wanted \subseteq Got
    <3>1. status = "active" /\ \A r \in Wanted : r \in have \/ (r[1] = "binding" /\ <<"irsa", r[2]>> \in have)
      BY <2>2 DEF Complete
    <3>2. ASSUME NEW r \in Wanted PROVE r \in Got
      <4>1. r # <<"residue">>
        <5>1. <<"residue">>[1] = "residue"
          OBVIOUS
        <5> QED
          BY <1>1, <5>1, WantedKinds
      <4>2. CASE r \in have
        BY <4>1, <4>2 DEF Got, Left
      <4>3. CASE r[1] = "binding" /\ <<"irsa", r[2]>> \in have
        <5>1. r[2] \in IdentityRoles /\ r = <<"binding", r[2]>>
          BY <1>1, <4>3, WantedKinds
        <5> QED
          BY <4>3, <5>1 DEF Got
      <4> QED
        BY <3>1, <4>2, <4>3
    <3> QED
      BY <3>1, <3>2
  <2>3. Wanted' = Wanted
    BY <1>1, SameWanted
  <2> QED
    BY <1>1, <1>3, <2>1, <2>2, <2>3 DEF Applying, Fact
<1>8. Deleting'
  BY <1>1 DEF Deleting
<1>9. Rooted' /\ Grounded'
  BY <1>1, InsideGoes
<1>10. Recording'
  <2>1. Lasting' = Lasting /\ AutoRole' = AutoRole
    BY <1>1, SameWanted, SameRoles
  <2> QED
    BY <1>1, <2>1 DEF Recording
<1> QED
  BY <1>2, <1>6, <1>7, <1>8, <1>9, <1>10 DEF IInv

\* Everything there may be is inside the cluster or found by a delete, but for
\* what no delete finds.
LEMMA DeleteReaches ==
  ASSUME TypeOK
  PROVE  Possible \subseteq {r \in Possible : Inside(r)} \cup Unfindable \cup {<<"residue">>}
                            \cup RoleLike \cup NetworkLike
<1> SUFFICES ASSUME NEW x \in Possible, ~Inside(x)
             PROVE  x \in Unfindable \cup {<<"residue">>} \cup RoleLike \cup NetworkLike
  OBVIOUS
<1>1. \/ x \in {<<"residue">>, <<"gateway">>, <<"oidc">>}
      \/ x[1] \in {"role", "policy", "inline", "profile"}
      \/ x[1] \in {"vpc", "dnsSupport", "dnsHostnames", "attached",
          "routeTable", "defaultRoute", "subnet", "publicIP", "routed", "securityGroup",
          "network", "subnetwork", "router", "firewall", "group", "vnet"}
  <2>1. CASE spec.cloud = "aws"
    <3>1. CASE \E r \in RoleNames : x \in RoleParts(r)
      BY <3>1, OwnParts
    <3>2. CASE x \in AwsNetworkParts
      BY <3>2 DEF AwsNetworkParts, Subnet, Public, Routed
    <3>3. CASE x \in {<<"residue">>, <<"securityGroup">>, <<"profile", "autoNode">>, <<"oidc">>}
      BY <3>3
    <3> QED
      BY <2>1, <3>1, <3>2, <3>3, AwsPossible
  <2>2. CASE spec.cloud = "gcp"
    BY <2>2, GcpPossible
  <2>3. CASE spec.cloud = "azure"
    BY <2>3, AzurePossible
  <2> QED
    BY <2>1, <2>2, <2>3, CloudIs
<1> QED
  BY <1>1 DEF Unfindable, RoleLike, NetworkLike

LEMMA StartDeleteKeeps ==
  ASSUME IInv, StartDelete
  PROVE  IInv'
<1> DEFINE d == Do("Delete")
           w == Call("waitGone", "", {}, {})
           n == Do("DeleteNetwork")
           s == <<d, w, n>>
<1>1. /\ TypeOK /\ Rooted /\ Grounded /\ Recording
      /\ run = "idle" /\ run' = "delete" /\ todo' = s
      /\ record' = "decommissioning" /\ implied' \in Flags
      /\ wrote' = FALSE /\ complete' = FALSE
      /\ spec' = spec /\ faults' = faults
      /\ have' = have /\ status' = status /\ location' = location /\ going' = going
  BY DEF IInv, StartDelete, cloud, DeleteSteps
<1>2. /\ d.op = "do" /\ d.name = "Delete" /\ n.op = "do" /\ n.name = "DeleteNetwork"
      /\ w.op = "waitGone"
  BY DEF Do, Call
<1> HIDE DEF d, w, n
<1>3. Needs(d) = {} /\ Needs(w) = {} /\ Needs(n) = {Fact("gone")}
  BY <1>2 DEF Needs
<1>4. Gives(d) = {} /\ Gives(w) = {Fact("gone")} /\ Gives(n) = {}
  BY <1>2 DEF Gives
<1>5. Clears(d) = RoleLike /\ Clears(w) = {} /\ Clears(n) = NetworkLike
  BY <1>2 DEF Clears
<1>6. /\ IsSeq(s) /\ Ready(s, Facts') /\ Elements(s) = {d, w, n}
      /\ Given(s) = {Fact("gone")} /\ Cleared(s) = RoleLike \cup NetworkLike
  BY <1>3, <1>4, <1>5, ThreeCalls
<1> HIDE DEF s
<1>7. TypeOK'
  <2>1. implied' \in {"region", "zone"}
    BY <1>1 DEF Flags
  <2> QED
    BY <1>1, <2>1, SameWanted DEF TypeOK
<1>8. Planned'
  <2>1. IsSeq(todo)' /\ Elements(todo)' = {d, w, n}
    BY <1>1, <1>6 DEF IsSeq, Elements
  <2>2. Fit(d)' /\ Fit(w)' /\ Fit(n)'
    BY <1>1, <1>2 DEF Fit, DeleteFit
  <2>3. Ready(todo, Facts)'
    BY <1>1, <1>6, SameCalls
  <2> QED
    BY <2>1, <2>2, <2>3 DEF Planned, Fine
<1>9. Applying'
  BY <1>1 DEF Applying
<1>10. Deleting'
  <2>1. Given(todo)' = {Fact("gone")} /\ Cleared(todo)' = RoleLike \cup NetworkLike
    BY <1>1, <1>6, SameCalls
  <2>2. have \subseteq {r \in Possible : Inside(r)} \cup Unfindable \cup {<<"residue">>}
                       \cup (RoleLike \cup NetworkLike)
    BY <1>1, DeleteReaches DEF TypeOK
  <2>3. Possible' = Possible /\ \A r : Inside(r)' = Inside(r)
    BY <1>1, SameWanted, SameCalls
  <2> QED
    BY <1>1, <2>1, <2>2, <2>3 DEF Deleting, Fact, Unfindable
<1>11. Rooted' /\ Grounded'
  BY <1>1, InsideGoes
<1>12. Recording'
  BY <1>1 DEF Recording
<1> QED
  BY <1>7, <1>8, <1>9, <1>10, <1>11, <1>12 DEF IInv

LEMMA StartsInvariant ==
  ASSUME Init
  PROVE  IInv
<1>1. /\ spec \in Specs /\ location = "region" /\ going = {}
      /\ run = "idle" /\ implied = "region" /\ todo = <<>>
      /\ wrote = FALSE /\ complete = FALSE /\ faults = 0
  BY DEF Init
<1>2. \/ have = {} /\ status = "absent" /\ record = "none"
      \/ /\ status = "active" /\ record = "ready"
         /\ \E old \in Older :
              have = old \cup {r \in Wanted : r[1] # "binding" \/ <<"irsa", r[2]>> \notin old}
  BY DEF Init, New, Recorded
<1>3. TypeOK
  <2>1. have \subseteq Possible
    <3>1. \A old \in Older : old \subseteq UNION Older
      OBVIOUS
    <3> QED
      BY <1>2, <3>1 DEF Possible
  <2>2. faults \in 0..MaxFaults
    BY <1>1, CallsAssumption
  <2> QED
    BY <1>1, <1>2, <2>1, <2>2 DEF TypeOK, Status
<1>4. Planned
  BY <1>1, Nothing DEF Planned
<1>5. Applying /\ Deleting
  BY <1>1 DEF Applying, Deleting
<1>6. CASE have = {} /\ status = "absent" /\ record = "none"
  <2>1. Rooted /\ Grounded /\ Recording
    BY <1>1, <1>6 DEF Rooted, Grounded, Recording, NodePools
  <2> QED
    BY <1>3, <1>4, <1>5, <2>1 DEF IInv
<1>7. CASE /\ status = "active" /\ record = "ready"
           /\ \E old \in Older :
                have = old \cup {r \in Wanted : r[1] # "binding" \/ <<"irsa", r[2]>> \notin old}
  <2>1. PICK old \in Older : have = old \cup {r \in Wanted : r[1] # "binding" \/ <<"irsa", r[2]>> \notin old}
    BY <1>7
  <2>2. \A x \in Wanted : x[1] # "binding" => x \in have
    BY <2>1
  <2>3. \A x \in old : \/ x \in {<<"oidc">>, <<"irsa", "ebs-csi">>}
                       \/ x = <<"firewall">> /\ spec.cloud = "gcp" /\ ~spec.supplied
    BY DEF Older
  <2>4. \A x \in have : x \in Wanted \/ x \in old
    BY <2>1
  <2>5. Lasting \subseteq have /\ Ground \subseteq have /\ AutoRole \subseteq have
    BY <1>3, <2>2, LastingParts
  <2>6. ASSUME NEW x \in have, NEW y \in Parents(x) PROVE y \in have
    <3>1. CASE x \in Wanted
      BY <1>3, <2>2, <3>1, WantedParents
    <3>2. CASE x \in {<<"oidc">>, <<"irsa", "ebs-csi">>}
      <4>1. Parents(x) = {}
        BY <3>2, NoParents DEF Inside
      <4> QED
        BY <4>1
    <3>3. CASE x = <<"firewall">> /\ spec.cloud = "gcp" /\ ~spec.supplied
      <4>1. y = <<"network">>
        BY <3>3 DEF Parents
      <4>2. <<"network">> \in Network
        BY <3>3 DEF Network
      <4> QED
        BY <2>5, <4>1, <4>2 DEF Lasting
    <3> QED
      BY <2>3, <2>4, <3>1, <3>2, <3>3
  <2>7. Rooted
    <3>1. <<"profile", "autoNode">>[1] = "profile"
      OBVIOUS
    <3>2. <<"profile", "autoNode">> \notin have
      BY <1>3, <2>3, <2>4, <3>1, WantedKinds
    <3> QED
      BY <2>6, <3>2 DEF Rooted
  <2>8. Grounded
    <3>1. ASSUME spec.cloud = "aws", NodePools # {} PROVE NodeRole \subseteq have
      <4>1. PICK p \in PoolNames : <<"pool", p>> \in have
        BY <3>1 DEF NodePools
      <4>2. <<"pool", p>> \in Wanted
        BY <2>3, <2>4, <4>1
      <4>3. ~spec.auto
        <5>1. ASSUME spec.auto PROVE FALSE
          <6>1. \/ \E a \in AwsAddons : <<"pool", p>> \in AddonParts(a)
                \/ \E r \in AwsRoles : <<"pool", p>> \in RoleParts(r)
                \/ <<"pool", p>> = <<"access">>
                \/ <<"pool", p>> \in Network
            BY <3>1, <4>2, <5>1, AwsWants
          <6>2. \A q : <<"pool", p>> \notin AddonParts(q) /\ <<"pool", p>> \notin RoleParts(q)
            <7>1. <<"pool", p>>[1] = "pool"
              OBVIOUS
            <7> QED
              BY <7>1, OwnAddonParts, OwnParts
          <6>3. <<"pool", p>> \notin Network
            <7>1. <<"pool", p>>[1] = "pool"
              OBVIOUS
            <7> QED
              BY <1>3, <7>1, NetworkParts DEF NetworkKinds
          <6> QED
            BY <6>1, <6>2, <6>3
        <5> QED
          BY <1>1, <5>1 DEF Specs
      <4>4. NodeRole \subseteq Wanted /\ \A x \in NodeRole : x[1] # "binding"
        BY <1>3, <3>1, <4>3, NodeRoleParts
      <4> QED
        BY <2>2, <4>4
    <3>2. spec.cloud = "aws" => Role("cluster") \in have
      BY <2>5 DEF Ground
    <3> QED
      BY <1>7, <2>5, <3>1, <3>2 DEF Grounded
  <2>9. Recording
    BY <1>1, <1>7, <2>5 DEF Recording
  <2> QED
    BY <1>3, <1>4, <1>5, <2>7, <2>8, <2>9 DEF IInv
<1> QED
  BY <1>2, <1>6, <1>7

LEMMA StaysInvariant ==
  ASSUME IInv, [Next]_vars
  PROVE  IInv'
<1>1. CASE UNCHANGED vars
  <2>1. /\ spec' = spec /\ record' = record /\ run' = run /\ implied' = implied /\ todo' = todo
        /\ wrote' = wrote /\ complete' = complete /\ faults' = faults
        /\ have' = have /\ status' = status /\ location' = location /\ going' = going
    BY <1>1 DEF vars, cloud
  <2> QED
    BY <2>1, SomethingGoes DEF Unheld, IInv, TypeOK, Left
<1>2. CASE Calls
  BY <1>2, CallRefusedKeeps, DoingKeeps, MakingKeeps, DiscardingKeeps, CreatingClusterKeeps,
     WaitingActiveKeeps, WaitingGoneKeeps, DeletingPoolKeeps, WaitingPoolsKeeps,
     DeletingClusterKeeps, DeletingGroupKeeps
  DEF Calls
<1>3. CASE Cloud
  BY <1>3, ClusterReadyKeeps, ClusterFailsKeeps, ClusterGoesKeeps, PoolGoesKeeps,
     LoadBalancerLeftKeeps, ResidueGoesKeeps, DriftKeeps
  DEF Cloud
<1>4. CASE StartApply
  BY <1>4, StartApplyKeeps
<1>5. CASE StartDelete
  BY <1>5, StartDeleteKeeps
<1>6. CASE Finish
  BY <1>6, FinishKeeps
<1>7. CASE RunStops
  BY <1>7, RunStopsKeeps
<1> QED
  BY <1>1, <1>2, <1>3, <1>4, <1>5, <1>6, <1>7 DEF Next
-----------------------------------------------------------------------------
(* What holds of every execution *)

\* The calls a run has still to make bring about, one after the other, what each
\* of them relies on and what the run is for, whatever earlier runs left half done
\* and whatever the cloud does meanwhile.
THEOREM Invariant == Spec => []IInv
<1>1. Init => IInv
  BY StartsInvariant
<1>2. IInv /\ [Next]_vars => IInv'
  BY StaysInvariant
<1> QED
  BY <1>1, <1>2, PTL DEF Spec

\* Every variable keeps its type, and nothing is ever made that the cluster's
\* options do not call for.
THEOREM Types == Spec => []TypeOK
<1>1. IInv => TypeOK
  BY DEF IInv
<1> QED
  BY <1>1, Invariant, PTL

\* A record that went leaves nothing of the cluster to be paid for, but for what
\* no delete can find (Delete and DeleteNetwork, cluster.go:475-493).
THEOREM DeletesAll == Spec => []NothingLeft
<1>1. IInv => NothingLeft
  BY DEF IInv, Recording, NothingLeft
<1> QED
  BY <1>1, Invariant, PTL

\* An apply that comes to its end has put everything in place, whatever earlier
\* runs left half done (EnsureNetwork, Create and Reconcile).
THEOREM AppliesAll == Spec => []UsableWhenRecorded
<1>1. ASSUME IInv, run = "apply", todo = <<>> PROVE Complete
  <2>1. TypeOK /\ status = "active" /\ Wanted \subseteq Got
    BY <1>1, Finished DEF IInv
  <2>2. ASSUME NEW r \in Wanted PROVE r \in have \/ (r[1] = "binding" /\ <<"irsa", r[2]>> \in have)
    <3>1. r \in have \/ \E a \in IdentityRoles : r = <<"binding", a>> /\ <<"irsa", a>> \in have
      BY <2>1 DEF Got, Left
    <3>2. \A a : <<"binding", a>>[1] = "binding" /\ <<"binding", a>>[2] = a
      OBVIOUS
    <3> QED
      BY <3>1, <3>2
  <2> QED
    BY <2>1, <2>2 DEF Complete
<1>2. IInv => UsableWhenRecorded
  BY <1>1 DEF UsableWhenRecorded
<1> QED
  BY <1>2, Invariant, PTL

\* Nodes keep their role until the last has gone, the cluster its role until it
\* is asked to go, and its network until it is gone.
THEOREM StandsFirm == Spec => []NothingPulledAway
<1>1. ASSUME IInv PROVE NothingPulledAway
  <2>1. /\ status # "absent" => Ground \ {Role("cluster")} \subseteq have
        /\ spec.cloud = "aws" /\ status \in {"creating", "active"} => Role("cluster") \in have
        /\ spec.cloud = "aws" /\ NodePools # {} => NodeRole \subseteq have
        /\ TypeOK
    BY <1>1 DEF IInv, Grounded
  <2>2. NodeRole = {Role("node")} \cup (PartsOf("node") \ {<<"profile", "node">>})
    BY DEF NodeRole, RoleParts
  <2>3. CASE spec.cloud = "aws"
    <3>1. Ground = {Role("cluster")} \cup SubnetsOf(spec) /\ Role("cluster") \notin SubnetsOf(spec)
      BY <2>3 DEF Ground, SubnetsOf, Subnet, Role
    <3>2. status # "absent" => SubnetsOf(spec) \subseteq have
      BY <2>1, <3>1
    <3> QED
      BY <2>1, <2>2, <2>3, <3>2 DEF NothingPulledAway
  <2>4. CASE spec.cloud = "gcp"
    <3>1. ~spec.supplied => Ground = {<<"subnetwork">>}
      BY <2>4 DEF Ground
    <3>2. <<"subnetwork">> # Role("cluster")
      BY DEF Role
    <3>3. status # "absent" /\ ~spec.supplied => <<"subnetwork">> \in have
      BY <2>1, <3>1, <3>2
    <3> QED
      BY <2>4, <3>3 DEF NothingPulledAway
  <2>5. CASE spec.cloud = "azure"
    <3>1. Ground = {<<"group">>} /\ <<"group">> # Role("cluster")
      BY <2>5 DEF Ground, Role
    <3>2. status # "absent" => <<"group">> \in have
      BY <2>1, <3>1
    <3> QED
      BY <2>5, <3>2 DEF NothingPulledAway
  <2> QED
    BY <2>1, <2>3, <2>4, <2>5, CloudIs
<1> QED
  BY <1>1, Invariant, PTL

\* An apply of a cluster that has everything writes nothing to the cloud, also
\* when an older kubespin made it (Reconcile reports no change).
THEOREM ConvergedStays == Spec => []ConvergedWritesNothing
<1>1. IInv => ConvergedWritesNothing
  BY DEF IInv, Applying, ConvergedWritesNothing
<1> QED
  BY <1>1, Invariant, PTL

\* On EKS no node group is made before the VPC CNI is configured (networkAddons,
\* aws/addons.go:77-82).
THEOREM ConfiguredFirst == Spec => PodsPerNodeFirst
<1> DEFINE A == spec.cloud = "aws" /\ Named("pool", PoolNames) \cap (have' \ have) # {}
                  => <<"config", "vpc-cni">> \in have
<1>1. ASSUME IInv, Next, spec.cloud = "aws", NEW x \in Named("pool", PoolNames) \cap (have' \ have)
      PROVE  <<"config", "vpc-cni">> \in have
  <2>1. /\ TypeOK /\ Planned /\ x \in have' /\ x \notin have
        /\ x[1] = "pool" /\ x \in Named("pool", PoolNames)
    BY <1>1 DEF IInv, Named
  <2>2. CASE Making
    <3>1. /\ todo # <<>> /\ Head(todo).op = "make" /\ have' = have \cup Head(todo).what
      BY <2>2 DEF Making, NextCall
    <3>2. run = "apply" /\ Needs(Head(todo)) \subseteq Facts
      BY <2>1, <3>1, FirstCall DEF DeleteFit
    <3>3. Head(todo).what \cap Named("pool", PoolNames) # {}
      BY <2>1, <3>1
    <3>4. <<"config", "vpc-cni">> \in Facts
      BY <1>1, <3>1, <3>2, <3>3 DEF Needs
    <3>5. <<"config", "vpc-cni">>[1] = "config"
      OBVIOUS
    <3> QED
      BY <2>1, <3>2, <3>4, <3>5, Found
  <2>3. CASE CreatingCluster
    <3>1. todo # <<>> /\ Head(todo).op = "createCluster" /\ have' \subseteq have \cup Head(todo).what
      BY <2>3 DEF CreatingCluster, NextCall
    <3>2. ApplyFit(Head(todo))
      BY <2>1, <3>1, FirstCall DEF DeleteFit
    <3>3. Head(todo).what \cap Named("pool", PoolNames) = {}
      BY <1>1, <3>1, <3>2 DEF ApplyFit
    <3> QED
      BY <2>1, <3>1, <3>3
  <2>4. CASE LoadBalancerLeft
    <3>1. x \in {<<"securityGroup">>, <<"residue">>}
      BY <2>1, <2>4 DEF LoadBalancerLeft
    <3> QED
      BY <2>1, <3>1
  <2>5. CASE Next /\ ~Making /\ ~CreatingCluster /\ ~LoadBalancerLeft
    <3>1. have' \subseteq have
      BY <2>5
      DEF Next, Calls, Cloud, StartApply, StartDelete, Finish, RunStops, CallRefused, Doing,
          Discarding, WaitingActive, WaitingGone, DeletingPool, WaitingPools, DeletingCluster,
          DeletingGroup, ClusterReady, ClusterFails, ClusterGoes, PoolGoes, ResidueGoes, Drift, cloud
    <3> QED
      BY <2>1, <3>1
  <2> QED
    BY <1>1, <2>2, <2>3, <2>4, <2>5
<1>2. IInv /\ [Next]_vars => [A]_vars
  BY <1>1
<1> QED
  BY <1>2, Invariant, PTL DEF Spec, PodsPerNodeFirst
=============================================================================
