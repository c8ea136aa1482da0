-------------------------- MODULE LinkResolverProofs --------------------------
(***************************************************************************)
(* Proofs about PeeringPolicies and LinkResolver, for any ASes, owners,    *)
(* ISDs, VLANs, interfaces, port ranges and policies: the set algebra of   *)
(* _get_accepted_peers computes the precedence of the policies, and        *)
(* between RPCs the two tables derived from the policies agree with them.  *)
(*                                                                         *)
(* Both say nothing while an RPC is under way, when the AS it works for    *)
(* has outdated rows in the VLANs not yet resolved; the inductive          *)
(* invariant says that nothing else is outdated.                           *)
(*                                                                         *)
(* What get_unused_port finds comes after that, and which links exist.     *)
(* It compares the ports of all links of an AS with the range of one       *)
(* interface, so both need hypotheses about the ranges (SameStart,         *)
(* PortsEnough) that the code does not establish.                          *)
(***************************************************************************)
EXTENDS LinkResolver, FiniteSetTheorems, TLAPS

\* An AS may have policies where it is a member, and none about itself.
OwnPolicies ==
    \A v \in Vlans, a \in ASes :
        /\ policies[v][a] \in Policies(a)
        /\ a \notin Members(v) => policies[v][a] = [t \in Targets |-> "none"]

\* The rows of AS a in VLAN v that the running RPC has yet to update.
Outdated(v, a) == work.refresh /\ a = work.asys /\ v \in work.vlans

Fresh ==
    \A v \in Vlans, a \in ASes, b \in ASes : ~Outdated(v, a) =>
        (<<v, a, b>> \in accepted <=> Accepts(a, b, policies[v][a], Members(v)))

\* Links that the running RPC has yet to look at.
Unresolved(l) ==
    VlanOf[l.a] \in work.vlans /\ work.asys \in {AsOf[l.a], AsOf[l.b]}

Agreed(l) == VlanOf[l.b] = VlanOf[l.a] /\ AsOf[l.a] # AsOf[l.b]

LinksAgreed ==
    \A l \in links : Agreed(l) /\ (Unresolved(l) \/ Mutual(AsOf[l.a], AsOf[l.b], VlanOf[l.a]))

\* The links about to be created are wanted, and new.
PairsAgreed ==
    \A x \in work.todo :
        /\ Agreed(x) /\ Mutual(AsOf[x.a], AsOf[x.b], VlanOf[x.a])
        /\ \A l \in links : {l.a, l.b} # {x.a, x.b}
        /\ \A y \in work.todo : {x.a, x.b} = {y.a, y.b} => x = y

IInv == TypeOK /\ OwnPolicies /\ Fresh /\ LinksAgreed /\ PairsAgreed /\ OneLinkPerPair

-----------------------------------------------------------------------------

\* The verdict on one peer, with the targets of its policies spelled out.
LEMMA TargetTypes ==
    ASSUME NEW a \in ASes, NEW p \in Policies(a), NEW b \in ASes
    PROVE  /\ p[PeerAs(b)] \in Verdicts
           /\ p[PeerOwner(OwnerOf[b])] \in Verdicts
           /\ p[PeerIsd(IsdOf[b])] \in Verdicts
           /\ p[Default] \in Verdicts
           /\ p[PeerAs(a)] = "none"
<1>1. OwnerOf[b] \in Owners /\ IsdOf[b] \in Isds
  BY PeeringPoliciesAssumption
<1>2. /\ PeerAs(b) \in Targets
      /\ PeerOwner(OwnerOf[b]) \in Targets
      /\ PeerIsd(IsdOf[b]) \in Targets
      /\ Default \in Targets
  BY <1>1 DEF Targets
<1> QED  BY <1>2 DEF Policies

\* The set algebra of _get_accepted_peers computes the precedence of the
\* policies, for any ASes, owners, ISDs, policies and members of the VLAN.
THEOREM AcceptedPeersFollowPrecedence ==
    ASSUME NEW a \in ASes, NEW p \in Policies(a), NEW members \in SUBSET ASes
    PROVE  GetAcceptedPeers(a, p, members) = {b \in ASes : Accepts(a, b, p, members)}
<1> DEFINE Accepted == GetAcceptedPeers(a, p, members)
<1>1. Accepted \subseteq ASes
  BY DEF GetAcceptedPeers
<1>2. ASSUME NEW b \in ASes
      PROVE  b \in Accepted <=> Accepts(a, b, p, members)
  BY TargetTypes DEF GetAcceptedPeers, Accepts, Decision, Verdicts
<1> QED  BY <1>1, <1>2
-----------------------------------------------------------------------------
LinkTypes == {"core", "peering", "provider"}

\* The port found for a new link, if any.
LEMMA PortTypes ==
    ASSUME TypeOK, NEW i \in Interfaces
    PROVE  UnusedPort(i) \subseteq Nat /\ \A p, q \in UnusedPort(i) : p = q
<1>1. range[i].first \in Nat /\ range[i].last \in Nat
  BY LinkResolverAssumption DEF TypeOK, NoPorts
<1>2. \A p \in UnusedPort(i) : p \in range[i].first..(range[i].last - 1)
  BY DEF UnusedPort
<1>3. \A p, q \in UnusedPort(i) : p <= q
  BY DEF UnusedPort
<1>4. \A p \in UnusedPort(i) : p \in Nat
  BY <1>1, <1>2
<1>5. \A p, q \in UnusedPort(i) : p = q
  BY <1>3, <1>4
<1> QED  BY <1>4, <1>5

\* All pairs have one type and one direction.
LEMMA PairTypes ==
    ASSUME NEW a \in ASes, NEW b \in ASes, NEW v \in Vlans
    PROVE  \/ PairsToLink(a, b, v) = {}
           \/ \E type \in LinkTypes : \/ PairsToLink(a, b, v) = Pairs(type, a, b, v)
                                      \/ PairsToLink(a, b, v) = Pairs(type, b, a, v)
<1>1. "core" \in LinkTypes /\ "peering" \in LinkTypes /\ "provider" \in LinkTypes
  BY DEF LinkTypes
<1> QED  BY <1>1 DEF PairsToLink

\* So two of them do not join the same interfaces.
LEMMA PairsDiffer ==
    ASSUME NEW a \in ASes, NEW b \in ASes, a # b, NEW v \in Vlans
    PROVE  /\ PairsToLink(a, b, v) \subseteq Pair
           /\ \A x \in PairsToLink(a, b, v) :
                 /\ x.a \in Interfaces /\ x.b \in Interfaces
                 /\ VlanOf[x.a] = v /\ VlanOf[x.b] = v
                 /\ \/ AsOf[x.a] = a /\ AsOf[x.b] = b
                    \/ AsOf[x.a] = b /\ AsOf[x.b] = a
           /\ \A x, y \in PairsToLink(a, b, v) : {x.a, x.b} = {y.a, y.b} => x = y
<1>1. ASSUME NEW type \in LinkTypes, NEW c \in {a, b}, NEW d \in {a, b}, c # d,
             PairsToLink(a, b, v) = Pairs(type, c, d, v)
      PROVE  /\ \A x \in PairsToLink(a, b, v) :
                   /\ x = [type |-> type, a |-> x.a, b |-> x.b]
                   /\ x.a \in Interfaces /\ x.b \in Interfaces
                   /\ VlanOf[x.a] = v /\ VlanOf[x.b] = v
                   /\ AsOf[x.a] = c /\ AsOf[x.b] = d
             /\ PairsToLink(a, b, v) \subseteq Pair
  BY <1>1 DEF Pairs, InterfacesIn, Pair, LinkTypes
<1>2. ASSUME NEW type \in LinkTypes, NEW c \in {a, b}, NEW d \in {a, b}, c # d,
             PairsToLink(a, b, v) = Pairs(type, c, d, v),
             NEW x \in PairsToLink(a, b, v), NEW y \in PairsToLink(a, b, v),
             {x.a, x.b} = {y.a, y.b}
      PROVE  x = y
  <2>1. /\ x = [type |-> type, a |-> x.a, b |-> x.b] /\ AsOf[x.a] = c /\ AsOf[x.b] = d
        /\ y = [type |-> type, a |-> y.a, b |-> y.b] /\ AsOf[y.a] = c /\ AsOf[y.b] = d
    BY <1>1, <1>2
  <2>2. x.a = y.a /\ x.b = y.b
    BY <1>2, <2>1
  <2> QED  BY <2>1, <2>2
<1>3. CASE PairsToLink(a, b, v) = {}
  BY <1>3
<1>4. ASSUME NEW type \in LinkTypes, PairsToLink(a, b, v) = Pairs(type, a, b, v)
      PROVE  /\ PairsToLink(a, b, v) \subseteq Pair
             /\ \A x \in PairsToLink(a, b, v) :
                   /\ x.a \in Interfaces /\ x.b \in Interfaces
                   /\ VlanOf[x.a] = v /\ VlanOf[x.b] = v
                   /\ AsOf[x.a] = a /\ AsOf[x.b] = b
             /\ \A x, y \in PairsToLink(a, b, v) : {x.a, x.b} = {y.a, y.b} => x = y
  BY <1>1, <1>2, <1>4
<1>5. ASSUME NEW type \in LinkTypes, PairsToLink(a, b, v) = Pairs(type, b, a, v)
      PROVE  /\ PairsToLink(a, b, v) \subseteq Pair
             /\ \A x \in PairsToLink(a, b, v) :
                   /\ x.a \in Interfaces /\ x.b \in Interfaces
                   /\ VlanOf[x.a] = v /\ VlanOf[x.b] = v
                   /\ AsOf[x.a] = b /\ AsOf[x.b] = a
             /\ \A x, y \in PairsToLink(a, b, v) : {x.a, x.b} = {y.a, y.b} => x = y
  BY <1>1, <1>2, <1>5
<1> QED  BY <1>3, <1>4, <1>5, PairTypes

\* What no policy accepts.
LEMMA NoPolicies ==
    ASSUME NEW a \in ASes
    PROVE  /\ [t \in Targets |-> "none"] \in Policies(a)
           /\ \A b \in ASes : \A members : ~Accepts(a, b, [t \in Targets |-> "none"], members)
<1> DEFINE p == [t \in Targets |-> "none"]
<1>1. p \in [Targets -> Verdicts] /\ PeerAs(a) \in Targets
  BY DEF Verdicts, Targets
<1>2. p \in Policies(a)
  BY <1>1 DEF Policies
<1>3. ASSUME NEW b \in ASes, NEW members PROVE ~Accepts(a, b, p, members)
  <2>1. OwnerOf[b] \in Owners /\ IsdOf[b] \in Isds
    BY PeeringPoliciesAssumption
  <2>2. PeerAs(b) \in Targets /\ PeerOwner(OwnerOf[b]) \in Targets
        /\ PeerIsd(IsdOf[b]) \in Targets /\ Default \in Targets
    BY <2>1 DEF Targets
  <2> QED  BY <2>2 DEF Accepts, Decision
<1> QED  BY <1>2, <1>3

LEMMA MutualIsSymmetric ==
    ASSUME NEW a, NEW b, NEW v
    PROVE  Mutual(a, b, v) <=> Mutual(b, a, v)
BY DEF Mutual

\* The rows after update_accepted_peers are what the policies say, but for the
\* VLANs still to be resolved.
LEMMA RowsUpdated ==
    ASSUME IInv, NEW v \in Vlans, NEW a \in ASes, a = work.asys, NEW rows,
           rows = IF work.refresh THEN UpdatedAcceptedPeers(a, v) ELSE accepted
    PROVE  /\ rows \subseteq Vlans \X ASes \X ASes
           /\ \A u \in Vlans, x \in ASes, y \in ASes :
                 ~(work.refresh /\ x = a /\ u \in work.vlans \ {v}) =>
                     (<<u, x, y>> \in rows <=> Accepts(x, y, policies[u][x], Members(u)))
           /\ MutuallyAccepted(a, v, rows) = {b \in ASes : Mutual(a, b, v)}
<1>1. accepted \subseteq Vlans \X ASes \X ASes
  BY DEF IInv, TypeOK
<1>2. Members(v) \in SUBSET ASes /\ policies[v][a] \in Policies(a)
  BY LinkResolverAssumption DEF IInv, OwnPolicies, Members
<1>3. /\ GetAcceptedPeers(a, policies[v][a], Members(v))
            = {b \in ASes : Accepts(a, b, policies[v][a], Members(v))}
  BY <1>2, AcceptedPeersFollowPrecedence
<1> DEFINE peers == {b \in ASes : Accepts(a, b, policies[v][a], Members(v))}
<1>4. work.refresh => rows = {r \in accepted : r[1] # v \/ r[2] # a} \cup {<<v, a, b>> : b \in peers}
  BY <1>3 DEF UpdatedAcceptedPeers
<1>5. ~work.refresh => rows = accepted
  OBVIOUS
<1>6. rows \subseteq Vlans \X ASes \X ASes
  BY <1>1, <1>4, <1>5
<1>7. ASSUME NEW u \in Vlans, NEW x \in ASes, NEW y \in ASes,
             ~(work.refresh /\ x = a /\ u \in work.vlans \ {v})
      PROVE  <<u, x, y>> \in rows <=> Accepts(x, y, policies[u][x], Members(u))
  <2>1. CASE work.refresh /\ x = a /\ u = v
    BY <1>4, <2>1
  <2>2. CASE ~(work.refresh /\ x = a /\ u = v)
    <3>1. <<u, x, y>> \in rows <=> <<u, x, y>> \in accepted
      BY <1>4, <1>5, <2>2
    <3> QED  BY <1>7, <2>2, <3>1 DEF IInv, Fresh, Outdated
  <2> QED  BY <2>1, <2>2
<1>8. MutuallyAccepted(a, v, rows) = {b \in ASes : Mutual(a, b, v)}
  <2>1. ASSUME NEW b \in ASes
        PROVE  (<<v, a, b>> \in rows /\ <<v, b, a>> \in rows) <=> Mutual(a, b, v)
    BY <1>7 DEF Mutual
  <2> QED  BY <2>1 DEF MutuallyAccepted
<1> QED  BY <1>6, <1>7, <1>8

\* The links left in a VLAN that has been resolved are between peers that want them.
LEMMA LinksResolved ==
    ASSUME IInv, NEW v \in Vlans, NEW a \in ASes, NEW wanted,
           NEW l \in links, l \notin LinksWith(a, ConnectedPeers(a, v) \ wanted, v),
           VlanOf[l.a] = v
    PROVE  /\ AsOf[l.a] = a => AsOf[l.b] \in wanted
           /\ AsOf[l.b] = a => AsOf[l.a] \in wanted
<1>1. l.a \in Interfaces /\ l.b \in Interfaces /\ VlanOf[l.b] = v
  BY DEF IInv, TypeOK, Link, LinksAgreed, Agreed
<1>2. AsOf[l.a] = a => AsOf[l.b] \in ConnectedPeers(a, v)
  BY <1>1 DEF ConnectedPeers, InterfacesIn
<1>3. AsOf[l.b] = a => AsOf[l.a] \in ConnectedPeers(a, v)
  BY <1>1 DEF ConnectedPeers, InterfacesIn
<1> QED  BY <1>2, <1>3 DEF LinksWith

Partners(a, v) == {b \in ASes : Mutual(a, b, v)}
ToCreate(a, v) == UNION {PairsToLink(a, b, v) : b \in Partners(a, v) \ ConnectedPeers(a, v)}

\* An update of the links in one VLAN, with the peers that are to be linked.
LEMMA Updated ==
    ASSUME IInv, NEW v \in Vlans, UpdateLinks(v), NEW a, a = work.asys
    PROVE  /\ v \in work.vlans /\ work.todo = {} /\ a \in ASes /\ a \notin Partners(a, v)
           /\ UNCHANGED <<policies, range>>
           /\ accepted' \subseteq Vlans \X ASes \X ASes
           /\ \A u \in Vlans, x \in ASes, y \in ASes :
                 ~(work.refresh /\ x = a /\ u \in work.vlans \ {v}) =>
                     (<<u, x, y>> \in accepted' <=> Accepts(x, y, policies[u][x], Members(u)))
           /\ links' = links \ LinksWith(a, ConnectedPeers(a, v) \ Partners(a, v), v)
           /\ work' = [asys |-> a, vlans |-> work.vlans \ {v}, refresh |-> work.refresh,
                       todo |-> ToCreate(a, v)]
<1>t. work \in [asys : ASes, vlans : SUBSET Vlans, refresh : BOOLEAN, todo : SUBSET Pair]
  BY DEF IInv, TypeOK
<1>1. a \in ASes /\ a \notin Partners(a, v)
  BY <1>t DEF Partners, Mutual, Accepts
<1>2. PICK rows : rows = accepted'
  OBVIOUS
<1>3. rows = IF work.refresh THEN UpdatedAcceptedPeers(a, v) ELSE accepted
  BY <1>2 DEF UpdateLinks
<1>4. /\ rows \subseteq Vlans \X ASes \X ASes
      /\ \A u \in Vlans, x \in ASes, y \in ASes :
            ~(work.refresh /\ x = a /\ u \in work.vlans \ {v}) =>
                (<<u, x, y>> \in rows <=> Accepts(x, y, policies[u][x], Members(u)))
      /\ MutuallyAccepted(a, v, rows) = Partners(a, v)
  BY <1>1, <1>3, RowsUpdated DEF Partners
<1>5. /\ v \in work.vlans /\ work.todo = {} /\ UNCHANGED <<policies, range>>
      /\ links' = links \ LinksWith(a, ConnectedPeers(a, v) \ MutuallyAccepted(a, v, accepted'), v)
      /\ work' = [work EXCEPT !.vlans = @ \ {v},
                              !.todo = UNION {PairsToLink(a, b, v) :
                                          b \in MutuallyAccepted(a, v, accepted') \ ConnectedPeers(a, v)}]
  BY DEF UpdateLinks
<1>6. /\ links' = links \ LinksWith(a, ConnectedPeers(a, v) \ Partners(a, v), v)
      /\ work' = [work EXCEPT !.vlans = @ \ {v}, !.todo = ToCreate(a, v)]
  BY <1>2, <1>4, <1>5 DEF ToCreate
<1>7. work' = [asys |-> a, vlans |-> work.vlans \ {v}, refresh |-> work.refresh,
               todo |-> ToCreate(a, v)]
  BY <1>t, <1>6
<1> QED  BY <1>1, <1>2, <1>4, <1>5, <1>6, <1>7

\* What is to be created: one link for every pair of interfaces.
LEMMA CreateTypes ==
    ASSUME NEW a \in ASes, NEW v \in Vlans
    PROVE  /\ ToCreate(a, v) \subseteq Pair
           /\ \A x \in ToCreate(a, v) :
                 /\ x.a \in Interfaces /\ x.b \in Interfaces
                 /\ VlanOf[x.a] = v /\ VlanOf[x.b] = v
                 /\ \E b \in Partners(a, v) \ ConnectedPeers(a, v) :
                       \/ AsOf[x.a] = a /\ AsOf[x.b] = b
                       \/ AsOf[x.a] = b /\ AsOf[x.b] = a
           /\ \A x, y \in ToCreate(a, v) : {x.a, x.b} = {y.a, y.b} => x = y
<1>1. \A b \in Partners(a, v) : b \in ASes /\ a # b
  BY DEF Partners, Mutual, Accepts
<1>2. ASSUME NEW x \in ToCreate(a, v)
      PROVE  /\ x \in Pair
             /\ \E b \in Partners(a, v) \ ConnectedPeers(a, v) :
                /\ x \in PairsToLink(a, b, v)
                /\ x.a \in Interfaces /\ x.b \in Interfaces
                /\ VlanOf[x.a] = v /\ VlanOf[x.b] = v
                /\ \/ AsOf[x.a] = a /\ AsOf[x.b] = b
                   \/ AsOf[x.a] = b /\ AsOf[x.b] = a
  <2>1. PICK b \in Partners(a, v) \ ConnectedPeers(a, v) : x \in PairsToLink(a, b, v)
    BY DEF ToCreate
  <2> QED  BY <1>1, <2>1, PairsDiffer
<1>3. ASSUME NEW x \in ToCreate(a, v), NEW y \in ToCreate(a, v), {x.a, x.b} = {y.a, y.b}
      PROVE  x = y
  <2>1. PICK b \in Partners(a, v) : /\ x \in PairsToLink(a, b, v)
                                    /\ \/ AsOf[x.a] = a /\ AsOf[x.b] = b
                                       \/ AsOf[x.a] = b /\ AsOf[x.b] = a
    BY <1>2
  <2>2. PICK c \in Partners(a, v) : /\ y \in PairsToLink(a, c, v)
                                    /\ \/ AsOf[y.a] = a /\ AsOf[y.b] = c
                                       \/ AsOf[y.a] = c /\ AsOf[y.b] = a
    BY <1>2
  <2>3. b = c
    <3>1. (x.a = y.a /\ x.b = y.b) \/ (x.a = y.b /\ x.b = y.a)
      BY <1>3
    <3> QED  BY <1>1, <2>1, <2>2, <3>1
  <2> QED  BY <1>1, <1>3, <2>1, <2>2, <2>3, PairsDiffer
<1> QED  BY <1>2, <1>3

LEMMA TypeStep ==
    ASSUME IInv, [Next]_vars
    PROVE  TypeOK'
<1>t. TypeOK
  BY DEF IInv
<1>1. ASSUME NEW a \in ASes, NEW v \in Vlans, NEW t \in Targets, NEW verdict \in Verdicts,
             ChangePolicy(a, v, t, verdict)
      PROVE  TypeOK'
  BY <1>1, <1>t, LinkResolverAssumption DEF ChangePolicy, TypeOK, Policies
<1>2. ASSUME NEW a \in ASes, NEW vs \in SUBSET Vlans, NEW new \in [Vlans -> Choices],
             SetPolicies(a, vs, new)
      PROVE  TypeOK'
  <2>1. ConnectedVlans(a) \subseteq Vlans
    BY LinkResolverAssumption DEF ConnectedVlans
  <2>2. policies' \in [Vlans -> [ASes -> [Targets -> Verdicts]]]
    BY <1>2, <1>t, LinkResolverAssumption DEF SetPolicies, TypeOK
  <2> QED  BY <1>2, <1>t, <2>1, <2>2 DEF SetPolicies, TypeOK
<1>3. ASSUME NEW i \in Interfaces, NEW r \in PortRanges, SetPortRange(AsOf[i], i, r) PROVE TypeOK'
  <2>1. range' \in [Interfaces -> PortRanges \cup {NoPorts}]
    BY <1>3, <1>t DEF SetPortRange, TypeOK
  <2>2. AsOf[i] \in ASes /\ VlanOf[i] \in Vlans
    BY LinkResolverAssumption
  <2>3. \/ work' = work
        \/ work' = [asys |-> AsOf[i], vlans |-> {VlanOf[i]}, refresh |-> FALSE, todo |-> {}]
    BY <1>3 DEF SetPortRange
  <2>4. work' \in [asys : ASes, vlans : SUBSET Vlans, refresh : BOOLEAN, todo : SUBSET Pair]
    <3>1. {VlanOf[i]} \in SUBSET Vlans /\ FALSE \in BOOLEAN /\ {} \in SUBSET Pair
      BY <2>2
    <3>2. CASE work' = work
      BY <1>t, <3>2 DEF TypeOK
    <3>3. CASE work' = [asys |-> AsOf[i], vlans |-> {VlanOf[i]}, refresh |-> FALSE, todo |-> {}]
      BY <2>2, <3>1, <3>3
    <3> QED  BY <2>3, <3>2, <3>3
  <2>5. UNCHANGED <<policies, accepted>> /\ links' \subseteq links
    BY <1>3 DEF SetPortRange
  <2> QED  BY <1>t, <2>1, <2>4, <2>5 DEF TypeOK
<1>4. ASSUME NEW v \in Vlans, UpdateLinks(v) PROVE TypeOK'
  <2>1. PICK a : a = work.asys
    OBVIOUS
  <2>2. /\ a \in ASes
        /\ UNCHANGED <<policies, range>>
        /\ accepted' \subseteq Vlans \X ASes \X ASes
        /\ links' \subseteq links
        /\ work' = [asys |-> a, vlans |-> work.vlans \ {v}, refresh |-> work.refresh,
                    todo |-> ToCreate(a, v)]
    BY <1>4, <2>1, Updated
  <2>3. ToCreate(a, v) \subseteq Pair
    BY <2>2, CreateTypes
  <2> QED  BY <1>t, <2>2, <2>3 DEF TypeOK
<1>5. ASSUME NEW x \in work.todo, CreateLink(x) PROVE TypeOK'
  <2>1. x \in Pair
    BY <1>t DEF TypeOK
  <2>2. x.a \in Interfaces /\ x.b \in Interfaces /\ x.type \in {"core", "peering", "provider"}
    BY <2>1 DEF Pair
  <2>3. UnusedPort(x.a) \subseteq Nat /\ UnusedPort(x.b) \subseteq Nat
    BY <1>t, <2>2, PortTypes
  <2>4. links' \subseteq Link
    BY <1>5, <1>t, <2>2, <2>3 DEF CreateLink, TypeOK, Link
  <2> QED  BY <1>5, <1>t, <2>4 DEF CreateLink, TypeOK
<1>6. ASSUME UNCHANGED vars PROVE TypeOK'
  BY <1>6, <1>t DEF vars, TypeOK
<1>7. \A v \in Vlans : {v} \in SUBSET Vlans /\ Vlans \in SUBSET Vlans
  OBVIOUS
<1> QED
  BY <1>1, <1>2, <1>3, <1>4, <1>5, <1>6, <1>7 DEF Next, Resolve, ChangePolicies, SetOwnPortRange, UpdateLinks, TypeOK

LEMMA InvInit == Init => IInv
<1> SUFFICES ASSUME Init PROVE IInv
  OBVIOUS
<1>1. TypeOK
  <2>1. policies \in [Vlans -> [ASes -> [Targets -> Verdicts]]]
    BY DEF Init, Verdicts
  <2>2. range \in [Interfaces -> PortRanges \cup {NoPorts}]
    BY DEF Init
  <2>3. work \in [asys : ASes, vlans : SUBSET Vlans, refresh : BOOLEAN, todo : SUBSET Pair]
    BY DEF Init
  <2> QED  BY <2>1, <2>2, <2>3 DEF Init, TypeOK
<1>2. OwnPolicies /\ Fresh
  <2>1. \A v \in Vlans, a \in ASes : policies[v][a] = [t \in Targets |-> "none"]
    BY DEF Init
  <2> QED  BY <2>1, NoPolicies DEF Init, OwnPolicies, Fresh
<1>3. LinksAgreed /\ PairsAgreed /\ OneLinkPerPair
  <2>1. links = {} /\ work.todo = {}
    BY DEF Init
  <2> QED  BY <2>1 DEF LinksAgreed, PairsAgreed, OneLinkPerPair
<1> QED  BY <1>1, <1>2, <1>3 DEF IInv

Rest == OwnPolicies /\ Fresh /\ LinksAgreed /\ PairsAgreed /\ OneLinkPerPair

\* Between RPCs nothing is outdated.
LEMMA IdleAgrees ==
    ASSUME IInv, Idle
    PROVE  /\ work.todo = {}
           /\ \A l \in links : Agreed(l) /\ Mutual(AsOf[l.a], AsOf[l.b], VlanOf[l.a])
           /\ \A v \in Vlans, a \in ASes, b \in ASes :
                 <<v, a, b>> \in accepted <=> Accepts(a, b, policies[v][a], Members(v))
BY DEF IInv, Idle, LinksAgreed, Unresolved, Fresh, Outdated

\* An RPC that changed policies of one AS has all they matter for left to do.
LEMMA PoliciesChanged ==
    ASSUME IInv, Idle, OwnPolicies', NEW a \in ASes,
           work'.asys = a, work'.refresh, work'.todo = {}, UNCHANGED <<accepted, links>>,
           \A v \in Vlans, x \in ASes : x # a \/ v \notin work'.vlans => policies'[v][x] = policies[v][x]
    PROVE  Rest'
<1>1. Fresh'
  <2>1. ASSUME NEW v \in Vlans, NEW x \in ASes, NEW y \in ASes, x # a \/ v \notin work'.vlans
        PROVE  <<v, x, y>> \in accepted' <=> Accepts(x, y, policies'[v][x], Members(v))
    BY <2>1, IdleAgrees
  <2> QED  BY <2>1 DEF Fresh, Outdated
<1>2. LinksAgreed'
  <2>1. ASSUME NEW l \in links',
               ~(VlanOf[l.a] \in work'.vlans /\ a \in {AsOf[l.a], AsOf[l.b]})
        PROVE  Mutual(AsOf[l.a], AsOf[l.b], VlanOf[l.a])'
    <3>1. /\ l \in links /\ Mutual(AsOf[l.a], AsOf[l.b], VlanOf[l.a])
      BY IdleAgrees
    <3>2. l.a \in Interfaces /\ l.b \in Interfaces
      BY <3>1 DEF IInv, TypeOK, Link
    <3>3. VlanOf[l.a] \in Vlans /\ AsOf[l.a] \in ASes /\ AsOf[l.b] \in ASes
      BY <3>2, LinkResolverAssumption
    <3>4. /\ policies'[VlanOf[l.a]][AsOf[l.a]] = policies[VlanOf[l.a]][AsOf[l.a]]
          /\ policies'[VlanOf[l.a]][AsOf[l.b]] = policies[VlanOf[l.a]][AsOf[l.b]]
      BY <2>1, <3>3
    <3> QED  BY <3>1, <3>4 DEF Mutual
  <2> QED  BY <2>1, IdleAgrees DEF LinksAgreed, Unresolved, Agreed
<1>3. PairsAgreed' /\ OneLinkPerPair'
  BY DEF PairsAgreed, OneLinkPerPair, IInv
<1> QED  BY <1>1, <1>2, <1>3 DEF Rest

LEMMA InvStep == IInv /\ [Next]_vars => IInv'
<1> SUFFICES ASSUME IInv, [Next]_vars PROVE IInv'
  OBVIOUS
<1>t. TypeOK /\ TypeOK'
  BY TypeStep DEF IInv
<1>o. UNCHANGED policies => OwnPolicies'
  BY DEF IInv, OwnPolicies
<1>1. ASSUME NEW a \in ASes, NEW v \in Vlans, NEW t \in Targets, NEW verdict \in Verdicts,
             ChangePolicy(a, v, t, verdict)
      PROVE  Rest'
  <2>1. PICK p \in Policies(a) : policies' = [policies EXCEPT ![v][a] = p]
    BY <1>1 DEF ChangePolicy
  <2>2. /\ Idle /\ a \in Members(v) /\ UNCHANGED <<accepted, links>>
        /\ work' = [asys |-> a, vlans |-> {v}, refresh |-> TRUE, todo |-> {}]
    BY <1>1 DEF ChangePolicy
  <2>3. /\ policies'[v][a] = p
        /\ \A u \in Vlans, x \in ASes : x # a \/ u # v => policies'[u][x] = policies[u][x]
    BY <2>1, <1>t DEF TypeOK
  <2>4. OwnPolicies'
    BY <2>2, <2>3 DEF IInv, OwnPolicies
  <2> QED  BY <2>2, <2>3, <2>4, PoliciesChanged
<1>2. ASSUME NEW a \in ASes, NEW vs \in SUBSET Vlans, NEW new, SetPolicies(a, vs, new)
      PROVE  Rest'
  <2> DEFINE None == [t \in Targets |-> "none"]
  <2>1. /\ Idle /\ UNCHANGED <<accepted, links>>
        /\ work' = [asys |-> a, vlans |-> ConnectedVlans(a), refresh |-> TRUE, todo |-> {}]
        /\ \A v \in vs : new[v] = None \/ (a \in Members(v) /\ new[v] \in Policies(a))
        /\ policies' = [v \in Vlans |->
                            IF v \in vs THEN [policies[v] EXCEPT ![a] = new[v]] ELSE policies[v]]
    BY <1>2 DEF SetPolicies
  <2>2. /\ \A v \in vs : policies'[v][a] = new[v]
        /\ \A v \in Vlans, x \in ASes : x # a \/ v \notin vs => policies'[v][x] = policies[v][x]
    BY <2>1, <1>t DEF TypeOK
  <2>3. OwnPolicies'
    <3>1. None \in Policies(a)
      BY NoPolicies
    <3> QED  BY <2>1, <2>2, <3>1 DEF IInv, OwnPolicies
  <2>4. \A v \in Vlans : v \notin ConnectedVlans(a) => a \notin Members(v)
    BY DEF ConnectedVlans, Members
  <2>5. \A v \in Vlans : v \notin ConnectedVlans(a) => policies'[v][a] = policies[v][a]
    BY <2>3, <2>4 DEF IInv, OwnPolicies
  <2>6. /\ work'.asys = a /\ work'.refresh /\ work'.todo = {}
        /\ work'.vlans = ConnectedVlans(a)
    BY <2>1
  <2>7. \A v \in Vlans, x \in ASes : x # a \/ v \notin work'.vlans => policies'[v][x] = policies[v][x]
    BY <2>2, <2>5, <2>6
  <2> QED  BY <2>1, <2>3, <2>6, <2>7, PoliciesChanged
<1>3. ASSUME NEW i \in Interfaces, NEW r \in PortRanges, SetPortRange(AsOf[i], i, r) PROVE Rest'
  <2>1. /\ Idle /\ UNCHANGED <<policies, accepted>> /\ links' \subseteq links
        /\ work'.todo = {}
        /\ work'.vlans = {} \/ ~work'.refresh
    BY <1>3 DEF SetPortRange, Idle
  <2>2. Fresh'
    BY <2>1, IdleAgrees DEF Fresh, Outdated
  <2>3. LinksAgreed'
    BY <2>1, IdleAgrees DEF LinksAgreed, Agreed, Mutual
  <2>4. PairsAgreed' /\ OneLinkPerPair'
    BY <2>1 DEF PairsAgreed, OneLinkPerPair, IInv
  <2> QED  BY <1>o, <2>1, <2>2, <2>3, <2>4 DEF Rest
<1>4. ASSUME NEW v \in Vlans, UpdateLinks(v) PROVE Rest'
  <2>1. PICK a : a = work.asys
    OBVIOUS
  <2>2. /\ v \in work.vlans /\ work.todo = {} /\ a \in ASes /\ a \notin Partners(a, v)
        /\ UNCHANGED policies
        /\ \A u \in Vlans, x \in ASes, y \in ASes :
              ~(work.refresh /\ x = a /\ u \in work.vlans \ {v}) =>
                  (<<u, x, y>> \in accepted' <=> Accepts(x, y, policies[u][x], Members(u)))
        /\ links' = links \ LinksWith(a, ConnectedPeers(a, v) \ Partners(a, v), v)
        /\ work' = [asys |-> a, vlans |-> work.vlans \ {v}, refresh |-> work.refresh,
                    todo |-> ToCreate(a, v)]
    BY <1>4, <2>1, Updated
  <2>3. /\ work'.asys = a /\ work'.vlans = work.vlans \ {v} /\ work'.refresh = work.refresh
        /\ work'.todo = ToCreate(a, v)
    BY <2>2
  <2>4. Fresh'
    BY <2>2, <2>3 DEF Fresh, Outdated
  <2>5. \A b \in Partners(a, v) : Mutual(a, b, v) /\ Mutual(b, a, v) /\ b # a
    BY <2>2, MutualIsSymmetric DEF Partners
  <2>6. LinksAgreed'
    <3>1. ASSUME NEW l \in links'
          PROVE  /\ Agreed(l)
                 /\ \/ VlanOf[l.a] \in work'.vlans /\ a \in {AsOf[l.a], AsOf[l.b]}
                    \/ Mutual(AsOf[l.a], AsOf[l.b], VlanOf[l.a])
      <4>1. /\ l \in links /\ l \notin LinksWith(a, ConnectedPeers(a, v) \ Partners(a, v), v)
            /\ Agreed(l) /\ (Unresolved(l) \/ Mutual(AsOf[l.a], AsOf[l.b], VlanOf[l.a]))
        BY <2>2 DEF IInv, LinksAgreed
      <4>2. CASE VlanOf[l.a] = v /\ Unresolved(l)
        BY <2>1, <2>5, <4>1, <4>2, <2>2, LinksResolved DEF Unresolved
      <4>3. CASE ~(VlanOf[l.a] = v /\ Unresolved(l))
        BY <2>1, <2>3, <4>1, <4>3 DEF Unresolved
      <4> QED  BY <4>2, <4>3
    <3> QED  BY <2>2, <2>3, <3>1 DEF LinksAgreed, Unresolved, Agreed, Mutual
  <2>7. PairsAgreed'
    <3>1. ASSUME NEW x \in ToCreate(a, v)
          PROVE  /\ Agreed(x) /\ Mutual(AsOf[x.a], AsOf[x.b], VlanOf[x.a])
                 /\ \A l \in links' : {l.a, l.b} # {x.a, x.b}
      <4>1. PICK b \in Partners(a, v) \ ConnectedPeers(a, v) :
               /\ x.a \in Interfaces /\ x.b \in Interfaces
               /\ VlanOf[x.a] = v /\ VlanOf[x.b] = v
               /\ \/ AsOf[x.a] = a /\ AsOf[x.b] = b
                  \/ AsOf[x.a] = b /\ AsOf[x.b] = a
        BY <2>2, CreateTypes
      <4>2. Agreed(x) /\ Mutual(AsOf[x.a], AsOf[x.b], VlanOf[x.a])
        BY <2>5, <4>1 DEF Agreed
      <4>3. ASSUME NEW l \in links', {l.a, l.b} = {x.a, x.b} PROVE FALSE
        <5>1. l \in links
          BY <2>2
        <5>2. \/ l.a \in InterfacesIn(a, v) /\ AsOf[l.b] = b
              \/ l.b \in InterfacesIn(a, v) /\ AsOf[l.a] = b
          <6>1. (l.a = x.a /\ l.b = x.b) \/ (l.a = x.b /\ l.b = x.a)
            BY <4>3
          <6> QED  BY <4>1, <6>1 DEF InterfacesIn
        <5> QED  BY <4>1, <5>1, <5>2 DEF ConnectedPeers
      <4> QED  BY <4>2, <4>3
    <3>2. \A x, y \in ToCreate(a, v) : {x.a, x.b} = {y.a, y.b} => x = y
      BY <2>2, CreateTypes
    <3> QED  BY <2>2, <2>3, <3>1, <3>2 DEF PairsAgreed, Agreed, Mutual
  <2>8. OneLinkPerPair'
    BY <2>2 DEF IInv, OneLinkPerPair
  <2> QED  BY <1>o, <2>2, <2>4, <2>6, <2>7, <2>8 DEF Rest
<1>5. ASSUME NEW x \in work.todo, CreateLink(x) PROVE Rest'
  <2>1. PICK fresh : fresh = links' \ links
    OBVIOUS
  <2>f. \A l \in fresh : \E p \in UnusedPort(x.a), q \in UnusedPort(x.b) :
           l = [type |-> x.type, a |-> x.a, port_a |-> p, b |-> x.b, port_b |-> q]
    BY <1>5, <2>1 DEF CreateLink
  <2>2. /\ links' = links \cup fresh /\ UNCHANGED <<policies, accepted, range>>
        /\ work' = [work EXCEPT !.todo = @ \ {x}]
    BY <1>5, <2>1 DEF CreateLink
  <2>3. /\ work'.asys = work.asys /\ work'.vlans = work.vlans /\ work'.refresh = work.refresh
        /\ work'.todo = work.todo \ {x}
    BY <1>t, <2>2 DEF TypeOK
  <2>4. \A l \in fresh : l.a = x.a /\ l.b = x.b
    BY <2>f
  <2>5. \A k, l \in fresh : k = l
    <3>1. x.a \in Interfaces /\ x.b \in Interfaces
      BY <1>t DEF TypeOK, Pair
    <3> QED  BY <1>t, <2>f, <3>1, PortTypes
  <2>6. /\ Agreed(x) /\ Mutual(AsOf[x.a], AsOf[x.b], VlanOf[x.a])
        /\ \A l \in links : {l.a, l.b} # {x.a, x.b}
        /\ \A y \in work.todo : {x.a, x.b} = {y.a, y.b} => x = y
    BY DEF IInv, PairsAgreed
  <2>7. Fresh'
    BY <2>2, <2>3 DEF IInv, Fresh, Outdated
  <2>8. LinksAgreed'
    BY <2>2, <2>3, <2>4, <2>6 DEF IInv, LinksAgreed, Agreed, Unresolved, Mutual
  <2>9. PairsAgreed'
    <3>1. ASSUME NEW y \in work.todo \ {x}
          PROVE  /\ Agreed(y) /\ Mutual(AsOf[y.a], AsOf[y.b], VlanOf[y.a])
                 /\ \A l \in links' : {l.a, l.b} # {y.a, y.b}
                 /\ \A z \in work.todo : {y.a, y.b} = {z.a, z.b} => y = z
      <4>1. /\ Agreed(y) /\ Mutual(AsOf[y.a], AsOf[y.b], VlanOf[y.a])
            /\ \A l \in links : {l.a, l.b} # {y.a, y.b}
            /\ \A z \in work.todo : {y.a, y.b} = {z.a, z.b} => y = z
        BY DEF IInv, PairsAgreed
      <4>2. \A l \in fresh : {l.a, l.b} # {y.a, y.b}
        BY <2>4, <2>6, <3>1
      <4> QED  BY <2>2, <4>1, <4>2
    <3> QED  BY <2>2, <2>3, <3>1 DEF PairsAgreed, Agreed, Mutual
  <2>10. OneLinkPerPair'
    <3>1. ASSUME NEW k \in links', NEW l \in links', {k.a, k.b} = {l.a, l.b} PROVE k = l
      BY <2>2, <2>4, <2>5, <2>6, <3>1 DEF IInv, OneLinkPerPair
    <3> QED  BY <3>1 DEF OneLinkPerPair
  <2> QED  BY <1>o, <2>2, <2>7, <2>8, <2>9, <2>10 DEF Rest
<1>6. ASSUME UNCHANGED vars PROVE Rest'
  BY <1>6 DEF vars, Rest, IInv, OwnPolicies, Fresh, Outdated, LinksAgreed, Agreed, Unresolved,
     Mutual, PairsAgreed, OneLinkPerPair
<1>7. Rest'
  BY <1>1, <1>2, <1>3, <1>4, <1>5, <1>6, <1>t
  DEF Next, Resolve, ChangePolicies, SetOwnPortRange, UpdateLinks, TypeOK
<1> QED  BY <1>t, <1>7 DEF IInv, Rest

\* The strengthened invariant holds in every reachable state.
THEOREM InvCorrect == Spec => []IInv
BY InvInit, InvStep, PTL DEF Spec

\* The tables and the running RPC's work are what they are meant to hold: every
\* link has a port for each end (policy_resolver.py:136-145).
THEOREM TypeCorrect == Spec => []TypeOK
<1>1. IInv => TypeOK
  BY DEF IInv
<1> QED  BY <1>1, InvCorrect, PTL

\* Between RPCs the AcceptedPeer rows are what the policies say, for every AS and
\* VLAN, whichever RPC changed them and in whatever order it went through the
\* VLANs (policy_resolver.py:14-33).
THEOREM RowsAreUpToDate == Spec => []AcceptedUpToDate
<1>1. ASSUME IInv, Idle
      PROVE  accepted = {r \in Vlans \X ASes \X ASes :
                            Accepts(r[2], r[3], policies[r[1]][r[2]], Members(r[1]))}
  <2>1. accepted \subseteq Vlans \X ASes \X ASes
    BY <1>1 DEF IInv, TypeOK
  <2> QED  BY <1>1, <2>1, IdleAgrees
<1>2. IInv => AcceptedUpToDate
  BY <1>1 DEF AcceptedUpToDate
<1> QED  BY <1>2, InvCorrect, PTL

\* Between RPCs a link exists only where both its ASes accept each other by the
\* policies they have now (policy_resolver.py:96-112).
THEOREM LinksNeedBothSides == Spec => []LinksAreMutual
<1>1. IInv => LinksAreMutual
  BY IdleAgrees DEF LinksAreMutual
<1> QED  BY <1>1, InvCorrect, PTL

\* Two interfaces are never linked twice, in whichever direction, not even in the
\* middle of an RPC (models/ixp.py:346).
THEOREM NoSecondLink == Spec => []OneLinkPerPair
<1>1. IInv => OneLinkPerPair
  BY DEF IInv
<1> QED  BY <1>1, InvCorrect, PTL

\* A link two ASes keep agreeing on survives whatever policies change around it:
\* only a new port range of one of its interfaces replaces it
\* (policy_resolver.py:99-112).
THEOREM WantedLinksSurvive == Spec => WantedLinksStay
<1>1. ASSUME IInv, [Next]_vars, NEW l \in links \ links', Mutual(AsOf[l.a], AsOf[l.b], VlanOf[l.a])
      PROVE  range'[l.a] # range[l.a] \/ range'[l.b] # range[l.b]
  <2>1. l.a \in Interfaces /\ l.b \in Interfaces
    BY <1>1 DEF IInv, TypeOK, Link
  <2>2. ASSUME NEW i \in Interfaces, NEW r \in PortRanges, SetPortRange(AsOf[i], i, r)
        PROVE  range'[l.a] # range[l.a] \/ range'[l.b] # range[l.b]
    <3>1. ~(r.first <= range[i].first /\ r.last >= range[i].last) /\ i \in {l.a, l.b}
      BY <2>2 DEF SetPortRange, LinksOf
    <3>2. r.first \in Nat /\ r.last \in Nat
      BY LinkResolverAssumption
    <3>3. r # range[i]
      BY <3>1, <3>2
    <3>4. range'[i] = r
      BY <1>1, <2>2 DEF SetPortRange, IInv, TypeOK
    <3> QED  BY <3>1, <3>3, <3>4
  <2>3. ASSUME NEW v \in Vlans, UpdateLinks(v) PROVE FALSE
    <3>1. PICK a : a = work.asys
      OBVIOUS
    <3>2. /\ a \in ASes
          /\ links' = links \ LinksWith(a, ConnectedPeers(a, v) \ Partners(a, v), v)
      BY <1>1, <2>3, <3>1, Updated
    <3>3. VlanOf[l.a] = v /\ \E b \in ConnectedPeers(a, v) \ Partners(a, v) :
                                <<AsOf[l.a], AsOf[l.b]>> \in {<<a, b>>, <<b, a>>}
      BY <3>2 DEF LinksWith
    <3>4. PICK b \in ConnectedPeers(a, v) \ Partners(a, v) :
             \/ AsOf[l.a] = a /\ AsOf[l.b] = b
             \/ AsOf[l.a] = b /\ AsOf[l.b] = a
      BY <3>3
    <3>5. b \in ASes
      BY <2>1, <3>4, LinkResolverAssumption
    <3>6. ~Mutual(a, b, v) /\ ~Mutual(b, a, v)
      BY <3>5, MutualIsSymmetric DEF Partners
    <3> QED  BY <1>1, <3>3, <3>4, <3>6
  <2>4. ASSUME \/ ChangePolicies
               \/ \E x \in work.todo : CreateLink(x)
               \/ UNCHANGED vars
        PROVE  FALSE
    <3>1. ChangePolicies => UNCHANGED links
      BY DEF ChangePolicies, ChangePolicy, SetPolicies
    <3>2. (\E x \in work.todo : CreateLink(x)) => links \subseteq links'
      BY DEF CreateLink
    <3>3. links \subseteq links'
      BY <2>4, <3>1, <3>2 DEF vars
    <3> QED  BY <1>1, <3>3
  <2> QED
    BY <1>1, <2>2, <2>3, <2>4 DEF Next, Resolve, SetOwnPortRange
<1>2. IInv /\ [Next]_vars =>
        [\A l \in links \ links' :
          \/ ~Mutual(AsOf[l.a], AsOf[l.b], VlanOf[l.a])
          \/ range'[l.a] # range[l.a]
          \/ range'[l.b] # range[l.b]]_vars
  BY <1>1
<1> QED  BY <1>2, InvCorrect, PTL DEF Spec, WantedLinksStay

-----------------------------------------------------------------------------
\* The ports of all links of an AS differ, not only those of one interface.
PortsDiffer == \A a \in ASes : \A d, e \in Ends(a) : d[2] = e[2] => d = e

PortsInRange ==
    \A l \in links : /\ l.port_a \in range[l.a].first..(range[l.a].last - 1)
                     /\ l.port_b \in range[l.b].first..(range[l.b].last - 1)

\* The port ranges of an AS start at the same port: what get_unused_port needs
\* to compare the ports of all links of the AS with one range.
SameStart ==
    \A i, j \in Interfaces : AsOf[i] = AsOf[j] =>
        range[i] = NoPorts \/ range[j] = NoPorts \/ range[i].first = range[j].first

\* A nonempty set of natural numbers has a least member.
LEMMA Least ==
    ASSUME NEW T \in SUBSET Nat, T # {}
    PROVE  \E n \in T : \A m \in T : n <= m
<1> DEFINE less == OpToRel(<, Nat)
<1>1. IsWellFoundedOn(less, Nat)
  BY NatLessThanWellFounded
<1>2. \A m, n \in Nat : m < n => <<m, n>> \in less
  BY DEF OpToRel
<1> HIDE DEF less
<1>3. PICK n \in T : \A m \in T : <<m, n>> \notin less
  BY <1>1, WFMin
<1>4. \A m \in T : m \in Nat /\ n \in Nat /\ ~(m < n)
  BY <1>2, <1>3
<1>5. \A m \in T : n <= m
  BY <1>4
<1> QED  BY <1>5

\* An end of a link of the AS, and the link's other end at another AS.
LEMMA EndTypes ==
    ASSUME IInv, NEW a, NEW e \in Ends(a)
    PROVE  /\ e[1] \in links /\ e[2] \in Nat
           /\ \/ e = <<e[1], e[1].port_a>> /\ AsOf[e[1].a] = a /\ AsOf[e[1].b] # a
              \/ e = <<e[1], e[1].port_b>> /\ AsOf[e[1].b] = a /\ AsOf[e[1].a] # a
<1>1. \A l \in links : l.port_a \in Nat /\ l.port_b \in Nat /\ AsOf[l.a] # AsOf[l.b]
  BY DEF IInv, TypeOK, Link, LinksAgreed, Agreed
<1>2. PICK l \in links : \/ e = <<l, l.port_a>> /\ AsOf[l.a] = a
                         \/ e = <<l, l.port_b>> /\ AsOf[l.b] = a
  BY DEF Ends
<1> QED  BY <1>1, <1>2

\* There are finitely many links: no pair of interfaces has two.
LEMMA FiniteLinks ==
    ASSUME IInv
    PROVE  IsFiniteSet(links)
<1> DEFINE f == [l \in links |-> <<l.a, l.b>>]
<1>1. IsFiniteSet(Interfaces \X Interfaces)
  BY LinkResolverAssumption, FS_Product
<1>2. \A l \in links : l.a \in Interfaces /\ l.b \in Interfaces
  BY DEF IInv, TypeOK, Link
<1>3. \A k, l \in links : <<k.a, k.b>> = <<l.a, l.b>> => k = l
  BY DEF IInv, OneLinkPerPair
<1>4. f \in Injection(links, Interfaces \X Interfaces)
  BY <1>2, <1>3 DEF Injection, IsInjective
<1> QED  BY <1>1, <1>4, FS_Injection

\* And an AS is at one end of each of its links.
LEMMA FiniteEnds ==
    ASSUME IInv, NEW a
    PROVE  IsFiniteSet(Ends(a))
<1> DEFINE f == [e \in Ends(a) |-> e[1]]
<1>1. \A e \in Ends(a) : e[1] \in links
  BY EndTypes
<1>2. \A d, e \in Ends(a) : d[1] = e[1] => d = e
  BY EndTypes
<1>3. f \in Injection(Ends(a), links)
  BY <1>1, <1>2 DEF Injection, IsInjective
<1> QED  BY <1>3, FiniteLinks, FS_Injection

\* The ends get_unused_port finds in place before a port, and those up to it.
Below(a, q) == {e \in Ends(a) : e[2] < q}
UpTo(a, q) == {e \in Ends(a) : e[2] <= q}

\* The port found is the least one that is not in its place.
LEMMA LeastUnused ==
    ASSUME IInv, NEW i \in Interfaces, NEW p \in UnusedPort(i), NEW a, a = AsOf[i],
           NEW first, first = range[i].first
    PROVE  /\ first \in Nat \ {0} /\ range[i].last \in Nat
           /\ p \in first..(range[i].last - 1)
           /\ ~(Cardinality(Below(a, p)) <= p - first /\ Cardinality(UpTo(a, p)) > p - first)
           /\ \A q \in first..(p - 1) : Cardinality(UpTo(a, q)) > q - first
<1> DEFINE InPlace(q) == /\ Cardinality(Below(a, q)) <= q - first
                         /\ Cardinality(UpTo(a, q)) > q - first
           differ == {q \in first..(range[i].last - 1) : ~InPlace(q)}
<1>1. first \in Nat /\ range[i].last \in Nat
  BY LinkResolverAssumption DEF IInv, TypeOK, NoPorts
<1>2. UnusedPort(i) = IF first = 0 \/ range[i].last = 0 THEN {}
                      ELSE {q \in differ : \A r \in differ : q <= r}
  BY DEF UnusedPort, Below, UpTo
<1>3. first # 0 /\ p \in differ /\ \A r \in differ : p <= r
  BY <1>2
<1>4. ASSUME NEW q \in first..(p - 1) PROVE InPlace(q)
  <2>1. q \in first..(range[i].last - 1) /\ q < p
    BY <1>1, <1>3
  <2> QED  BY <1>1, <1>3, <2>1
<1> QED  BY <1>1, <1>3, <1>4

\* get_unused_port finds a port of the interface's range that no link of the
\* AS has, whatever gaps earlier links left.
LEMMA UnusedPortIsNew ==
    ASSUME IInv, PortsInRange, PortsDiffer, SameStart, NEW i \in Interfaces, NEW p \in UnusedPort(i)
    PROVE  /\ p \in range[i].first..(range[i].last - 1)
           /\ \A e \in Ends(AsOf[i]) : e[2] # p
<1>1. PICK a, first : a = AsOf[i] /\ first = range[i].first
  OBVIOUS
<1>2. /\ first \in Nat \ {0} /\ range[i].last \in Nat
      /\ p \in first..(range[i].last - 1)
      /\ ~(Cardinality(Below(a, p)) <= p - first /\ Cardinality(UpTo(a, p)) > p - first)
      /\ \A q \in first..(p - 1) : Cardinality(UpTo(a, q)) > q - first
  BY <1>1, LeastUnused
<1>3. ASSUME NEW e \in Ends(a) PROVE e[2] \in Nat /\ e[2] >= first
  <2>1. PICK j \in Interfaces : AsOf[j] = a /\ e[2] \in range[j].first..(range[j].last - 1)
    <3>1. \A l \in links : l.a \in Interfaces /\ l.b \in Interfaces
      BY DEF IInv, TypeOK, Link
    <3>2. CASE e = <<e[1], e[1].port_a>> /\ AsOf[e[1].a] = a
      BY <3>1, <3>2, EndTypes DEF PortsInRange
    <3>3. CASE e = <<e[1], e[1].port_b>> /\ AsOf[e[1].b] = a
      BY <3>1, <3>3, EndTypes DEF PortsInRange
    <3> QED  BY <3>2, <3>3, EndTypes
  <2>2. range[j] # NoPorts /\ range[i] # NoPorts
    BY <1>1, <1>2, <2>1 DEF NoPorts
  <2>3. range[j].first = first
    BY <1>1, <2>1, <2>2 DEF SameStart
  <2> QED  BY <1>2, <2>1, <2>3, EndTypes
<1>4. /\ IsFiniteSet(Ends(a)) /\ IsFiniteSet(Below(a, p)) /\ IsFiniteSet(UpTo(a, p))
      /\ Cardinality(Below(a, p)) \in Nat /\ Cardinality(UpTo(a, p)) \in Nat
  BY FiniteEnds, FS_Subset, FS_CardinalityType DEF Below, UpTo
<1>5. Cardinality(Below(a, p)) <= p - first
  <2> DEFINE port == [e \in Below(a, p) |-> e[2]]
  <2>1. \A e \in Below(a, p) : e[2] \in first..(p - 1)
    BY <1>2, <1>3 DEF Below
  <2>2. \A d, e \in Below(a, p) : d[2] = e[2] => d = e
    BY <1>1, LinkResolverAssumption DEF PortsDiffer, Below
  <2>3. port \in Injection(Below(a, p), first..(p - 1))
    BY <2>1, <2>2 DEF Injection, IsInjective
  <2>4. IsFiniteSet(first..(p - 1)) /\ Cardinality(first..(p - 1)) = p - first
    <3>1. first \in Int /\ p - 1 \in Int /\ (first > p - 1 => p = first)
      BY <1>2
    <3>2. /\ IsFiniteSet(first..(p - 1))
          /\ Cardinality(first..(p - 1)) = IF first > p - 1 THEN 0 ELSE (p - 1) - first + 1
      BY <3>1, FS_Interval
    <3> QED  BY <1>2, <3>1, <3>2
  <2> QED  BY <2>3, <2>4, FS_Injection
<1>6. ASSUME NEW d \in Ends(a), d[2] = p PROVE FALSE
  <2>1. Below(a, p) \in SUBSET UpTo(a, p) /\ d \in UpTo(a, p) /\ d \notin Below(a, p)
    BY <1>2, <1>3, <1>6 DEF Below, UpTo
  <2>2. Cardinality(Below(a, p)) < Cardinality(UpTo(a, p)) /\ Cardinality(UpTo(a, p)) <= p - first
    <3>1. Cardinality(Below(a, p)) <= Cardinality(UpTo(a, p))
          /\ Cardinality(Below(a, p)) # Cardinality(UpTo(a, p))
      BY <1>4, <2>1, FS_Subset
    <3> QED  BY <1>2, <1>4, <1>5, <3>1
  <2>3. p - 1 \in first..(p - 1)
    BY <1>2, <1>4, <2>2
  <2>4. UpTo(a, p - 1) = Below(a, p)
    BY <1>2, <1>3 DEF Below, UpTo
  <2>5. Cardinality(Below(a, p)) > (p - 1) - first
    BY <1>2, <2>3, <2>4
  <2> QED  BY <1>2, <1>4, <2>2, <2>5
<1> QED  BY <1>1, <1>2, <1>6

\* Links that are deleted, and ranges that grow around those that are not.
LEMMA PortsKept ==
    ASSUME PortsInRange, links' \subseteq links,
           \A l \in links' : \A i \in {l.a, l.b} :
               range[i].first..(range[i].last - 1) \subseteq range'[i].first..(range'[i].last - 1)
    PROVE  PortsInRange' /\ (PortsDiffer => PortsDiffer')
<1>1. \A a : Ends(a)' \subseteq Ends(a)
  BY DEF Ends
<1>2. PortsDiffer => PortsDiffer'
  BY <1>1 DEF PortsDiffer
<1>3. PortsInRange'
  BY DEF PortsInRange
<1> QED  BY <1>2, <1>3

\* A link created with the ports get_unused_port finds for its two ends.
LEMMA PortsOfNewLink ==
    ASSUME IInv, PortsInRange, NEW x \in work.todo, CreateLink(x)
    PROVE  PortsInRange' /\ (PortsDiffer /\ SameStart => PortsDiffer')
<1>1. PICK fresh : fresh = links' \ links
  OBVIOUS
<1>2. /\ x.a \in Interfaces /\ x.b \in Interfaces /\ AsOf[x.a] # AsOf[x.b]
      /\ UNCHANGED range
  BY DEF IInv, TypeOK, Pair, PairsAgreed, Agreed, CreateLink
<1>3. /\ links' = links \cup fresh
      /\ \A l \in fresh : /\ l.a = x.a /\ l.b = x.b
                          /\ l.port_a \in UnusedPort(x.a) /\ l.port_b \in UnusedPort(x.b)
                          /\ l = [type |-> x.type, a |-> x.a, port_a |-> l.port_a,
                                  b |-> x.b, port_b |-> l.port_b]
  <2>1. \A l \in fresh : \E p \in UnusedPort(x.a), q \in UnusedPort(x.b) :
           l = [type |-> x.type, a |-> x.a, port_a |-> p, b |-> x.b, port_b |-> q]
    BY <1>1 DEF CreateLink
  <2> QED  BY <1>1, <2>1 DEF CreateLink
<1>4. \A k, l \in fresh : k = l
  BY <1>2, <1>3, PortTypes DEF IInv
<1>5. PortsInRange'
  <2>1. \A l \in fresh : /\ l.port_a \in range[l.a].first..(range[l.a].last - 1)
                         /\ l.port_b \in range[l.b].first..(range[l.b].last - 1)
    BY <1>2, <1>3, LeastUnused
  <2> QED  BY <1>2, <1>3, <2>1 DEF PortsInRange
<1>6. ASSUME NEW a \in ASes, NEW e \in Ends(a)', e \notin Ends(a)
      PROVE  \E l \in fresh :
                \/ e = <<l, l.port_a>> /\ AsOf[x.a] = a /\ l.port_a \in UnusedPort(x.a)
                \/ e = <<l, l.port_b>> /\ AsOf[x.b] = a /\ l.port_b \in UnusedPort(x.b)
  <2>1. PICK l \in links' : \/ e = <<l, l.port_a>> /\ AsOf[l.a] = a
                            \/ e = <<l, l.port_b>> /\ AsOf[l.b] = a
    BY DEF Ends
  <2>2. l \notin links
    BY <1>6, <2>1 DEF Ends
  <2> QED  BY <1>3, <2>1, <2>2
<1>7. ASSUME PortsDiffer, SameStart,
             NEW a \in ASes, NEW d \in Ends(a)', NEW e \in Ends(a)', d[2] = e[2]
      PROVE  d = e
  <2>1. CASE d \in Ends(a) /\ e \in Ends(a)
    BY <1>7, <2>1 DEF PortsDiffer
  <2>2. \A c \in Ends(a)' : c \notin Ends(a) => \A b \in Ends(a) : b[2] # c[2]
    BY <1>2, <1>6, <1>7, UnusedPortIsNew
  <2>3. CASE d \notin Ends(a) /\ e \notin Ends(a)
    BY <1>2, <1>4, <1>6, <2>3
  <2> QED  BY <1>7, <2>1, <2>2, <2>3
<1> QED  BY <1>5, <1>7 DEF PortsDiffer

LEMMA PortsStep ==
    ASSUME IInv, PortsInRange, [Next]_vars
    PROVE  PortsInRange' /\ (PortsDiffer /\ SameStart => PortsDiffer')
<1> DEFINE Kept == PortsInRange' /\ (PortsDiffer /\ SameStart => PortsDiffer')
<1>1. ASSUME links' \subseteq links, UNCHANGED range PROVE Kept
  BY <1>1, PortsKept
<1>2. ASSUME NEW a \in ASes, NEW v \in Vlans, NEW t \in Targets, NEW verdict \in Verdicts,
             ChangePolicy(a, v, t, verdict)
      PROVE  Kept
  BY <1>1, <1>2 DEF ChangePolicy
<1>3. ASSUME NEW a \in ASes, NEW vs, NEW new, SetPolicies(a, vs, new) PROVE Kept
  BY <1>1, <1>3 DEF SetPolicies
<1>4. ASSUME NEW k \in Interfaces, NEW r \in PortRanges, SetPortRange(AsOf[k], k, r)
      PROVE  Kept
  <2>1. /\ links' \subseteq links
        /\ \A l \in links : l.a \in Interfaces /\ l.b \in Interfaces
    BY <1>4 DEF SetPortRange, IInv, TypeOK, Link
  <2>2. /\ range'[k] = r /\ r.first \in Nat /\ r.last \in Nat
        /\ range[k].first \in Nat /\ range[k].last \in Nat
        /\ \A i \in Interfaces : i # k => range'[i] = range[i]
    BY <1>4, LinkResolverAssumption DEF SetPortRange, IInv, TypeOK, NoPorts
  <2>3. CASE r.first <= range[k].first /\ r.last >= range[k].last
    <3>1. range[k].first..(range[k].last - 1) \subseteq range'[k].first..(range'[k].last - 1)
      BY <2>2, <2>3
    <3> QED  BY <2>1, <2>2, <3>1, PortsKept
  <2>4. CASE ~(r.first <= range[k].first /\ r.last >= range[k].last)
    <3>1. \A l \in links' : l.a # k /\ l.b # k
      BY <1>4, <2>4 DEF SetPortRange, LinksOf
    <3> QED  BY <2>1, <2>2, <3>1, PortsKept
  <2> QED  BY <2>3, <2>4
<1>5. ASSUME NEW v \in Vlans, UpdateLinks(v) PROVE Kept
  BY <1>1, <1>5 DEF UpdateLinks
<1>6. ASSUME NEW x \in work.todo, CreateLink(x) PROVE Kept
  BY <1>6, PortsOfNewLink
<1>7. ASSUME UNCHANGED vars PROVE Kept
  BY <1>1, <1>7 DEF vars
<1> QED
  BY <1>2, <1>3, <1>4, <1>5, <1>6, <1>7 DEF Next, Resolve, ChangePolicies, SetOwnPortRange

\* The ports of a link are always from the ranges its interfaces have now
\* (peering.py:126-136, models/ixp.py:249-267).
THEOREM PortsAreInRange == Spec => []PortsInRange
<1>1. Init => PortsInRange
  BY DEF Init, PortsInRange
<1>2. IInv /\ PortsInRange /\ [Next]_vars => PortsInRange'
  BY PortsStep
<1> QED  BY <1>1, <1>2, InvCorrect, PTL DEF Spec

\* While the port ranges of every AS start at the same port, the ports of an
\* interface's links are from its range and differ, after ranges grew, shrank
\* and moved and links came and went (models/ixp.py:249-267).  Without the
\* hypothesis a link can get a port that another link of the interface has.
THEOREM PortsAreUnique == Spec /\ []SameStart => []PortsUnique
<1>1. Init => PortsDiffer
  BY DEF Init, PortsDiffer, Ends
<1>2. IInv /\ PortsInRange /\ PortsDiffer /\ SameStart /\ [Next]_vars => PortsDiffer'
  BY PortsStep
<1>3. PortsInRange /\ PortsDiffer => PortsUnique
  <2> SUFFICES ASSUME PortsInRange, PortsDiffer, NEW i \in Interfaces
      PROVE  /\ \A l \in LinksOf(i) : Port(l, i) \in range[i].first..(range[i].last - 1)
             /\ \A k, l \in LinksOf(i) : Port(k, i) = Port(l, i) => k = l
    BY DEF PortsUnique
  <2>1. AsOf[i] \in ASes
    BY LinkResolverAssumption
  <2>2. ASSUME NEW l \in LinksOf(i)
        PROVE  /\ l \in links /\ (l.a = i \/ l.b = i)
               /\ <<l, Port(l, i)>> \in Ends(AsOf[i])
    BY DEF LinksOf, Port, Ends
  <2>3. \A l \in LinksOf(i) : Port(l, i) \in range[i].first..(range[i].last - 1)
    BY <2>2 DEF Port, PortsInRange
  <2>4. \A k, l \in LinksOf(i) : Port(k, i) = Port(l, i) => k = l
    <3>1. ASSUME NEW k \in LinksOf(i), NEW l \in LinksOf(i), Port(k, i) = Port(l, i)
          PROVE  <<k, Port(k, i)>> = <<l, Port(l, i)>>
      BY <2>1, <2>2, <3>1 DEF PortsDiffer
    <3> QED  BY <3>1
  <2> QED  BY <2>3, <2>4
<1> QED  BY <1>1, <1>2, <1>3, InvCorrect, PortsAreInRange, PTL DEF Spec

\* So no two links share a port of an interface where every AS has one
\* interface, whatever port ranges clients configure.
THEOREM PortsOfOneInterface ==
    ASSUME \A i, j \in Interfaces : AsOf[i] = AsOf[j] => i = j
    PROVE  Spec => []PortsUnique
<1>1. SameStart
  BY DEF SameStart
<1> QED  BY <1>1, PortsAreUnique, PTL

-----------------------------------------------------------------------------
\* The pairs of interfaces AS a could be linked through, and port ranges with a
\* port for each of them: get_unused_port counts the links of all interfaces of
\* the AS against the range of one.
Peerings(a) ==
    {p \in Interfaces \X Interfaces :
        AsOf[p[1]] = a /\ AsOf[p[2]] # a /\ VlanOf[p[1]] = VlanOf[p[2]]}

PortsEnough ==
    \A i \in Interfaces : range[i] # NoPorts =>
        range[i].first > 0 /\ Cardinality(Peerings(AsOf[i])) <= range[i].last - range[i].first

Wanted(i, j) ==
    /\ VlanOf[i] = VlanOf[j] /\ Mutual(AsOf[i], AsOf[j], VlanOf[i])
    /\ Compatible(AsOf[i], AsOf[j]) /\ NoPorts \notin {range[i], range[j]}

\* What the running RPC has left to link.
Pending(i, j) ==
    \/ VlanOf[i] \in work.vlans /\ work.asys \in {AsOf[i], AsOf[j]}
    \/ \E x \in work.todo : {x.a, x.b} = {i, j}

\* A link of the ASes of two interfaces, in the VLAN of the first.
Joins(l, i, j) ==
    VlanOf[l.a] = VlanOf[i] /\ {AsOf[l.a], AsOf[l.b]} = {AsOf[i], AsOf[j]}

WantedAreJoined ==
    \A i, j \in Interfaces : Wanted(i, j) => (\E l \in links : Joins(l, i, j)) \/ Pending(i, j)

\* A range with more ports than the AS has links has an unused one.
LEMMA UnusedPortExists ==
    ASSUME IInv, NEW i \in Interfaces, range[i].first > 0,
           Cardinality(Ends(AsOf[i])) < range[i].last - range[i].first
    PROVE  UnusedPort(i) # {}
<1>1. PICK a, first, last : a = AsOf[i] /\ first = range[i].first /\ last = range[i].last
  OBVIOUS
<1> DEFINE differ == {q \in first..(last - 1) :
                         ~(/\ Cardinality(Below(a, q)) <= q - first
                           /\ Cardinality(UpTo(a, q)) > q - first)}
<1>2. first \in Nat /\ last \in Nat
  BY <1>1, LinkResolverAssumption DEF IInv, TypeOK, NoPorts
<1>3. IsFiniteSet(Ends(a)) /\ Cardinality(Ends(a)) \in Nat
  BY FiniteEnds, FS_CardinalityType
<1>4. first > 0 /\ last > first /\ Cardinality(Ends(a)) < last - first
  BY <1>1, <1>2, <1>3
<1>5. UnusedPort(i) = {q \in differ : \A r \in differ : q <= r}
  BY <1>1, <1>2, <1>4 DEF UnusedPort, Below, UpTo
<1>6. last - 1 \in differ
  <2>1. Cardinality(UpTo(a, last - 1)) \in Nat
        /\ Cardinality(UpTo(a, last - 1)) <= Cardinality(Ends(a))
    <3>1. UpTo(a, last - 1) \in SUBSET Ends(a)
      BY DEF UpTo
    <3> QED  BY <1>3, <3>1, FS_Subset, FS_CardinalityType
  <2>2. last - 1 \in first..(last - 1)
    BY <1>2, <1>4
  <2>3. ~(Cardinality(UpTo(a, last - 1)) > (last - 1) - first)
    BY <1>2, <1>3, <1>4, <2>1
  <2> QED  BY <2>2, <2>3
<1>7. differ \in SUBSET Nat
  BY <1>2
<1> HIDE DEF differ
<1>8. \E n \in differ : \A m \in differ : n <= m
  BY <1>6, <1>7, Least
<1> QED  BY <1>5, <1>8

\* While a link of AS a is to be created, a has fewer links than peerings.
LEMMA FewerEnds ==
    ASSUME IInv, NEW x \in work.todo, NEW a \in {AsOf[x.a], AsOf[x.b]}
    PROVE  Cardinality(Ends(a)) < Cardinality(Peerings(a))
           /\ Cardinality(Ends(a)) \in Nat /\ Cardinality(Peerings(a)) \in Nat
<1> DEFINE Own(y) == IF AsOf[y.a] = a THEN <<y.a, y.b>> ELSE <<y.b, y.a>>
           f == [e \in Ends(a) |-> Own(e[1])]
<1>1. /\ \A l \in links : /\ l.a \in Interfaces /\ l.b \in Interfaces
                          /\ VlanOf[l.b] = VlanOf[l.a] /\ AsOf[l.a] # AsOf[l.b]
                          /\ {l.a, l.b} # {x.a, x.b}
      /\ x.a \in Interfaces /\ x.b \in Interfaces
      /\ VlanOf[x.b] = VlanOf[x.a] /\ AsOf[x.a] # AsOf[x.b]
  BY DEF IInv, TypeOK, Link, Pair, LinksAgreed, PairsAgreed, Agreed
<1>2. Own(x) \in Peerings(a)
  BY <1>1 DEF Peerings
<1>3. \A e \in Ends(a) : /\ e[1] \in links
                         /\ (AsOf[e[1].a] = a /\ AsOf[e[1].b] # a)
                              \/ (AsOf[e[1].b] = a /\ AsOf[e[1].a] # a)
  BY EndTypes
<1>4. \A e \in Ends(a) : Own(e[1]) \in Peerings(a) \ {Own(x)}
  <2> SUFFICES ASSUME NEW e \in Ends(a) PROVE Own(e[1]) \in Peerings(a) \ {Own(x)}
    OBVIOUS
  <2>1. Own(e[1]) \in Peerings(a)
    BY <1>1, <1>3 DEF Peerings
  <2>2. Own(e[1]) # Own(x)
    <3>1. {e[1].a, e[1].b} # {x.a, x.b}
      BY <1>1, <1>3
    <3> QED  BY <3>1
  <2> QED  BY <2>1, <2>2
<1>5. \A d, e \in Ends(a) : Own(d[1]) = Own(e[1]) => d = e
  <2> SUFFICES ASSUME NEW d \in Ends(a), NEW e \in Ends(a), Own(d[1]) = Own(e[1])
      PROVE  d = e
    OBVIOUS
  <2>1. {d[1].a, d[1].b} = {e[1].a, e[1].b}
    OBVIOUS
  <2>2. d[1] = e[1]
    BY <1>3, <2>1 DEF IInv, OneLinkPerPair
  <2> QED  BY <2>2, EndTypes
<1> HIDE DEF Own
<1>6. f \in Injection(Ends(a), Peerings(a) \ {Own(x)})
  BY <1>4, <1>5 DEF Injection, IsInjective
<1>7. IsFiniteSet(Peerings(a))
  <2>1. Peerings(a) \in SUBSET (Interfaces \X Interfaces)
    BY DEF Peerings
  <2> QED  BY <2>1, LinkResolverAssumption, FS_Product, FS_Subset
<1>8. /\ IsFiniteSet(Peerings(a) \ {Own(x)})
      /\ Cardinality(Peerings(a) \ {Own(x)}) = Cardinality(Peerings(a)) - 1
  BY <1>2, <1>7, FS_RemoveElement
<1>9. Cardinality(Ends(a)) <= Cardinality(Peerings(a)) - 1
  BY <1>6, <1>8, FS_Injection
<1> QED  BY <1>7, <1>9, FiniteEnds, FS_CardinalityType

\* Compatible peers get a pair of interfaces linked, in one of the directions.
LEMMA PairsOfCompatible ==
    ASSUME NEW i \in Interfaces, NEW j \in Interfaces, VlanOf[i] = VlanOf[j],
           AsOf[i] # AsOf[j], Compatible(AsOf[i], AsOf[j])
    PROVE  \E x \in PairsToLink(AsOf[i], AsOf[j], VlanOf[i]) : {x.a, x.b} = {i, j}
<1>1. PICK a, b, v : a = AsOf[i] /\ b = AsOf[j] /\ v = VlanOf[i]
  OBVIOUS
<1>2. ASSUME NEW type
      PROVE  /\ \E x \in Pairs(type, a, b, v) : {x.a, x.b} = {i, j}
             /\ \E x \in Pairs(type, b, a, v) : {x.a, x.b} = {i, j}
  <2>1. i \in InterfacesIn(a, v) /\ j \in InterfacesIn(b, v)
    BY <1>1 DEF InterfacesIn
  <2>2. /\ [type |-> type, a |-> i, b |-> j] \in Pairs(type, a, b, v)
        /\ [type |-> type, a |-> j, b |-> i] \in Pairs(type, b, a, v)
    BY <2>1 DEF Pairs
  <2> QED  BY <2>2
<1>3. \E type : \/ PairsToLink(a, b, v) = Pairs(type, a, b, v)
                \/ PairsToLink(a, b, v) = Pairs(type, b, a, v)
  BY <1>1 DEF PairsToLink, Compatible
<1> QED  BY <1>1, <1>2, <1>3

\* A pair of interfaces of the AS an update works for and of one of its partners.
LEMMA PartnersJoined ==
    ASSUME IInv, NEW v \in Vlans, UpdateLinks(v),
           NEW i \in Interfaces, NEW j \in Interfaces, Wanted(i, j),
           VlanOf[i] = v, AsOf[i] = work.asys
    PROVE  (\E l \in links' : Joins(l, i, j)) \/ \E x \in work'.todo : {x.a, x.b} = {i, j}
<1>1. PICK a, b : a = work.asys /\ b = AsOf[j]
  OBVIOUS
<1>2. /\ links' = links \ LinksWith(a, ConnectedPeers(a, v) \ Partners(a, v), v)
      /\ work'.todo = ToCreate(a, v)
  BY <1>1, Updated
<1>3. /\ AsOf[i] = a /\ b \in ASes /\ a # b /\ VlanOf[j] = v
      /\ b \in Partners(a, v) /\ Compatible(a, b)
  BY <1>1, LinkResolverAssumption DEF Wanted, Partners, Mutual, Accepts
<1>4. CASE b \in ConnectedPeers(a, v)
  <2>1. PICK l \in links : \/ l.a \in InterfacesIn(a, v) /\ AsOf[l.b] = b
                           \/ l.b \in InterfacesIn(a, v) /\ AsOf[l.a] = b
    BY <1>4 DEF ConnectedPeers
  <2>2. VlanOf[l.a] = VlanOf[l.b]
    BY DEF IInv, LinksAgreed, Agreed
  <2>3. VlanOf[l.a] = v /\ ((AsOf[l.a] = a /\ AsOf[l.b] = b) \/ (AsOf[l.b] = a /\ AsOf[l.a] = b))
    BY <2>1, <2>2 DEF InterfacesIn
  <2>4. l \notin LinksWith(a, ConnectedPeers(a, v) \ Partners(a, v), v)
    BY <1>3, <2>3 DEF LinksWith
  <2>5. l \in links' /\ Joins(l, i, j)
    BY <1>1, <1>2, <1>3, <2>3, <2>4 DEF Joins
  <2> QED  BY <2>5
<1>5. CASE b \notin ConnectedPeers(a, v)
  <2>1. PICK x \in PairsToLink(a, b, v) : {x.a, x.b} = {i, j}
    BY <1>1, <1>3, PairsOfCompatible
  <2>2. x \in ToCreate(a, v)
    BY <1>3, <1>5, <2>1 DEF ToCreate
  <2> QED  BY <1>2, <2>1, <2>2
<1> QED  BY <1>4, <1>5

\* The work of an RPC that changed policies covers the pairs they matter for.
LEMMA ChangedArePending ==
    ASSUME IInv, WantedAreJoined, Idle, NEW a \in ASes, work'.asys = a,
           UNCHANGED <<links, range>>,
           \A v \in Vlans, x \in ASes :
               policies'[v][x] # policies[v][x] => x = a /\ v \in work'.vlans
    PROVE  WantedAreJoined'
<1> SUFFICES ASSUME NEW i \in Interfaces, NEW j \in Interfaces, Wanted(i, j)'
    PROVE  ((\E l \in links : Joins(l, i, j)) \/ Pending(i, j))'
  BY DEF WantedAreJoined
<1>1. AsOf[i] \in ASes /\ AsOf[j] \in ASes /\ VlanOf[i] \in Vlans
  BY LinkResolverAssumption
<1>2. CASE VlanOf[i] \in work'.vlans /\ a \in {AsOf[i], AsOf[j]}
  BY <1>2 DEF Pending
<1>3. CASE ~(VlanOf[i] \in work'.vlans /\ a \in {AsOf[i], AsOf[j]})
  <2>1. /\ policies'[VlanOf[i]][AsOf[i]] = policies[VlanOf[i]][AsOf[i]]
        /\ policies'[VlanOf[i]][AsOf[j]] = policies[VlanOf[i]][AsOf[j]]
    BY <1>1, <1>3
  <2>2. Wanted(i, j)
    BY <2>1 DEF Wanted, Mutual
  <2>3. \E l \in links : Joins(l, i, j)
    BY <2>2 DEF WantedAreJoined, Pending, Idle
  <2> QED  BY <2>3 DEF Joins
<1> QED  BY <1>2, <1>3

\* A new port range of an interface leaves its links, or has them updated.
LEMMA RangeSet ==
    ASSUME IInv, WantedAreJoined, PortsEnough', NEW k \in Interfaces, NEW r \in PortRanges,
           SetPortRange(AsOf[k], k, r)
    PROVE  WantedAreJoined'
<1> SUFFICES ASSUME NEW i \in Interfaces, NEW j \in Interfaces, Wanted(i, j)'
    PROVE  ((\E l \in links : Joins(l, i, j)) \/ Pending(i, j))'
  BY DEF WantedAreJoined
<1> DEFINE Grows == r.first <= range[k].first /\ r.last >= range[k].last
<1>1. /\ Idle /\ UNCHANGED policies /\ range'[k] = r
      /\ \A n \in Interfaces : n # k => range'[n] = range[n]
  BY DEF SetPortRange, IInv, TypeOK
<1>2. VlanOf[i] = VlanOf[j]
  BY DEF Wanted
<1>3. CASE VlanOf[k] = VlanOf[i] /\ AsOf[k] \in {AsOf[i], AsOf[j]} /\ ~Grows
  <2>1. work' = [asys |-> AsOf[k], vlans |-> {VlanOf[k]}, refresh |-> FALSE, todo |-> {}]
    BY <1>3 DEF SetPortRange
  <2> QED  BY <1>3, <2>1 DEF Pending
<1>4. CASE ~(VlanOf[k] = VlanOf[i] /\ AsOf[k] \in {AsOf[i], AsOf[j]} /\ ~Grows)
  <2>1. ASSUME k \in {i, j} PROVE range[k] # NoPorts
    <3>1. r # NoPorts /\ r.first > 0
      BY <1>1, <2>1 DEF Wanted, PortsEnough
    <3>2. r.first \in Nat
      BY LinkResolverAssumption
    <3>3. Grows
      BY <1>2, <1>4, <2>1
    <3> QED  BY <3>1, <3>2, <3>3 DEF NoPorts
  <2>2. Wanted(i, j)
    BY <1>1, <2>1 DEF Wanted, Mutual
  <2>3. PICK l \in links : Joins(l, i, j)
    BY <1>1, <2>2 DEF WantedAreJoined, Pending, Idle
  <2>4. VlanOf[l.b] = VlanOf[l.a]
    BY DEF IInv, LinksAgreed, Agreed
  <2>5. l \in links'
    BY <1>4, <2>3, <2>4 DEF SetPortRange, LinksOf, Joins
  <2> QED  BY <2>3, <2>5 DEF Joins
<1> QED  BY <1>3, <1>4

\* An update keeps the links that are wanted, and has the others created.
LEMMA LinksUpdated ==
    ASSUME IInv, WantedAreJoined, NEW v \in Vlans, UpdateLinks(v)
    PROVE  WantedAreJoined'
<1> SUFFICES ASSUME NEW i \in Interfaces, NEW j \in Interfaces, Wanted(i, j)'
    PROVE  ((\E l \in links : Joins(l, i, j)) \/ Pending(i, j))'
  BY DEF WantedAreJoined
<1>1. PICK a : a = work.asys
  OBVIOUS
<1>2. /\ work.todo = {} /\ UNCHANGED <<policies, range>>
      /\ links' = links \ LinksWith(a, ConnectedPeers(a, v) \ Partners(a, v), v)
      /\ work'.asys = a /\ work'.vlans = work.vlans \ {v}
  BY <1>1, Updated
<1>3. Wanted(i, j) /\ Wanted(j, i) /\ VlanOf[j] = VlanOf[i]
  BY <1>2 DEF Wanted, Mutual, Compatible
<1>4. CASE VlanOf[i] = v /\ a \in {AsOf[i], AsOf[j]}
  <2>1. PICK m \in {i, j}, n \in {i, j} :
           /\ m \in Interfaces /\ n \in Interfaces /\ {m, n} = {i, j}
           /\ Wanted(m, n) /\ VlanOf[m] = v /\ AsOf[m] = work.asys
    BY <1>1, <1>3, <1>4
  <2>2. (\E l \in links' : Joins(l, m, n)) \/ \E x \in work'.todo : {x.a, x.b} = {m, n}
    BY <2>1, PartnersJoined
  <2>3. \A l : Joins(l, m, n) => Joins(l, i, j)
    BY <1>3, <2>1 DEF Joins
  <2> QED  BY <2>1, <2>2, <2>3 DEF Pending, Joins
<1>5. CASE ~(VlanOf[i] = v /\ a \in {AsOf[i], AsOf[j]})
  <2>1. CASE VlanOf[i] \in work.vlans /\ a \in {AsOf[i], AsOf[j]}
    BY <1>2, <1>5, <2>1 DEF Pending
  <2>2. CASE ~(VlanOf[i] \in work.vlans /\ a \in {AsOf[i], AsOf[j]})
    <3>1. ~Pending(i, j)
      BY <1>1, <1>2, <2>2 DEF Pending
    <3>2. PICK l \in links : Joins(l, i, j)
      BY <1>3, <3>1 DEF WantedAreJoined
    <3>3. l \in links'
      BY <1>2, <1>5, <3>2 DEF LinksWith, Joins
    <3> QED  BY <3>2, <3>3 DEF Joins
  <2> QED  BY <2>1, <2>2
<1> QED  BY <1>4, <1>5

\* A turn of _create_links creates its link, since there are ports for it.
LEMMA LinkCreated ==
    ASSUME IInv, WantedAreJoined, PortsEnough, NEW x \in work.todo, CreateLink(x)
    PROVE  WantedAreJoined'
<1> SUFFICES ASSUME NEW i \in Interfaces, NEW j \in Interfaces, Wanted(i, j)'
    PROVE  ((\E l \in links : Joins(l, i, j)) \/ Pending(i, j))'
  BY DEF WantedAreJoined
<1>1. /\ UNCHANGED <<policies, range>> /\ links \subseteq links'
      /\ work'.asys = work.asys /\ work'.vlans = work.vlans /\ work'.todo = work.todo \ {x}
  BY DEF CreateLink, IInv, TypeOK
<1>2. Wanted(i, j)
  BY <1>1 DEF Wanted, Mutual
<1>3. CASE {x.a, x.b} = {i, j}
  <2>1. ASSUME NEW n \in {i, j} PROVE UnusedPort(n) # {}
    <3>1. range[n] # NoPorts
      BY <1>2 DEF Wanted
    <3>2. range[n].first > 0 /\ Cardinality(Peerings(AsOf[n])) <= range[n].last - range[n].first
      BY <3>1 DEF PortsEnough
    <3>3. /\ Cardinality(Ends(AsOf[n])) < Cardinality(Peerings(AsOf[n]))
          /\ Cardinality(Ends(AsOf[n])) \in Nat /\ Cardinality(Peerings(AsOf[n])) \in Nat
      <4>1. AsOf[n] \in {AsOf[x.a], AsOf[x.b]}
        BY <1>3
      <4> QED  BY <4>1, FewerEnds
    <3>4. range[n].first \in Nat /\ range[n].last \in Nat
      BY LinkResolverAssumption DEF IInv, TypeOK, NoPorts
    <3>5. Cardinality(Ends(AsOf[n])) < range[n].last - range[n].first
      BY <3>2, <3>3, <3>4
    <3> QED  BY <3>2, <3>5, UnusedPortExists
  <2>2. PICK p \in UnusedPort(x.a), q \in UnusedPort(x.b) : TRUE
    BY <1>3, <2>1
  <2>3. [type |-> x.type, a |-> x.a, port_a |-> p, b |-> x.b, port_b |-> q] \in links'
    BY <2>2 DEF CreateLink
  <2>4. PICK l \in links' : l.a = x.a /\ l.b = x.b
    BY <2>3
  <2>5. VlanOf[x.a] = VlanOf[i] /\ {AsOf[x.a], AsOf[x.b]} = {AsOf[i], AsOf[j]}
    BY <1>2, <1>3 DEF Wanted
  <2> QED  BY <2>4, <2>5 DEF Joins
<1>4. CASE {x.a, x.b} # {i, j}
  <2>1. CASE Pending(i, j)
    BY <1>1, <1>4, <2>1 DEF Pending
  <2>2. CASE ~Pending(i, j)
    BY <1>1, <1>2, <2>2 DEF WantedAreJoined, Joins
  <2> QED  BY <2>1, <2>2
<1> QED  BY <1>3, <1>4

PeersJoined ==
    Idle => \A i, j \in Interfaces : Wanted(i, j) => \E l \in links : Joins(l, i, j)

LEMMA JoinedStep ==
    ASSUME IInv, WantedAreJoined, PortsEnough, PortsEnough', [Next]_vars
    PROVE  WantedAreJoined'
<1>t. policies \in [Vlans -> [ASes -> [Targets -> Verdicts]]]
  BY DEF IInv, TypeOK
<1>1. ASSUME NEW a \in ASes, NEW v \in Vlans, NEW t \in Targets, NEW verdict \in Verdicts,
             ChangePolicy(a, v, t, verdict)
      PROVE  WantedAreJoined'
  <2>1. /\ Idle /\ UNCHANGED <<links, range>>
        /\ work'.asys = a /\ work'.vlans = {v}
    BY <1>1 DEF ChangePolicy
  <2>2. PICK p : policies' = [policies EXCEPT ![v][a] = p]
    BY <1>1 DEF ChangePolicy
  <2>3. \A u \in Vlans, x \in ASes : policies'[u][x] # policies[u][x] => x = a /\ u = v
    BY <1>t, <2>2
  <2> QED  BY <2>1, <2>3, ChangedArePending
<1>2. ASSUME NEW a \in ASes, NEW vs \in SUBSET Vlans, NEW new, SetPolicies(a, vs, new)
      PROVE  WantedAreJoined'
  <2>1. /\ Idle /\ UNCHANGED <<links, range>>
        /\ work'.asys = a /\ work'.vlans = ConnectedVlans(a)
        /\ \A v \in vs : new[v] = [t \in Targets |-> "none"] \/ a \in Members(v)
        /\ policies' = [v \in Vlans |->
                            IF v \in vs THEN [policies[v] EXCEPT ![a] = new[v]] ELSE policies[v]]
    BY <1>2 DEF SetPolicies
  <2>2. ASSUME NEW u \in Vlans, NEW x \in ASes, policies'[u][x] # policies[u][x]
        PROVE  x = a /\ u \in ConnectedVlans(a)
    <3>1. u \in vs /\ x = a /\ policies'[u][x] = new[u]
      BY <1>t, <2>1, <2>2
    <3>2. a \in Members(u)
      BY <2>1, <2>2, <3>1 DEF IInv, OwnPolicies
    <3> QED  BY <3>1, <3>2 DEF Members, ConnectedVlans
  <2> QED  BY <2>1, <2>2, ChangedArePending
<1>3. ASSUME NEW k \in Interfaces, NEW r \in PortRanges, SetPortRange(AsOf[k], k, r)
      PROVE  WantedAreJoined'
  BY <1>3, RangeSet
<1>4. ASSUME NEW v \in Vlans, UpdateLinks(v) PROVE WantedAreJoined'
  BY <1>4, LinksUpdated
<1>5. ASSUME NEW x \in work.todo, CreateLink(x) PROVE WantedAreJoined'
  BY <1>5, LinkCreated
<1>6. ASSUME UNCHANGED vars PROVE WantedAreJoined'
  BY <1>6 DEF vars, WantedAreJoined, Wanted, Mutual, Joins, Pending
<1>7. \A v \in Vlans : {v} \in SUBSET Vlans /\ Vlans \in SUBSET Vlans
  OBVIOUS
<1> QED
  BY <1>1, <1>2, <1>3, <1>4, <1>5, <1>6, <1>7 DEF Next, Resolve, ChangePolicies, SetOwnPortRange

\* Between RPCs ASes of compatible types that accept each other and have ports
\* are linked in the VLAN, whichever of them agreed last and whatever moved
\* ports in between, if the ranges have ports for all peerings of their AS
\* (policy_resolver.py:99-117).
THEOREM PeersAreJoined == Spec /\ []PortsEnough => []PeersJoined
<1>1. Init => WantedAreJoined
  BY DEF Init, WantedAreJoined, Wanted
<1>2. IInv /\ WantedAreJoined /\ PortsEnough /\ PortsEnough' /\ [Next]_vars => WantedAreJoined'
  BY JoinedStep
<1>3. WantedAreJoined => PeersJoined
  BY DEF WantedAreJoined, Pending, Idle, PeersJoined
<1> QED  BY <1>1, <1>2, <1>3, InvCorrect, PTL DEF Spec

\* An AS has at most one interface in a VLAN.  With two, an AS that is linked
\* through one of them need not be linked through the other.
OneInterfaceInVlan ==
    \A i, j \in Interfaces : AsOf[i] = AsOf[j] /\ VlanOf[i] = VlanOf[j] => i = j

\* Then the link is one of the two interfaces, as MutualAreLinked says
\* (policy_resolver.py:114-117).
THEOREM PeersAreLinked ==
    ASSUME OneInterfaceInVlan
    PROVE  Spec /\ []PortsEnough => []MutualAreLinked
<1>1. ASSUME IInv, PeersJoined, Idle, NEW i \in Interfaces, NEW j \in Interfaces, Wanted(i, j)
      PROVE  LinksOf(i) \cap LinksOf(j) # {}
  <2>1. PICK l \in links : Joins(l, i, j)
    BY <1>1 DEF PeersJoined
  <2>2. l.a \in Interfaces /\ l.b \in Interfaces /\ VlanOf[l.b] = VlanOf[l.a]
    BY <1>1 DEF IInv, TypeOK, Link, LinksAgreed, Agreed
  <2>3. VlanOf[j] = VlanOf[i] /\ AsOf[i] # AsOf[j]
    BY <1>1 DEF Wanted, Mutual, Accepts
  <2>4. {l.a, l.b} = {i, j}
    BY <2>1, <2>2, <2>3 DEF Joins, OneInterfaceInVlan
  <2> QED  BY <2>4 DEF LinksOf
<1>2. IInv /\ PeersJoined => MutualAreLinked
  BY <1>1 DEF MutualAreLinked, Wanted
<1> QED  BY <1>2, PeersAreJoined, InvCorrect, PTL
=============================================================================
