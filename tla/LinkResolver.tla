----------------------------- MODULE LinkResolver -----------------------------
(***************************************************************************)
(* The peering policies, the AcceptedPeer relation computed from them and  *)
(* the SCION links computed from that: policy_resolver.py and the unary    *)
(* RPCs of api/peering.py that change policies and port ranges.            *)
(*                                                                         *)
(* Every RPC is one database transaction.  This module runs them one after *)
(* the other (what concurrent transactions add is left out here); inside   *)
(* an RPC the VLANs and the interface pairs it goes through are one step   *)
(* each, in the arbitrary order of the database.  RPCs that are refused    *)
(* or rolled back, the messages sent to clients and the asynchronous error *)
(* reports change none of these tables.                                    *)
(***************************************************************************)
EXTENDS PeeringPolicies, Integers, FiniteSets

CONSTANTS
    Vlans,
    Interfaces,
    AsOf,         \* the AS of an interface's peering client
    VlanOf,
    IsCore,       \* the core ASes
    PortRanges,   \* bound: the [first, last) ranges clients configure
    Choices       \* bound: the policies an AS chooses from in a VLAN

ASSUME LinkResolverAssumption ==
    /\ IsFiniteSet(Interfaces)
    /\ AsOf \in [Interfaces -> ASes]
    /\ VlanOf \in [Interfaces -> Vlans]
    /\ IsCore \subseteq ASes
    /\ PortRanges \subseteq [first : Nat, last : Nat]
    /\ Choices \subseteq [Targets -> Verdicts]

VARIABLES
    policies,  \* the four policy tables: VLAN -> AS -> target -> verdict
    accepted,  \* AcceptedPeer rows <<vlan, asys, peer>>
    links,     \* Link rows
    range,     \* interface -> its port range
    work       \* what the running RPC has left to do

vars == <<policies, accepted, links, range, work>>

-----------------------------------------------------------------------------
Link == [type : {"core", "peering", "provider"}, a : Interfaces, port_a : Nat,
         b : Interfaces, port_b : Nat]

Pair == [type : {"core", "peering", "provider"}, a : Interfaces, b : Interfaces]

NoPorts == [first |-> 0, last |-> 0]

TypeOK ==
    /\ policies \in [Vlans -> [ASes -> [Targets -> Verdicts]]]
    /\ accepted \subseteq Vlans \X ASes \X ASes
    /\ links \subseteq Link
    /\ range \in [Interfaces -> PortRanges \cup {NoPorts}]
    /\ work \in [asys : ASes, vlans : SUBSET Vlans, refresh : BOOLEAN, todo : SUBSET Pair]

Idle == work.vlans = {} /\ work.todo = {}

InterfacesIn(a, v) == {i \in Interfaces : AsOf[i] = a /\ VlanOf[i] = v}
Members(v) == {AsOf[i] : i \in {j \in Interfaces : VlanOf[j] = v}}
ConnectedVlans(a) == {VlanOf[i] : i \in {j \in Interfaces : AsOf[j] = a}}

LinksOf(i) == {l \in links : i \in {l.a, l.b}}

\* Mutant: only one direction is looked at.
ConnectedPeersA(a, v) == {AsOf[l.b] : l \in {k \in links : k.a \in InterfacesIn(a, v)}}

\* query_connected_peers
ConnectedPeers(a, v) ==
    {AsOf[l.b] : l \in {k \in links : k.a \in InterfacesIn(a, v)}}
        \cup {AsOf[l.a] : l \in {k \in links : k.b \in InterfacesIn(a, v)}}

\* The links update_links removes: those of AS a with these peers in VLAN v.
\* Mutant: with all its peers.
LinksWithAnyone(a, peers, v) == {l \in links : {l.a, l.b} \cap InterfacesIn(a, v) # {}}

LinksWith(a, peers, v) ==
    {l \in links : VlanOf[l.a] = v /\ \E b \in peers :
                      <<AsOf[l.a], AsOf[l.b]>> \in {<<a, b>>, <<b, a>>}}

\* Mutant: accepted by one side is enough.
OneSidedAccepted(a, v, rows) == {b \in ASes : <<v, a, b>> \in rows}

\* query_mutually_accepted_peers
MutuallyAccepted(a, v, rows) == {b \in ASes : <<v, a, b>> \in rows /\ <<v, b, a>> \in rows}

\* Mutant: rows are added, never removed.
AcceptedPeersAdded(a, v) ==
    accepted \cup {<<v, a, b>> : b \in GetAcceptedPeers(a, policies[v][a], Members(v))}

\* update_accepted_peers(v, a): the difference is removed and added.
UpdatedAcceptedPeers(a, v) ==
    {r \in accepted : r[1] # v \/ r[2] # a}
        \cup {<<v, a, b>> : b \in GetAcceptedPeers(a, policies[v][a], Members(v))}

\* The link type and orientation _create_links chooses, and what it loops over.
Pairs(type, a, b, v) ==
    {[type |-> type, a |-> i, b |-> j] : i \in InterfacesIn(a, v), j \in InterfacesIn(b, v)}

PairsToLink(a, b, v) ==
    IF a \in IsCore /\ b \in IsCore THEN Pairs("core", a, b, v)
    ELSE IF a \notin IsCore /\ b \notin IsCore THEN Pairs("peering", a, b, v)
    ELSE IF IsdOf[a] # IsdOf[b] THEN {}
    ELSE IF a \in IsCore THEN Pairs("provider", a, b, v)
    ELSE Pairs("provider", b, a, v)

\* Mutant: the ports of links from the other direction are not collected.
EndsA(a) == {<<l, l.port_a>> : l \in {k \in links : AsOf[k.a] = a}}

\* The link ends whose ports get_unused_port collects: those of all interfaces
\* of the AS, in all VLANs.
Ends(a) == {<<l, l.port_a>> : l \in {k \in links : AsOf[k.a] = a}}
            \cup {<<l, l.port_b>> : l \in {k \in links : AsOf[k.b] = a}}

\* get_unused_port walks the sorted ports and the interface's range in step
\* until they differ.  If the ports outlast the range it returns None, if they
\* end together it raises NoUnusedPorts: no port either way.
UnusedPort(i) ==
    LET ends == Ends(AsOf[i])
        first == range[i].first
        last == range[i].last
        \* the sorted ports have p at the place of p in the range
        InPlace(p) ==
            /\ Cardinality({e \in ends : e[2] < p}) <= p - first
            /\ Cardinality({e \in ends : e[2] <= p}) > p - first
        differ == {p \in first..(last - 1) : ~InPlace(p)}
    IN  IF first = 0 \/ last = 0 THEN {}
        ELSE {p \in differ : \A q \in differ : p <= q}

-----------------------------------------------------------------------------
Init ==
    /\ policies = [v \in Vlans |-> [a \in ASes |-> [t \in Targets |-> "none"]]]
    /\ accepted = {}
    /\ links = {}
    /\ range = [i \in Interfaces |-> NoPorts]
    /\ work \in [asys : ASes, vlans : {{}}, refresh : {TRUE}, todo : {{}}]

\* CreatePolicy and DestroyPolicy: one target changes.  A policy needs its AS
\* to be a member of the VLAN, and a target without a policy.
ChangePolicy(a, v, t, verdict) ==
    /\ Idle
    /\ a \in Members(v)
    /\ (policies[v][a][t] = "none") # (verdict = "none")
    /\ LET p == [policies[v][a] EXCEPT ![t] = verdict] IN
       /\ p \in Choices \cap Policies(a)
       /\ policies' = [policies EXCEPT ![v][a] = p]
    /\ work' = [asys |-> a, vlans |-> {v}, refresh |-> TRUE, todo |-> {}]
    /\ UNCHANGED <<accepted, links, range>>

\* SetPolicies: the policies in vs, one VLAN or all of them, are replaced, and
\* every VLAN the AS is connected to is resolved again.
SetPolicies(a, vs, new) ==
    /\ Idle
    /\ \A v \in vs : \/ new[v] = [t \in Targets |-> "none"]
                     \/ a \in Members(v) /\ new[v] \in Policies(a)
    /\ policies' = [v \in Vlans |->
                        IF v \in vs THEN [policies[v] EXCEPT ![a] = new[v]] ELSE policies[v]]
    /\ work' = [asys |-> a, vlans |-> ConnectedVlans(a), refresh |-> TRUE, todo |-> {}]
    /\ UNCHANGED <<accepted, links, range>>

\* Mutants: the arguments swapped, nothing recreated.
SetPortRangeSwapped(a, i, r) ==
    /\ Idle
    /\ range' = [range EXCEPT ![i] = [first |-> r.last, last |-> r.first]]
    /\ UNCHANGED <<policies, accepted, links, work>>

SetPortRangeNoUpdate(a, i, r) ==
    /\ Idle
    /\ range' = [range EXCEPT ![i] = r]
    /\ links' = links \ LinksOf(i)
    /\ UNCHANGED <<policies, accepted, work>>

\* SetPortRange by a client of AS a for interface i, looked up by its address
\* only.  Unless the range grows, the interface's links are deleted and a's
\* links in the VLAN updated.
SetPortRange(a, i, r) ==
    /\ Idle
    /\ range' = [range EXCEPT ![i] = r]
    /\ IF r.first <= range[i].first /\ r.last >= range[i].last
       THEN UNCHANGED <<links, work>>
       ELSE /\ links' = links \ LinksOf(i)
            /\ work' = [asys |-> a, vlans |-> {VlanOf[i]}, refresh |-> FALSE, todo |-> {}]
    /\ UNCHANGED <<policies, accepted>>

\* update_accepted_peers, if the RPC changed policies, and update_links as far
\* as its loop over the peers to add.
UpdateLinks(v) ==
    /\ v \in work.vlans
    /\ work.todo = {}
    /\ accepted' = IF work.refresh THEN UpdatedAcceptedPeers(work.asys, v) ELSE accepted
    /\ LET a == work.asys
           old == ConnectedPeers(a, v)
           new == MutuallyAccepted(a, v, accepted') IN
       /\ links' = links \ LinksWith(a, old \ new, v)
       /\ work' = [work EXCEPT !.vlans = @ \ {v},
                               !.todo = UNION {PairsToLink(a, b, v) : b \in new \ old}]
    /\ UNCHANGED <<policies, range>>

\* One turn of the loop of _create_links.
CreateLink(pair) ==
    /\ pair \in work.todo
    /\ work' = [work EXCEPT !.todo = @ \ {pair}]
    /\ links' = links \cup {[type |-> pair.type, a |-> pair.a, port_a |-> p,
                             b |-> pair.b, port_b |-> q] :
                                p \in UnusedPort(pair.a), q \in UnusedPort(pair.b)}
    /\ UNCHANGED <<policies, accepted, range>>

Resolve ==
    \/ \E v \in Vlans : UpdateLinks(v)
    \/ \E pair \in work.todo : CreateLink(pair)

ChangePolicies ==
    \E a \in ASes :
        \/ \E v \in Vlans, t \in Targets, verdict \in Verdicts : ChangePolicy(a, v, t, verdict)
        \/ \E new \in [Vlans -> Choices] :
              \/ SetPolicies(a, Vlans, new)
              \/ \E v \in Vlans : SetPolicies(a, {v}, new)

SetOwnPortRange == \E i \in Interfaces, r \in PortRanges : SetPortRange(AsOf[i], i, r)

\* Assumed of the clients, not checked by the coordinator: they configure the
\* ports of their own AS's interfaces.
Next == Resolve \/ ChangePolicies \/ SetOwnPortRange

Spec == Init /\ [][Next]_vars

-----------------------------------------------------------------------------
Mutual(a, b, v) ==
    /\ Accepts(a, b, policies[v][a], Members(v))
    /\ Accepts(b, a, policies[v][b], Members(v))

Compatible(a, b) == (a \in IsCore) = (b \in IsCore) \/ IsdOf[a] = IsdOf[b]

\* Between RPCs a link exists only where each of the two ASes accepts the
\* other in the link's VLAN by the policies both have now: a peer that was
\* dropped, by whichever RPC of whichever side, keeps no link
\* (policy_resolver.py:96-112).
LinksAreMutual ==
    Idle => \A l \in links : Mutual(AsOf[l.a], AsOf[l.b], VlanOf[l.a])

\* Between RPCs ASes of compatible types that accept each other and have ports
\* are linked, whichever of them agreed last and whatever moved their ports
\* in between: every interface of one to every interface of the other, as
\* tests/test_peering_policy.py:92-93 says (policy_resolver.py:114-117).
MutualAreLinked ==
    Idle => \A i, j \in Interfaces :
        /\ VlanOf[i] = VlanOf[j]
        /\ Mutual(AsOf[i], AsOf[j], VlanOf[i])
        /\ Compatible(AsOf[i], AsOf[j])
        /\ NoPorts \notin {range[i], range[j]}
        => LinksOf(i) \cap LinksOf(j) # {}

\* A pair of interfaces has at most one link, in one of the two directions:
\* the unique constraint of Link compares ordered pairs only, the rest is up
\* to update_links (models/ixp.py:346).
OneLinkPerPair ==
    \A k, l \in links : {k.a, k.b} = {l.a, l.b} => k = l

\* The ports of an interface's links are from its range and no two of them are
\* the same, after ranges grew, shrank and moved and links came and went
\* (models/ixp.py:249-267).
Port(l, i) == IF l.a = i THEN l.port_a ELSE l.port_b

PortsUnique ==
    \A i \in Interfaces :
        /\ \A l \in LinksOf(i) : Port(l, i) \in range[i].first..(range[i].last - 1)
        /\ \A k, l \in LinksOf(i) : Port(k, i) = Port(l, i) => k = l

\* A link that two ASes keep agreeing on survives, ports and all, whatever
\* policies change around it; only a new port range of one of its interfaces
\* replaces it (policy_resolver.py:99-112).
WantedLinksStay ==
    [][\A l \in links \ links' :
          \/ ~Mutual(AsOf[l.a], AsOf[l.b], VlanOf[l.a])
          \/ range'[l.a] # range[l.a]
          \/ range'[l.b] # range[l.b]]_vars

\* Between RPCs the AcceptedPeer rows are what the policies say, for every AS
\* and VLAN (policy_resolver.py:14-33).
AcceptedUpToDate ==
    Idle => accepted = {r \in Vlans \X ASes \X ASes :
                            Accepts(r[2], r[3], policies[r[1]][r[2]], Members(r[1]))}
=============================================================================
