------------------------ MODULE MCClientConnections ------------------------
\* Small instances of ClientConnections.
EXTENDS ClientConnections, TLC

CONSTANTS c1, c2, c3, v1, v2

Ids == {-1, 1}

\* One client with an interface in each of two VLANs, one with an interface in
\* only one of them.
TwoVlansClientOf == <<c1, c1, c2>>
TwoVlansVlanOf == <<v1, v2, v1>>

\* Three clients in one VLAN, where ties have two losers; each interface is
\* named like its client, which keeps the instance symmetric.
OneVlanClientOf == [i \in {c1, c2, c3} |-> i]
OneVlanVlanOf == [i \in {c1, c2, c3} |-> v1]

\* A client with two interfaces in the same VLAN.
TwinClientOf == <<c1, c1, c2>>
TwinVlanOf == <<v1, v1, v1>>

Symmetric == Permutations({c1, c2, c3})
=============================================================================
