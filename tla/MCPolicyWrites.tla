---------------------------- MODULE MCPolicyWrites ----------------------------
\* A small instance of PolicyWrites: two clients in one VLAN, with interfaces
\* named like their clients.
EXTENDS PolicyWrites

CONSTANTS c1, c2, v1

Ids == {-1, 1}
ClientsOf == [i \in Interfaces |-> i]
VlansOf == [i \in Interfaces |-> v1]
=============================================================================
