---- MODULE MCPolicyTables ----
EXTENDS PolicyTables

CONSTANTS A, B, o, d, v1, v2, written, canonical, stranger

MCOwnerOf == [a \in {A, B} |-> o]
MCIsdOf == [a \in {A, B} |-> d]

Message(v, a, t, accept) == [vlan |-> v, asn |-> a, target |-> t, accept |-> accept]

\* Policies for the other AS, its ISD and everyone, the same with one flaw each,
\* and one with the AS's number in another spelling.
Good ==
    {Message(v1, canonical, t, accept) : t \in {PeerAs(B), PeerIsd(d), Default}, accept \in BOOLEAN}
        \cup {Message(v2, canonical, t, accept) : t \in {PeerAs(B), Default}, accept \in BOOLEAN}
Bad ==
    {Message(Unknown, canonical, PeerAs(B), TRUE), Message(v1, stranger, PeerAs(B), TRUE),
     Message(v1, canonical, PeerAs(A), TRUE), Message(v1, canonical, UnknownPeer, TRUE),
     Message(v1, canonical, UnknownIsd, TRUE),
     Message(v2, written, PeerAs(B), FALSE)}
MCMessages == Good \cup Bad

\* Next to any message one for the other AS, before or after it.
MCRequests ==
    {<<>>} \cup {<<m>> : m \in MCMessages}
        \cup {<<Message(v1, canonical, PeerAs(B), TRUE), m>> : m \in MCMessages}
        \cup {<<m, Message(v1, canonical, PeerAs(B), TRUE)>> : m \in Bad}
====
