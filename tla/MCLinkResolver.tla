---------------------------- MODULE MCLinkResolver ----------------------------
\* Small instances of LinkResolver with three ASes.
EXTENDS LinkResolver

CONSTANTS A, B, C, o1, o2, v1, v2

\* A and B share an owner, and A and C an ISD of which C is the core.
MCOwnerOf == [a \in ASes |-> IF a = C THEN o2 ELSE o1]
MCIsdOf == [a \in ASes |-> IF a = B THEN 2 ELSE 1]
MCIsCore == {C} \cap ASes

\* Policies that name one target, and the default.
Choosing(targets) == {p \in [Targets -> Verdicts] : \A t \in Targets \ targets : p[t] = "none"}

\* One interface each, all in one VLAN.
OneEachAsOf == [i \in Interfaces |-> <<A, B, C>>[i]]
OneEachVlanOf == [i \in Interfaces |-> v1]
OneEachChoices == Choosing({Default, PeerAs(A)})

\* A policy that accepts everybody, or none.
AcceptAll == {[t \in Targets |-> "none"],
              [t \in Targets |-> IF t = Default THEN "accept" ELSE "none"]}

\* A has two peers in one VLAN and one in another.
MixedAsOf == <<A, B, C, A, B>>
MixedVlanOf == <<v1, v1, v1, v2, v2>>

Narrow == {[first |-> 1, last |-> 3], [first |-> 2, last |-> 4]}
Disjoint == {[first |-> 1, last |-> 3], [first |-> 5, last |-> 7]}
=============================================================================
