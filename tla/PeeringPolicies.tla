--------------------------- MODULE PeeringPolicies ---------------------------
(***************************************************************************)
(* Which ASes an AS accepts as peers in a VLAN: the set algebra of         *)
(* policy_resolver._get_accepted_peers, and the precedence of the four     *)
(* kinds of policies it is meant to compute.                               *)
(*                                                                         *)
(* The unique constraints of models/policies.py allow one policy per VLAN, *)
(* AS and target, so the policies of an AS in a VLAN are a function from   *)
(* targets to verdicts.                                                    *)
(***************************************************************************)
CONSTANTS
    ASes,
    Owners,
    Isds,
    OwnerOf,   \* the owner and the ISD of every AS
    IsdOf,
    Everyone   \* the target of a default policy

ASSUME PeeringPoliciesAssumption ==
    /\ OwnerOf \in [ASes -> Owners]
    /\ IsdOf \in [ASes -> Isds]

Verdicts == {"accept", "reject", "none"}

PeerAs(b) == [kind |-> "as", peer |-> b]
PeerOwner(o) == [kind |-> "owner", peer |-> o]
PeerIsd(d) == [kind |-> "isd", peer |-> d]
Default == [kind |-> "default", peer |-> Everyone]

Targets ==
    {PeerAs(b) : b \in ASes} \cup {PeerOwner(o) : o \in Owners}
        \cup {PeerIsd(d) : d \in Isds} \cup {Default}

\* AsPeerPolicy.clean rejects a policy for the AS itself (peer_with_self).
Policies(a) == {p \in [Targets -> Verdicts] : p[PeerAs(a)] = "none"}

\* _get_accepted_peers for AS a with policies p in a VLAN with these members.
GetAcceptedPeers(a, p, members) ==
    LET others == ASes \ {a}
        as_accept == {b \in ASes : p[PeerAs(b)] = "accept"}
        as_reject == {b \in ASes : p[PeerAs(b)] = "reject"}
        as_accepted_by_org == {b \in others : p[PeerOwner(OwnerOf[b])] = "accept"}
        as_rejected_by_org == {b \in others : p[PeerOwner(OwnerOf[b])] = "reject"}
        as_accepted_by_isd == {b \in others : p[PeerIsd(IsdOf[b])] = "accept"}
        as_rejected_by_isd == {b \in others : p[PeerIsd(IsdOf[b])] = "reject"}
        accept == as_accept
                    \cup (as_accepted_by_org \ as_reject)
                    \cup (as_accepted_by_isd \ (as_rejected_by_org \cup as_reject))
        as_all == members \ {a}
    IN  IF p[Default] = "accept"
        THEN accept \cup (as_all \ (as_rejected_by_isd \cup as_rejected_by_org \cup as_reject))
        ELSE accept

-----------------------------------------------------------------------------
\* The most specific policy for a peer decides: AS before owner before ISD
\* before the default, which covers members of the VLAN only.
Decision(b, p, members) ==
    IF p[PeerAs(b)] # "none" THEN p[PeerAs(b)]
    ELSE IF p[PeerOwner(OwnerOf[b])] # "none" THEN p[PeerOwner(OwnerOf[b])]
    ELSE IF p[PeerIsd(IsdOf[b])] # "none" THEN p[PeerIsd(IsdOf[b])]
    ELSE IF b \in members THEN p[Default]
    ELSE "none"

Accepts(a, b, p, members) == b # a /\ Decision(b, p, members) = "accept"
=============================================================================
