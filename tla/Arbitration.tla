----------------------------- MODULE Arbitration -----------------------------
(***************************************************************************)
(* What the coordinator promises the peering clients of one AS about write *)
(* permission (message ArbitrationUpdate in peering.proto): in every VLAN  *)
(* the connected client with the highest election ID is primary, whichever *)
(* of them in a tie.  No locks, no queues, no threads: a bid and its       *)
(* outcome are one step, and so are a departure and the elections it       *)
(* causes.  ClientConnections implements this module.                      *)
(***************************************************************************)
EXTENDS Integers

CONSTANTS
    Clients,      \* peering clients of the AS
    Vlans,
    ElectionIds,  \* the int64 values clients bid with
    NoBid,        \* "this client is not a candidate"
    NoClient      \* "nobody is primary"

VARIABLES
    bid,      \* VLAN -> client -> election ID, or NoBid
    leader    \* VLAN -> primary client, or NoClient

vars == <<bid, leader>>

Candidates(bids) == {c \in Clients : bids[c] # NoBid}

\* Who may win an election on these bids.
Winners(bids) ==
    IF Candidates(bids) = {} THEN {NoClient}
    ELSE {c \in Candidates(bids) : \A d \in Candidates(bids) : bids[d] <= bids[c]}

Init ==
    /\ bid = [v \in Vlans |-> [c \in Clients |-> NoBid]]
    /\ leader = [v \in Vlans |-> NoClient]

\* Client c bids e in VLAN v, for the first time or again.
Bid(c, v, e) ==
    /\ bid' = [bid EXCEPT ![v][c] = e]
    /\ \E w \in Winners(bid'[v]) : leader' = [leader EXCEPT ![v] = w]

\* Client c leaves.  VLANs it does not lead keep their leader.
Leave(c) ==
    /\ bid' = [v \in Vlans |-> [bid[v] EXCEPT ![c] = NoBid]]
    /\ leader' \in [Vlans -> Clients \cup {NoClient}]
    /\ \A v \in Vlans :
          IF leader[v] = c THEN leader'[v] \in Winners(bid'[v]) ELSE leader'[v] = leader[v]

Next ==
    \/ \E c \in Clients, v \in Vlans, e \in ElectionIds : Bid(c, v, e)
    \/ \E c \in Clients : Leave(c)

Spec == Init /\ [][Next]_vars
=============================================================================
