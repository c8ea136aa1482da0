----------------------------- MODULE PolicyWrites -----------------------------
(***************************************************************************)
(* The use the policy RPCs of api/peering.py make of the election in       *)
(* ClientConnections: an RPC asks once whether its client is primary, then *)
(* writes policies and links without holding the lock, while bids and      *)
(* departures go on.  Unary RPCs need no stream: any client of the AS may  *)
(* call them.                                                              *)
(***************************************************************************)
EXTENDS ClientConnections

VARIABLE writing  \* the VLANs whose policies each client's running RPC writes

writeVars == <<vars, writing>>

Begin(c, vs) ==
    /\ writing[c] = {}
    /\ writing' = [writing EXCEPT ![c] = vs]
    /\ UNCHANGED vars

\* CreatePolicy and DestroyPolicy in VLAN v.
WritePolicy(c, v) == Granted(c, v) /\ Begin(c, {v})

\* SetPolicies without a VLAN replaces the policies of every VLAN.
SetAllPolicies(c) == Granted(c, AllVlans) /\ Begin(c, Vlans)

\* SetPolicies for an existing VLAN v: the permission check follows the abort
\* for an unknown VLAN and is never reached.
SetVlanPolicies(c, v) == Begin(c, {v})

\* The transaction commits, the RPC returns.
End(c) ==
    /\ writing[c] # {}
    /\ writing' = [writing EXCEPT ![c] = {}]
    /\ UNCHANGED vars

WriteNext ==
    \/ Next /\ UNCHANGED writing
    \/ \E c \in Clients :
          \/ SetAllPolicies(c)
          \/ End(c)
          \/ \E v \in Vlans : WritePolicy(c, v) \/ SetVlanPolicies(c, v)

WriteSpec == Init /\ writing = [c \in Clients |-> {}] /\ [][WriteNext]_writeVars

-----------------------------------------------------------------------------
\* No RPC starts to write a VLAN's policies while another client is the VLAN's
\* primary (peering.proto:50-51; peering.py:272-282).
OnlyPrimaryWrites ==
    [][\A c \in Clients : \A v \in writing'[c] \ writing[c] :
          primary[v] \notin Clients \ {c}]_writeVars
=============================================================================
