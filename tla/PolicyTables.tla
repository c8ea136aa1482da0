---------------------------- MODULE PolicyTables -----------------------------
(***************************************************************************)
(* The policies of one AS, Me, in the database: how the policy RPCs parse  *)
(* and store them, how the admin site edits them, and the AcceptedPeer     *)
(* rows computed from them.  PeeringPolicies has the computation,          *)
(* LinkResolver the links, PolicyWrites who may call the RPCs.             *)
(*                                                                         *)
(* A message is a Policy of the API with its names looked up: its VLAN is  *)
(* a VLAN or Unknown, its target is what the peer resolves to, UnknownPeer *)
(* or UnknownIsd.  Its ASN stays a text, because the RPCs compare it with  *)
(* the text of the caller's metadata (asn_str), where the numbers may be   *)
(* the same and the spellings differ (module AsNumber).                    *)
(***************************************************************************)
EXTENDS PeeringPolicies, Naturals, Sequences, SequencesExt

CONSTANTS
    Me,
    Spellings,   \* the texts that ASN() reads as the number of Me
    Canonical,   \* the one of them that str() gives
    Vlans,
    AllVlans,    \* the VLAN of a request that names none
    Unknown, UnknownPeer, UnknownIsd,
    Messages,    \* bound: the messages of clients, and the rows admins enter
    Requests     \* bound: the policies of a SetPolicies, sequences of messages

ASSUME PolicyTablesAssumption ==
    /\ Me \in ASes /\ Canonical \in Spellings /\ AllVlans \notin Vlans /\ Unknown \notin Vlans
    /\ {UnknownPeer, UnknownIsd} \cap Targets = {}
    /\ \A m \in Messages :
          /\ m.vlan \in Vlans \cup {Unknown} /\ m.accept \in BOOLEAN
          /\ m.target \in Targets \cup {UnknownPeer, UnknownIsd}
    /\ \A r \in Requests : r \in Seq(Messages)

VARIABLES
    rows,         \* the four policy tables
    members,      \* VLAN -> the ASes with an interface in it
    accepted,     \* VLAN -> the peers in the AcceptedPeer rows of Me
    stale         \* history: VLANs changed behind the back of AcceptedPeer

vars == <<rows, members, accepted, stale>>

-----------------------------------------------------------------------------
Row == [vlan : Vlans, target : Targets \ {PeerAs(Me)}, accept : BOOLEAN]

TypeOK ==
    /\ rows \subseteq Row
    /\ members \in [Vlans -> SUBSET ASes]
    /\ accepted \in [Vlans -> SUBSET (ASes \ {Me})]
    /\ stale \subseteq Vlans

Init ==
    /\ rows = {}
    /\ members = [v \in Vlans |-> ASes]
    /\ accepted = [v \in Vlans |-> {}]
    /\ stale = {}

RowOf(m) == [vlan |-> m.vlan, target |-> m.target, accept |-> m.accept]
In(scope, r) == scope \in {AllVlans, r.vlan}
Connected == {v \in Vlans : Me \in members[v]}

\* The verdicts of the rows of a VLAN, for PeeringPolicies.
PoliciesIn(rs, v) ==
    [t \in Targets |->
        IF \E r \in rs : r.vlan = v /\ r.target = t /\ r.accept THEN "accept"
        ELSE IF \E r \in rs : r.vlan = v /\ r.target = t THEN "reject" ELSE "none"]

AcceptedIn(rs, mem, v) == GetAcceptedPeers(Me, PoliciesIn(rs, v), mem[v])

\* update_accepted_peers in each of the VLANs vs, once rows and members are set.
UpdateAcceptedPeers(vs) ==
    accepted' = [v \in Vlans |-> IF v \in vs THEN AcceptedIn(rows', members', v) ELSE accepted[v]]

-----------------------------------------------------------------------------
\* The related fields of PolicyProtoSerializer.  IsdRelatedField catches the
\* exception of another model: is_valid raises for an ISD that does not exist.
IsValid(m) == m.vlan \in Vlans /\ m.target \in Targets
IsValidRaises(m) == m.target = UnknownIsd

\* Mutant: a policy is a duplicate only if the verdict is the same.
Differs(rs, r) == r \notin rs

\* The unique constraints.
Unique(rs, r) == ~ \E q \in rs : q.vlan = r.vlan /\ q.target = r.target

\* Mutant: an AS may have a policy for itself.
CleanBase(rs, r) == r.vlan \in Connected /\ Unique(rs, r)

\* full_clean in PeeringPolicy.save.
Clean(rs, r) == r.vlan \in Connected /\ r.target # PeerAs(Me) /\ Unique(rs, r)

\* Mutant: the VLAN of the row is not updated.
NotRefreshed(v) == UNCHANGED accepted /\ stale' = stale \ {v}

\* What follows a change of a policy in VLAN v.
Refreshed(v) == UpdateAcceptedPeers({v}) /\ stale' = stale \ {v}

NotRefreshedAtAll(v) == UNCHANGED accepted /\ stale' = stale \cup {v}

CreatePolicy(asn_str, m) ==
    /\ m.asn = asn_str /\ IsValid(m) /\ Clean(rows, RowOf(m))
    /\ rows' = rows \cup {RowOf(m)}
    /\ UNCHANGED members
    /\ Refreshed(m.vlan)

DestroyPolicy(asn_str, m) ==
    /\ m.asn = asn_str /\ IsValid(m) /\ RowOf(m) \in rows
    /\ rows' = rows \ {RowOf(m)}
    /\ UNCHANGED members
    /\ Refreshed(m.vlan)

\* Mutant: the policies of all VLANs are deleted.
Everything(rs, scope) == {}

\* _delete_policies
DeletePolicies(rs, scope) == {r \in rs : ~In(scope, r)}

\* _set_policies for one message: done has the rows so far, the messages
\* rejected, and whether is_valid raised, which ends the RPC.
SetPolicy(asn_str, done, m, scope) ==
    LET foreign == m.asn # asn_str \/ (scope # AllVlans /\ m.vlan # scope) IN
    IF done.raised \/ (~foreign /\ IsValidRaises(m)) THEN [done EXCEPT !.raised = TRUE]
    ELSE IF foreign \/ ~IsValid(m) \/ ~Clean(done.rows, RowOf(m))
    THEN [done EXCEPT !.rejected = @ \cup {m}]
    ELSE [done EXCEPT !.rows = @ \cup {RowOf(m)}]

SetAll(asn_str, rs, request, scope) ==
    LET done[i \in 0..Len(request)] ==
            IF i = 0
            THEN [rows |-> DeletePolicies(rs, scope), rejected |-> {}, raised |-> FALSE]
            ELSE SetPolicy(asn_str, done[i - 1], request[i], scope)
    IN  done[Len(request)]

\* SetPolicies, if it is not rolled back.  AcceptedPeer is updated in the VLANs
\* Me is connected to, deleted policies of others leave theirs behind.
SetPolicies(asn_str, request, scope, continue_on_error) ==
    LET done == SetAll(asn_str, rows, request, scope) IN
    /\ ~done.raised /\ (done.rejected = {} \/ continue_on_error)
    /\ rows' = done.rows
    /\ UNCHANGED members
    /\ UpdateAcceptedPeers(Connected)
    /\ stale' = (stale \cup {r.vlan : r \in rows \ done.rows}) \ Connected

-----------------------------------------------------------------------------
\* PolicyAdmin updates AcceptedPeer, DefaultPolicyAdmin does not.
Edited(r) == IF r.target = Default THEN NotRefreshedAtAll(r.vlan) ELSE Refreshed(r.vlan)

AdminAdd(m) ==
    /\ IsValid(m) /\ Clean(rows, RowOf(m))
    /\ rows' = rows \cup {RowOf(m)}
    /\ UNCHANGED members
    /\ Edited(RowOf(m))

\* A row of the same table is changed, and AcceptedPeer updated in its new VLAN.
AdminChange(old, m) ==
    /\ old \in rows /\ m.target.kind = old.target.kind
    /\ Clean(rows \ {old}, RowOf(m))
    /\ rows' = (rows \ {old}) \cup {RowOf(m)}
    /\ UNCHANGED members
    /\ IF old.target = Default
       THEN UNCHANGED accepted /\ stale' = stale \cup {old.vlan, m.vlan}
       ELSE /\ UpdateAcceptedPeers({m.vlan})
            /\ stale' = (stale \cup {old.vlan}) \ {m.vlan}

\* The row is changed to one of another AS.
AdminGiveAway(old) ==
    /\ old \in rows
    /\ rows' = rows \ {old}
    /\ UNCHANGED members
    /\ NotRefreshedAtAll(old.vlan)

AdminDelete(old) ==
    /\ old \in rows
    /\ rows' = rows \ {old}
    /\ UNCHANGED members
    /\ Edited(old)

\* An interface is added, or moved to another VLAN.
Join(b, v) ==
    /\ b \notin members[v]
    /\ members' = [members EXCEPT ![v] = @ \cup {b}]
    /\ UNCHANGED rows /\ NotRefreshedAtAll(v)

Leave(b, v) ==
    /\ b \in members[v]
    /\ members' = [members EXCEPT ![v] = @ \ {b}]
    /\ UNCHANGED rows /\ NotRefreshedAtAll(v)

Rpc ==
    \E asn_str \in Spellings :
        \/ \E m \in Messages : CreatePolicy(asn_str, m) \/ DestroyPolicy(asn_str, m)
        \/ \E request \in Requests, scope \in Vlans \cup {AllVlans}, continue \in BOOLEAN :
              SetPolicies(asn_str, request, scope, continue)

Admin ==
    \/ \E m \in {n \in Messages : n.asn \in Spellings /\ IsValid(n)} :
          AdminAdd(m) \/ \E old \in rows : AdminChange(old, m)
    \/ \E old \in rows : AdminGiveAway(old) \/ AdminDelete(old)
    \/ \E b \in ASes, v \in Vlans : Join(b, v) \/ Leave(b, v)

Next == Rpc \/ Admin
Spec == Init /\ [][Next]_vars

-----------------------------------------------------------------------------
\* ListPolicies for the verdicts and the kinds of peers that its filters admit.
\* AsRelatedField writes the AS with str(), however the caller spells it.
ListPolicies(vlan, accepts, kinds) ==
    {[vlan |-> r.vlan, asn |-> Canonical, target |-> r.target, accept |-> r.accept] :
        r \in {q \in rows : In(vlan, q) /\ q.accept \in accepts /\ q.target.kind \in kinds}}

\* The same AS, owner or ISD is never accepted and rejected at the same time,
\* on which the evaluation of the policies relies (policy_resolver.py:64),
\* through any sequence of RPCs and edits.
OneVerdict ==
    \A r, q \in rows : r.vlan = q.vlan /\ r.target = q.target => r = q

\* The AcceptedPeer rows are what the policies and the members of the VLAN give,
\* but for VLANs changed by edits after which they are not computed again; the
\* next RPC that changes policies there puts that right (peering.py:212, 240,
\* 314-317, admin.py:126-139).
AcceptedCurrent ==
    \A v \in Vlans \ stale : accepted[v] = AcceptedIn(rows, members, v)

\* A client can save what ListPolicies returns and restore it with SetPolicies,
\* for all VLANs or for one: nothing is rejected and the tables are the same, if
\* the AS is still connected to the VLANs and the client spells its ASN as str()
\* does.  With any other spelling that authentication admits all it listed is
\* rejected, and its policies are lost if it continues on errors
\* (peering.py:194, 290, serializers.py:28-30, 74-108).
ListedCanBeSet ==
    \A asn_str \in Spellings, scope \in Vlans \cup {AllVlans} :
        LET listed == ListPolicies(scope, BOOLEAN, {t.kind : t \in Targets})
            done == SetAll(asn_str, rows, SetToSeq(listed), scope) IN
        IF asn_str # Canonical
        THEN done = [rows |-> DeletePolicies(rows, scope), rejected |-> listed, raised |-> FALSE]
        ELSE {m.vlan : m \in listed} \subseteq Connected =>
                 done = [rows |-> rows, rejected |-> {}, raised |-> FALSE]
=============================================================================
