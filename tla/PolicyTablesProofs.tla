-------------------------- MODULE PolicyTablesProofs --------------------------
(***************************************************************************)
(* Proofs about PolicyTables, for any ASes, owners, ISDs and VLANs, any    *)
(* messages and requests of any length.                                    *)
(*                                                                         *)
(* SetPolicies loops over the policies of its request.  What a loop leaves *)
(* is proved by LoopInvariant from what each turn does, with a sequence of *)
(* sets of states instead of a predicate: the states possible after each   *)
(* number of turns.  The principle behind it is that a nonempty set of     *)
(* numbers has a least member (Least).                                     *)
(***************************************************************************)
EXTENDS PolicyTables, FiniteSetTheorems, WellFoundedInduction, TLAPS

-----------------------------------------------------------------------------
\* A nonempty set of natural numbers has a least member.
LEMMA Least ==
    ASSUME NEW T \in SUBSET Nat, T # {}
    PROVE  \E n \in T : \A m \in T : n <= m
<1> DEFINE less == OpToRel(<, Nat)
<1>1. IsWellFoundedOn(less, Nat)
  BY NatLessThanWellFounded
<1>2. \A m, n \in Nat : m < n => <<m, n>> \in less
  BY DEF OpToRel
<1> HIDE DEF less
<1>3. PICK n \in T : \A m \in T : <<m, n>> \notin less
  BY <1>1, WFMin
<1>4. \A m \in T : m \in Nat /\ n \in Nat /\ ~(m < n)
  BY <1>2, <1>3
<1>5. \A m \in T : n <= m
  BY <1>4
<1> QED  BY <1>5

\* The loop of _set_policies after _delete_policies: the first k of its turns.
Start(rs, scope) == [rows |-> DeletePolicies(rs, scope), rejected |-> {}, raised |-> FALSE]
Turns(asn_str, rs, request, scope, k, done) ==
    [i \in 0..k |-> IF i = 0 THEN Start(rs, scope) ELSE SetPolicy(asn_str, done[i - 1], request[i], scope)]

\* The loop is defined for every number of turns.
LEMMA LoopExists ==
    ASSUME NEW asn_str, NEW rs, NEW request, NEW scope, NEW n \in Nat
    PROVE  \E done : done = Turns(asn_str, rs, request, scope, n, done)
<1> DEFINE T == {k \in Nat : ~ \E done : done = Turns(asn_str, rs, request, scope, k, done)}
<1>1. SUFFICES ASSUME T # {} PROVE FALSE
  OBVIOUS
<1>2. PICK k \in T : \A j \in T : k <= j
  BY <1>1, Least
<1>3. CASE k = 0
  <2> DEFINE done == [i \in 0..0 |-> Start(rs, scope)]
  <2>1. done = Turns(asn_str, rs, request, scope, 0, done)
    BY DEF Turns
  <2> QED  BY <1>2, <1>3, <2>1
<1>4. CASE k # 0
  <2>1. k - 1 \in Nat /\ k - 1 \notin T
    BY <1>2, <1>4
  <2>2. PICK done : done = Turns(asn_str, rs, request, scope, k - 1, done)
    BY <2>1
  <2> DEFINE more == Turns(asn_str, rs, request, scope, k, done)
  <2>3. ASSUME NEW i \in 0..k, i # 0
        PROVE  more[i - 1] = done[i - 1]
    <3>1. i - 1 \in 0..k /\ i - 1 \in 0..(k - 1)
      BY <2>1, <2>3
    <3>2. more[i - 1] = IF i - 1 = 0 THEN Start(rs, scope)
                        ELSE SetPolicy(asn_str, done[i - 1 - 1], request[i - 1], scope)
      BY <3>1 DEF Turns
    <3>3. done[i - 1] = IF i - 1 = 0 THEN Start(rs, scope)
                        ELSE SetPolicy(asn_str, done[i - 1 - 1], request[i - 1], scope)
      BY <2>2, <3>1 DEF Turns
    <3> QED  BY <3>2, <3>3
  <2>4. more = [i \in 0..k |-> IF i = 0 THEN Start(rs, scope)
                               ELSE SetPolicy(asn_str, done[i - 1], request[i], scope)]
    BY DEF Turns
  <2> HIDE DEF more
  <2>5. more = Turns(asn_str, rs, request, scope, k, more)
    BY <2>3, <2>4 DEF Turns
  <2> QED  BY <1>2, <2>5
<1> QED  BY <1>3, <1>4

\* A sequence of sets that holds the first state of the loop, and that each
\* turn follows, holds the last one.
LEMMA LoopInvariant ==
    ASSUME NEW asn_str, NEW rs, NEW request, NEW scope, NEW S,
           Len(request) \in Nat,
           Start(rs, scope) \in S[0],
           \A i \in 1..Len(request) : \A done \in S[i - 1] :
               SetPolicy(asn_str, done, request[i], scope) \in S[i]
    PROVE  SetAll(asn_str, rs, request, scope) \in S[Len(request)]
<1> DEFINE n == Len(request)
<1> DEFINE last == CHOOSE done : done = Turns(asn_str, rs, request, scope, n, done)
<1>1. last = Turns(asn_str, rs, request, scope, n, last)
  BY LoopExists
<1>2. SetAll(asn_str, rs, request, scope) = last[n]
  BY DEF SetAll, Turns, Start
<1> HIDE DEF last
<1> DEFINE T == {k \in 0..n : last[k] \notin S[k]}
<1>3. T = {}
  <2>1. SUFFICES ASSUME T # {} PROVE FALSE
    OBVIOUS
  <2>2. PICK k \in T : \A j \in T : k <= j
    <3>1. T \in SUBSET Nat
      OBVIOUS
    <3> HIDE DEF T
    <3> QED  BY <2>1, <3>1, Least
  <2>3. last[k] = IF k = 0 THEN Start(rs, scope) ELSE SetPolicy(asn_str, last[k - 1], request[k], scope)
    BY <1>1, <2>2 DEF Turns
  <2>4. k # 0
    BY <2>2, <2>3
  <2>5. k \in 1..n /\ k - 1 \in 0..n /\ k - 1 \notin T
    BY <2>2, <2>4
  <2>6. last[k - 1] \in S[k - 1]
    BY <2>5
  <2> QED  BY <2>2, <2>3, <2>4, <2>5, <2>6
<1> QED  BY <1>2, <1>3

-----------------------------------------------------------------------------
\* What the unique constraints and clean leave in the tables: rows of policies,
\* not for Me, finitely many, with one verdict for a target.
Sound(rs) ==
    /\ rs \subseteq Row
    /\ IsFiniteSet(rs)
    /\ \A r, q \in rs : r.vlan = q.vlan /\ r.target = q.target => r = q

\* OneVerdict and the types are what the rows need to stay so; AcceptedCurrent
\* needs that they are rows of VLANs.
IInv == TypeOK /\ Sound(rows) /\ AcceptedCurrent

\* A row that full_clean lets through joins the others.
LEMMA RowAdded ==
    ASSUME NEW rs, Sound(rs), NEW m \in Messages, IsValid(m), Clean(rs, RowOf(m))
    PROVE  /\ RowOf(m) \in Row
           /\ Sound(rs \cup {RowOf(m)})
<1>1. RowOf(m) \in Row
  BY PolicyTablesAssumption DEF IsValid, Clean, RowOf, Row
<1>2. IsFiniteSet(rs \cup {RowOf(m)})
  BY FS_AddElement DEF Sound
<1>3. ~ \E q \in rs : q.vlan = RowOf(m).vlan /\ q.target = RowOf(m).target
  BY DEF Clean, Unique
<1> DEFINE new == RowOf(m)
<1> HIDE DEF new
<1>4. \A r, q \in rs \cup {new} : r.vlan = q.vlan /\ r.target = q.target => r = q
  BY <1>3 DEF Sound, new
<1> QED  BY <1>1, <1>2, <1>4 DEF Sound, new

\* Deleting rows does no harm to the others.
LEMMA RowsRemoved ==
    ASSUME NEW rs, Sound(rs), NEW left \in SUBSET rs
    PROVE  Sound(left)
BY FS_Subset DEF Sound

\* Me is never among the peers it accepts (AsPeerPolicy.clean, and the query
\* for a default policy).
LEMMA AcceptedTypes ==
    ASSUME NEW rs, rs \subseteq Row, NEW mem \in [Vlans -> SUBSET ASes], NEW v \in Vlans
    PROVE  AcceptedIn(rs, mem, v) \in SUBSET (ASes \ {Me})
<1> DEFINE p == PoliciesIn(rs, v)
<1>1. PeerAs(Me) \in Targets
  BY PolicyTablesAssumption DEF Targets
<1>2. p[PeerAs(Me)] = "none"
  BY <1>1 DEF PoliciesIn, Row
<1> HIDE DEF p
<1>3. GetAcceptedPeers(Me, p, mem[v]) \in SUBSET (ASes \ {Me})
  <2>1. mem[v] \subseteq ASes
    OBVIOUS
  <2> QED  BY <1>2, <2>1 DEF GetAcceptedPeers
<1> QED  BY <1>3 DEF AcceptedIn, p

\* Rows of other VLANs do not matter.
LEMMA AcceptedLocal ==
    ASSUME NEW rs, NEW qs, NEW mem, NEW v,
           \A r : r.vlan = v => (r \in rs <=> r \in qs)
    PROVE  AcceptedIn(rs, mem, v) = AcceptedIn(qs, mem, v)
<1>1. PoliciesIn(rs, v) = PoliciesIn(qs, v)
  BY DEF PoliciesIn
<1> QED  BY <1>1 DEF AcceptedIn

-----------------------------------------------------------------------------
\* A step that changes rows and members of the VLANs vs only, computes the
\* AcceptedPeer rows of the VLANs us again, and records those of vs it leaves.
Maintained(vs, us) ==
    /\ Sound(rows') /\ members' \in [Vlans -> SUBSET ASes]
    /\ \A v \in Vlans \ vs :
          /\ members'[v] = members[v]
          /\ \A r : r.vlan = v => (r \in rows' <=> r \in rows)
    /\ \A v \in us : v \in Vlans
    /\ accepted' = [v \in Vlans |-> IF v \in us THEN AcceptedIn(rows', members', v) ELSE accepted[v]]
    /\ stale' \subseteq Vlans
    /\ \A v \in Vlans : (v \in stale \/ v \in vs) /\ v \notin us => v \in stale'

\* Such a step keeps the invariant.
LEMMA MaintainedKeeps ==
    ASSUME IInv, NEW vs, NEW us, Maintained(vs, us)
    PROVE  IInv'
<1>1. rows' \subseteq Row
  BY DEF Maintained, Sound
<1>2. accepted' \in [Vlans -> SUBSET (ASes \ {Me})]
  <2>1. \A v \in Vlans : AcceptedIn(rows', members', v) \in SUBSET (ASes \ {Me})
    BY <1>1, AcceptedTypes DEF Maintained
  <2> QED  BY <2>1 DEF IInv, TypeOK, Maintained
<1>3. ASSUME NEW v \in Vlans, v \notin stale'
      PROVE  accepted'[v] = AcceptedIn(rows', members', v)
  <2>1. CASE v \in us
    BY <2>1 DEF Maintained
  <2>2. CASE v \notin us
    <3>1. v \notin stale /\ v \notin vs
      BY <1>3, <2>2 DEF Maintained
    <3>2. accepted'[v] = AcceptedIn(rows, members, v)
      BY <2>2, <3>1 DEF Maintained, IInv, AcceptedCurrent
    <3>3. AcceptedIn(rows, members, v) = AcceptedIn(rows', members, v)
      BY <3>1, AcceptedLocal DEF Maintained
    <3>4. AcceptedIn(rows', members, v) = AcceptedIn(rows', members', v)
      BY <3>1 DEF Maintained, AcceptedIn
    <3> QED  BY <3>2, <3>3, <3>4
  <2> QED  BY <2>1, <2>2
<1> QED  BY <1>1, <1>2, <1>3 DEF IInv, TypeOK, AcceptedCurrent, Maintained

\* AcceptedPeer is updated in a VLAN, or it is not.
LEMMA RefreshedMaintains ==
    ASSUME IInv, NEW v \in Vlans, Refreshed(v) \/ NotRefreshedAtAll(v),
           Sound(rows'), members' \in [Vlans -> SUBSET ASes],
           \A w \in Vlans \ {v} :
              /\ members'[w] = members[w]
              /\ \A r : r.vlan = w => (r \in rows' <=> r \in rows)
    PROVE  IInv'
<1>1. CASE Refreshed(v)
  <2>1. Maintained({v}, {v})
    BY <1>1 DEF Refreshed, UpdateAcceptedPeers, Maintained, IInv, TypeOK
  <2> QED  BY <2>1, MaintainedKeeps
<1>2. CASE NotRefreshedAtAll(v)
  <2>1. accepted' = [w \in Vlans |-> IF w \in {} THEN AcceptedIn(rows', members', w) ELSE accepted[w]]
    BY <1>2 DEF NotRefreshedAtAll, IInv, TypeOK
  <2>2. Maintained({v}, {})
    BY <1>2, <2>1 DEF NotRefreshedAtAll, Maintained, IInv, TypeOK
  <2> QED  BY <2>2, MaintainedKeeps
<1> QED  BY <1>1, <1>2

\* CreatePolicy and DestroyPolicy.
LEMMA RpcStep ==
    ASSUME IInv, NEW asn_str \in Spellings, NEW m \in Messages,
           CreatePolicy(asn_str, m) \/ DestroyPolicy(asn_str, m)
    PROVE  IInv'
<1>1. members' = members /\ m.vlan \in Vlans /\ Refreshed(m.vlan)
  BY DEF CreatePolicy, DestroyPolicy, IsValid
<1>2. CASE CreatePolicy(asn_str, m)
  <2>1. Sound(rows \cup {RowOf(m)})
    BY <1>2, RowAdded DEF CreatePolicy, IInv
  <2>2. rows' = rows \cup {RowOf(m)} /\ RowOf(m).vlan = m.vlan
    BY <1>2 DEF CreatePolicy, RowOf
  <2> QED  BY <1>1, <2>1, <2>2, RefreshedMaintains DEF IInv, TypeOK
<1>3. CASE DestroyPolicy(asn_str, m)
  <2>1. rows' = rows \ {RowOf(m)} /\ RowOf(m).vlan = m.vlan
    BY <1>3 DEF DestroyPolicy, RowOf
  <2>2. Sound(rows')
    BY <2>1, RowsRemoved DEF IInv
  <2> QED  BY <1>1, <2>1, <2>2, RefreshedMaintains DEF IInv, TypeOK
<1> QED  BY <1>2, <1>3

\* Edits of policies and interfaces in the admin site.
LEMMA AdminStep ==
    ASSUME IInv, Admin
    PROVE  IInv'
<1>1. ASSUME NEW m \in Messages, AdminAdd(m)
      PROVE  IInv'
  <2>1. Sound(rows \cup {RowOf(m)})
    BY <1>1, RowAdded DEF AdminAdd, IInv
  <2>2. /\ rows' = rows \cup {RowOf(m)} /\ RowOf(m).vlan = m.vlan
        /\ m.vlan \in Vlans /\ members' = members
        /\ Refreshed(m.vlan) \/ NotRefreshedAtAll(m.vlan)
    BY <1>1 DEF AdminAdd, RowOf, IsValid, Edited
  <2> QED  BY <2>1, <2>2, RefreshedMaintains DEF IInv, TypeOK
<1>2. ASSUME NEW m \in Messages, NEW old \in rows, IsValid(m), AdminChange(old, m)
      PROVE  IInv'
  <2>1. rows' = (rows \ {old}) \cup {RowOf(m)} /\ RowOf(m).vlan = m.vlan /\ members' = members
    BY <1>2 DEF AdminChange, RowOf
  <2>2. Sound(rows \ {old})
    BY RowsRemoved DEF IInv
  <2>3. Sound(rows')
    BY <1>2, <2>1, <2>2, RowAdded DEF AdminChange
  <2>4. old.vlan \in Vlans /\ m.vlan \in Vlans
    BY <1>2 DEF IInv, TypeOK, Row, IsValid
  <2>5. \A v \in Vlans \ {old.vlan, m.vlan} : \A r : r.vlan = v => (r \in rows' <=> r \in rows)
    BY <2>1
  <2>6. CASE UNCHANGED accepted /\ stale' = stale \cup {old.vlan, m.vlan}
    <3>1. accepted' = [w \in Vlans |-> IF w \in {} THEN AcceptedIn(rows', members', w) ELSE accepted[w]]
      BY <2>6 DEF IInv, TypeOK
    <3>2. Maintained({old.vlan, m.vlan}, {})
      BY <2>1, <2>3, <2>4, <2>5, <2>6, <3>1 DEF Maintained, IInv, TypeOK
    <3> QED  BY <3>2, MaintainedKeeps
  <2>7. CASE UpdateAcceptedPeers({m.vlan}) /\ stale' = (stale \cup {old.vlan}) \ {m.vlan}
    <3>1. Maintained({old.vlan, m.vlan}, {m.vlan})
      BY <2>1, <2>3, <2>4, <2>5, <2>7 DEF Maintained, UpdateAcceptedPeers, IInv, TypeOK
    <3> QED  BY <3>1, MaintainedKeeps
  <2> QED  BY <1>2, <2>6, <2>7 DEF AdminChange
<1>3. ASSUME NEW old \in rows, AdminGiveAway(old) \/ AdminDelete(old)
      PROVE  IInv'
  <2>1. /\ rows' = rows \ {old} /\ members' = members /\ old.vlan \in Vlans
        /\ Refreshed(old.vlan) \/ NotRefreshedAtAll(old.vlan)
    BY <1>3 DEF AdminGiveAway, AdminDelete, Edited, IInv, TypeOK, Row
  <2>2. Sound(rows')
    BY <2>1, RowsRemoved DEF IInv
  <2> QED  BY <2>1, <2>2, RefreshedMaintains DEF IInv, TypeOK
<1>4. ASSUME NEW b \in ASes, NEW v \in Vlans, Join(b, v) \/ Leave(b, v)
      PROVE  IInv'
  <2>1. /\ rows' = rows /\ NotRefreshedAtAll(v)
        /\ members' \in [Vlans -> SUBSET ASes]
        /\ \A w \in Vlans \ {v} : members'[w] = members[w]
    BY <1>4 DEF Join, Leave, IInv, TypeOK
  <2> QED  BY <2>1, RefreshedMaintains DEF IInv
<1> QED  BY <1>1, <1>2, <1>3, <1>4 DEF Admin

-----------------------------------------------------------------------------
\* What a SetPolicies that began with the rows rs may have after any of its
\* turns: sound rows, the new ones in VLANs that Me is connected to.
Reachable(rs, con) ==
    {done \in [rows : SUBSET Row, rejected : SUBSET Messages, raised : BOOLEAN] :
        Sound(done.rows) /\ \A r \in done.rows : r \in rs \/ r.vlan \in con}

\* A turn of the loop keeps it so, whatever the message.
LEMMA TurnStep ==
    ASSUME NEW asn_str, NEW rs, NEW done \in Reachable(rs, Connected), NEW m \in Messages, NEW scope
    PROVE  SetPolicy(asn_str, done, m, scope) \in Reachable(rs, Connected)
<1> DEFINE next == SetPolicy(asn_str, done, m, scope)
<1>1. CASE next = [done EXCEPT !.raised = TRUE]
  BY <1>1 DEF Reachable
<1>2. CASE next = [done EXCEPT !.rejected = @ \cup {m}]
  BY <1>2 DEF Reachable
<1>3. CASE /\ next = [done EXCEPT !.rows = @ \cup {RowOf(m)}]
           /\ IsValid(m) /\ Clean(done.rows, RowOf(m))
  <2>1. RowOf(m) \in Row /\ Sound(done.rows \cup {RowOf(m)})
    BY <1>3, RowAdded DEF Reachable
  <2>2. RowOf(m).vlan \in Connected
    BY <1>3 DEF Clean
  <2> DEFINE new == RowOf(m)
  <2> HIDE DEF new
  <2>3. [done EXCEPT !.rows = @ \cup {new}] \in Reachable(rs, Connected)
    <3>1. new \in Row /\ Sound(done.rows \cup {new}) /\ new.vlan \in Connected
      BY <2>1, <2>2 DEF new
    <3> QED  BY <3>1 DEF Reachable
  <2> QED  BY <1>3, <2>3 DEF new
<1> QED  BY <1>1, <1>2, <1>3 DEF SetPolicy

\* So the whole request leaves sound rows.
LEMMA RequestKeeps ==
    ASSUME NEW asn_str, NEW rs, Sound(rs), NEW request \in Seq(Messages), NEW scope
    PROVE  SetAll(asn_str, rs, request, scope) \in Reachable(rs, Connected)
<1> DEFINE S == [i \in Nat |-> Reachable(rs, Connected)]
<1>1. Start(rs, scope) \in Reachable(rs, Connected)
  <2>1. DeletePolicies(rs, scope) \in SUBSET rs
    BY DEF DeletePolicies
  <2>2. Sound(DeletePolicies(rs, scope))
    BY <2>1, RowsRemoved
  <2> QED  BY <2>1, <2>2 DEF Start, Reachable, Sound
<1>2. \A i \in 1..Len(request) : request[i] \in Messages
  OBVIOUS
<1>3. Len(request) \in Nat
  OBVIOUS
<1>4. \A i \in Nat : S[i] = Reachable(rs, Connected)
  OBVIOUS
<1> HIDE DEF S
<1>5. Start(rs, scope) \in S[0]
  BY <1>1, <1>4
<1>6. \A i \in 1..Len(request) : \A done \in S[i - 1] :
          SetPolicy(asn_str, done, request[i], scope) \in S[i]
  BY <1>2, <1>3, <1>4, TurnStep
<1>7. SetAll(asn_str, rs, request, scope) \in S[Len(request)]
  BY <1>3, <1>5, <1>6, LoopInvariant
<1> QED  BY <1>3, <1>4, <1>7

\* SetPolicies.
LEMMA SetPoliciesStep ==
    ASSUME IInv, NEW asn_str \in Spellings, NEW request \in Requests,
           NEW scope \in Vlans \cup {AllVlans}, NEW continue \in BOOLEAN,
           SetPolicies(asn_str, request, scope, continue)
    PROVE  IInv'
<1>1. request \in Seq(Messages)
  BY PolicyTablesAssumption
<1> DEFINE done == SetAll(asn_str, rows, request, scope)
<1>2. done \in Reachable(rows, Connected)
  BY <1>1, RequestKeeps DEF IInv
<1>3. /\ rows' = done.rows /\ members' = members
      /\ UpdateAcceptedPeers(Connected)
      /\ stale' = (stale \cup {r.vlan : r \in rows \ done.rows}) \ Connected
  BY DEF SetPolicies
<1> HIDE DEF done
<1> DEFINE gone == {r.vlan : r \in rows \ done.rows}
<1>4. Sound(rows') /\ \A r \in rows' : r \in rows \/ r.vlan \in Connected
  BY <1>2, <1>3 DEF Reachable
<1>5. gone \subseteq Vlans /\ Connected \subseteq Vlans
  BY DEF IInv, TypeOK, Row, Connected
<1>6. \A v \in Vlans \ (gone \cup Connected) : \A r : r.vlan = v => (r \in rows' <=> r \in rows)
  BY <1>3, <1>4
<1> HIDE DEF gone
<1>7. stale' = (stale \cup gone) \ Connected
  BY <1>3 DEF gone
<1>8. Maintained(gone \cup Connected, Connected)
  BY <1>3, <1>4, <1>5, <1>6, <1>7 DEF Maintained, UpdateAcceptedPeers, IInv, TypeOK
<1> QED  BY <1>8, MaintainedKeeps

\* The inductive invariant holds in every reachable state.
THEOREM InvCorrect == Spec => []IInv
<1>1. Init => IInv
  <2> SUFFICES ASSUME Init PROVE IInv
    OBVIOUS
  <2>1. Sound({})
    BY FS_EmptySet DEF Sound
  <2>2. ASSUME NEW v \in Vlans
        PROVE  AcceptedIn({}, members, v) = {}
    <3> DEFINE p == PoliciesIn({}, v)
    <3>1. \A t \in Targets : p[t] = "none"
      BY DEF PoliciesIn
    <3>2. /\ Default \in Targets
          /\ \A b \in ASes : /\ PeerAs(b) \in Targets
                            /\ PeerOwner(OwnerOf[b]) \in Targets
                            /\ PeerIsd(IsdOf[b]) \in Targets
      BY PeeringPoliciesAssumption DEF Targets
    <3> HIDE DEF p
    <3> QED  BY <3>1, <3>2 DEF AcceptedIn, GetAcceptedPeers, p
  <2> QED  BY <2>1, <2>2 DEF Init, IInv, TypeOK, AcceptedCurrent
<1>2. IInv /\ [Next]_vars => IInv'
  <2> SUFFICES ASSUME IInv, [Next]_vars PROVE IInv'
    OBVIOUS
  <2>1. CASE UNCHANGED vars
    BY <2>1 DEF vars, IInv, TypeOK, AcceptedCurrent, AcceptedIn
  <2>2. CASE Rpc
    BY <2>2, RpcStep, SetPoliciesStep DEF Rpc
  <2>3. CASE Admin
    BY <2>3, AdminStep
  <2> QED  BY <2>1, <2>2, <2>3 DEF Next
<1> QED  BY <1>1, <1>2, PTL DEF Spec

\* The tables and the AcceptedPeer rows have their types; in particular no
\* AS has a policy for itself or accepts itself.
THEOREM TypeCorrect == Spec => []TypeOK
<1>1. IInv => TypeOK  BY DEF IInv
<1> QED  BY <1>1, InvCorrect, PTL

\* No sequence of RPCs and edits leaves two policies of an AS for one target
\* in a VLAN, however long a SetPolicies is and whatever it repeats.
THEOREM NoConflictingPolicies == Spec => []OneVerdict
<1>1. IInv => OneVerdict  BY DEF IInv, Sound, OneVerdict
<1> QED  BY <1>1, InvCorrect, PTL

\* The AcceptedPeer rows are what the policies give, in every VLAN not
\* changed behind their back since they were last computed.
THEOREM RowsAreCurrent == Spec => []AcceptedCurrent
<1>1. IInv => AcceptedCurrent  BY DEF IInv
<1> QED  BY <1>1, InvCorrect, PTL

-----------------------------------------------------------------------------
\* SetToSeq lists every member of a finite set once.
LEMMA SetToSeqLists ==
    ASSUME NEW S, IsFiniteSet(S)
    PROVE  LET s == SetToSeq(S) IN
           /\ Len(s) \in Nat
           /\ s \in [1..Len(s) -> S]
           /\ \A i, j \in 1..Len(s) : s[i] = s[j] => i = j
           /\ \A x \in S : \E i \in 1..Len(s) : s[i] = x
<1> DEFINE n == Cardinality(S)
<1> DEFINE s == SetToSeq(S)
<1>1. n \in Nat /\ ExistsBijection(1..n, S)
  BY FS_CardinalityType
<1>2. \E f \in [1..n -> S] : IsInjective(f)
  BY <1>1 DEF ExistsBijection, Bijection, Injection
<1>3. s \in [1..n -> S] /\ IsInjective(s)
  BY <1>2 DEF SetToSeq
<1>4. s \in Injection(1..n, S)
  BY <1>3 DEF Injection
<1>5. Cardinality(1..n) = n
  BY <1>1, FS_Interval
<1> HIDE DEF s
<1>6. s \in Surjection(1..n, S)
  BY <1>4, <1>5, FS_Injection
<1>7. Len(s) = n
  BY <1>1, <1>3
<1>8. \A i, j \in 1..n : s[i] = s[j] => i = j
  BY <1>3 DEF IsInjective
<1>9. \A x \in S : \E i \in 1..n : s[i] = x
  BY <1>6 DEF Surjection
<1> QED  BY <1>1, <1>3, <1>7, <1>8, <1>9 DEF s

\* What ListPolicies lists without a filter but the VLAN.
Listed(scope) == ListPolicies(scope, BOOLEAN, {t.kind : t \in Targets})

\* It lists the rows of the VLAN, each as one message with the ASN str() gives.
LEMMA ListedRows ==
    ASSUME IInv, NEW scope
    PROVE  /\ \A r \in rows : In(scope, r) => \E m \in Listed(scope) : RowOf(m) = r
           /\ \A m \in Listed(scope) : /\ RowOf(m) \in rows /\ In(scope, RowOf(m))
                                      /\ m.asn = Canonical
           /\ \A m, w \in Listed(scope) : RowOf(m) = RowOf(w) => m = w
           /\ IsFiniteSet(Listed(scope))
<1> DEFINE chosen == {q \in rows : In(scope, q) /\ q.accept \in BOOLEAN
                                /\ q.target.kind \in {t.kind : t \in Targets}}
<1> DEFINE Message(r) == [vlan |-> r.vlan, asn |-> Canonical, target |-> r.target, accept |-> r.accept]
<1>1. Listed(scope) = {Message(r) : r \in chosen}
  BY DEF Listed, ListPolicies
<1>2. \A r \in rows : In(scope, r) => r \in chosen
  BY DEF IInv, TypeOK, Row
<1>3. \A r \in rows : RowOf(Message(r)) = r
  BY DEF IInv, TypeOK, Row, RowOf
<1>4. \A r \in chosen : r \in rows /\ In(scope, r)
  OBVIOUS
<1>5. \A r : Message(r).asn = Canonical
  OBVIOUS
<1> DEFINE f == [r \in chosen |-> Message(r)]
<1>6. f \in Surjection(chosen, Listed(scope))
  BY <1>1 DEF Surjection
<1>7. IsFiniteSet(chosen)
  BY FS_Subset DEF IInv, Sound
<1> HIDE DEF chosen, f
<1>8. IsFiniteSet(Listed(scope))
  BY <1>6, <1>7, FS_Surjection
<1> HIDE DEF Message
<1>9. \A m, w \in Listed(scope) : RowOf(m) = RowOf(w) => m = w
  BY <1>1, <1>3, <1>4
<1> QED  BY <1>1, <1>2, <1>3, <1>4, <1>5, <1>8, <1>9

\* After i turns of a SetPolicies with the list s, the rows of the VLANs in
\* scope that the first i messages name are back, and nothing was rejected.
Restored(s, scope, i) ==
    [rows |-> DeletePolicies(rows, scope) \cup {RowOf(s[j]) : j \in 1..i},
     rejected |-> {}, raised |-> FALSE]

\* A turn puts the next row back: it is of a VLAN in scope, and the only one
\* of its target.
LEMMA TurnRestores ==
    ASSUME IInv, NEW scope \in Vlans \cup {AllVlans}, NEW s, Len(s) \in Nat,
           \A j \in 1..Len(s) : s[j] \in Listed(scope),
           \A i, j \in 1..Len(s) : s[i] = s[j] => i = j,
           {m.vlan : m \in Listed(scope)} \subseteq Connected,
           NEW i \in 1..Len(s)
    PROVE  SetPolicy(Canonical, Restored(s, scope, i - 1), s[i], scope) = Restored(s, scope, i)
<1> DEFINE m == s[i]
<1> DEFINE r == RowOf(s[i])
<1> DEFINE before == DeletePolicies(rows, scope) \cup {RowOf(s[j]) : j \in 1..(i - 1)}
<1>1. m \in Listed(scope) /\ r \in rows /\ In(scope, r) /\ m.asn = Canonical
  BY ListedRows
<1>2. r.vlan = m.vlan /\ r.target = m.target
  BY DEF RowOf
<1>3. r.vlan \in Vlans /\ r.target \in Targets /\ r.target # PeerAs(Me)
  BY <1>1 DEF IInv, TypeOK, Row
<1>4. IsValid(m) /\ ~IsValidRaises(m) /\ (scope # AllVlans => m.vlan = scope)
  BY <1>1, <1>2, <1>3, PolicyTablesAssumption DEF IsValid, IsValidRaises, In
<1>5. m.vlan \in Connected
  BY <1>1
<1>6. Unique(before, r)
  <2>1. SUFFICES ASSUME NEW q \in before, q.vlan = r.vlan, q.target = r.target PROVE FALSE
    BY DEF Unique
  <2>2. CASE q \in DeletePolicies(rows, scope)
    <3>1. q \in rows /\ ~In(scope, q)
      BY <2>2 DEF DeletePolicies
    <3>2. q = r
      BY <1>1, <2>1, <3>1 DEF IInv, Sound
    <3> QED  BY <1>1, <3>1, <3>2
  <2>3. CASE q \in {RowOf(s[j]) : j \in 1..(i - 1)}
    <3>1. PICK j \in 1..(i - 1) : q = RowOf(s[j])
      BY <2>3
    <3>2. j \in 1..Len(s) /\ j # i
      OBVIOUS
    <3>3. s[j] \in Listed(scope) /\ q \in rows
      BY <3>1, <3>2, ListedRows
    <3>4. q = r
      BY <1>1, <2>1, <3>3 DEF IInv, Sound
    <3>5. s[j] = s[i]
      BY <1>1, <3>1, <3>3, <3>4, ListedRows
    <3> QED  BY <3>2, <3>5
  <2> QED  BY <2>1, <2>2, <2>3
<1>7. Clean(before, r)
  BY <1>2, <1>3, <1>5, <1>6 DEF Clean
<1>8. before \cup {r} = DeletePolicies(rows, scope) \cup {RowOf(s[j]) : j \in 1..i}
  <2>1. 1..i = 1..(i - 1) \cup {i}
    OBVIOUS
  <2> QED  BY <2>1
<1>9. SetPolicy(Canonical, Restored(s, scope, i - 1), m, scope)
        = [Restored(s, scope, i - 1) EXCEPT !.rows = @ \cup {r}]
  <2>1. Restored(s, scope, i - 1) = [rows |-> before, rejected |-> {}, raised |-> FALSE]
    BY DEF Restored
  <2> HIDE DEF before
  <2> QED  BY <1>1, <1>4, <1>7, <2>1 DEF SetPolicy
<1>10. [Restored(s, scope, i - 1) EXCEPT !.rows = @ \cup {r}]
        = [rows |-> before \cup {r}, rejected |-> {}, raised |-> FALSE]
  <2>1. Restored(s, scope, i - 1) = [rows |-> before, rejected |-> {}, raised |-> FALSE]
    BY DEF Restored
  <2> DEFINE all == before \cup {r}
  <2> DEFINE next == [Restored(s, scope, i - 1) EXCEPT !.rows = @ \cup {r}]
  <2>2. next \in [rows : {all}, rejected : {{}}, raised : {FALSE}]
    <3> HIDE DEF before, r
    <3>1. [[rows |-> before, rejected |-> {}, raised |-> FALSE] EXCEPT !.rows = @ \cup {r}]
            \in [rows : {all}, rejected : {{}}, raised : {FALSE}]
      OBVIOUS
    <3> QED  BY ONLY <2>1, <3>1
  <2> HIDE DEF next, all
  <2>3. next = [rows |-> all, rejected |-> {}, raised |-> FALSE]
    BY <2>2
  <2> QED  BY <2>3 DEF next, all
<1> QED  BY <1>8, <1>9, <1>10 DEF Restored

\* The loop over a list, from what each turn makes of it.
LEMMA ListLoop ==
    ASSUME NEW asn_str, NEW scope, NEW s, Len(s) \in Nat, NEW R,
           Start(rows, scope) = R[0],
           \A i \in 1..Len(s) : SetPolicy(asn_str, R[i - 1], s[i], scope) = R[i]
    PROVE  SetAll(asn_str, rows, s, scope) = R[Len(s)]
<1> DEFINE S == [i \in Nat |-> {R[i]}]
<1>1. \A i \in Nat : S[i] = {R[i]}
  OBVIOUS
<1> HIDE DEF S
<1>2. Start(rows, scope) \in S[0]
  BY <1>1
<1>3. ASSUME NEW i \in 1..Len(s), NEW done \in S[i - 1]
      PROVE  SetPolicy(asn_str, done, s[i], scope) \in S[i]
  <2>1. i \in Nat /\ i - 1 \in Nat
    OBVIOUS
  <2>2. done = R[i - 1]
    BY <1>1, <1>3, <2>1
  <2> QED  BY <1>1, <2>1, <2>2
<1>4. SetAll(asn_str, rows, s, scope) \in S[Len(s)]
  BY <1>2, <1>3, LoopInvariant
<1> QED  BY <1>1, <1>4

\* What the list holds goes back into the tables, if the caller spells its ASN
\* as the list does.
LEMMA CanonicalRestores ==
    ASSUME IInv, NEW scope \in Vlans \cup {AllVlans},
           {m.vlan : m \in Listed(scope)} \subseteq Connected
    PROVE  SetAll(Canonical, rows, SetToSeq(Listed(scope)), scope)
              = [rows |-> rows, rejected |-> {}, raised |-> FALSE]
<1> DEFINE s == SetToSeq(Listed(scope))
<1>1. /\ Len(s) \in Nat
      /\ s \in [1..Len(s) -> Listed(scope)]
      /\ \A i, j \in 1..Len(s) : s[i] = s[j] => i = j
      /\ \A m \in Listed(scope) : \E i \in 1..Len(s) : s[i] = m
  BY ListedRows, SetToSeqLists
<1> HIDE DEF s
<1> DEFINE R == [i \in Nat |-> Restored(s, scope, i)]
<1>2. \A i \in Nat : R[i] = Restored(s, scope, i)
  OBVIOUS
<1> HIDE DEF R
<1>3. Start(rows, scope) = R[0]
  <2>1. DeletePolicies(rows, scope) \cup {RowOf(s[j]) : j \in 1..0} = DeletePolicies(rows, scope)
    OBVIOUS
  <2> QED  BY <1>2, <2>1 DEF Start, Restored
<1>4. ASSUME NEW i \in 1..Len(s)
      PROVE  SetPolicy(Canonical, R[i - 1], s[i], scope) = R[i]
  <2>1. i \in Nat /\ i - 1 \in Nat
    BY <1>1
  <2>2. SetPolicy(Canonical, Restored(s, scope, i - 1), s[i], scope) = Restored(s, scope, i)
    BY <1>1, TurnRestores
  <2> QED  BY <1>2, <2>1, <2>2
<1>5. SetAll(Canonical, rows, s, scope) = Restored(s, scope, Len(s))
  BY <1>1, <1>2, <1>3, <1>4, ListLoop
<1>6. DeletePolicies(rows, scope) \cup {RowOf(s[j]) : j \in 1..Len(s)} = rows
  <2>1. \A j \in 1..Len(s) : RowOf(s[j]) \in rows
    BY <1>1, ListedRows
  <2>2. ASSUME NEW r \in rows, In(scope, r)
        PROVE  \E j \in 1..Len(s) : r = RowOf(s[j])
    BY <1>1, <2>2, ListedRows
  <2> QED  BY <2>1, <2>2 DEF DeletePolicies
<1> QED  BY <1>5, <1>6 DEF Restored, s

\* Every turn rejects its message, if the caller spells its ASN in another way.
LEMMA OthersLose ==
    ASSUME IInv, NEW scope \in Vlans \cup {AllVlans}, NEW asn_str \in Spellings,
           asn_str # Canonical
    PROVE  SetAll(asn_str, rows, SetToSeq(Listed(scope)), scope)
              = [rows |-> DeletePolicies(rows, scope), rejected |-> Listed(scope), raised |-> FALSE]
<1> DEFINE s == SetToSeq(Listed(scope))
<1>1. /\ Len(s) \in Nat
      /\ s \in [1..Len(s) -> Listed(scope)]
      /\ \A m \in Listed(scope) : \E i \in 1..Len(s) : s[i] = m
  BY ListedRows, SetToSeqLists
<1> HIDE DEF s
<1> DEFINE R == [i \in Nat |-> [rows |-> DeletePolicies(rows, scope),
                               rejected |-> {s[j] : j \in 1..i}, raised |-> FALSE]]
<1>2. \A i \in Nat : R[i] = [rows |-> DeletePolicies(rows, scope),
                             rejected |-> {s[j] : j \in 1..i}, raised |-> FALSE]
  OBVIOUS
<1> HIDE DEF R
<1>3. Start(rows, scope) = R[0]
  <2>1. {s[j] : j \in 1..0} = {}
    OBVIOUS
  <2> QED  BY <1>2, <2>1 DEF Start
<1>4. ASSUME NEW i \in 1..Len(s)
      PROVE  SetPolicy(asn_str, R[i - 1], s[i], scope) = R[i]
  <2>1. i \in Nat /\ i - 1 \in Nat /\ 1..i = 1..(i - 1) \cup {i}
    BY <1>1
  <2>2. s[i].asn # asn_str
    BY <1>1, ListedRows
  <2> DEFINE left == DeletePolicies(rows, scope)
  <2> DEFINE before == {s[j] : j \in 1..(i - 1)}
  <2>3. {s[j] : j \in 1..i} = before \cup {s[i]}
    BY <2>1
  <2>4. /\ R[i - 1] = [rows |-> left, rejected |-> before, raised |-> FALSE]
        /\ R[i] = [rows |-> left, rejected |-> before \cup {s[i]}, raised |-> FALSE]
    BY <1>2, <2>1, <2>3
  <2> HIDE DEF left, before
  <2>5. SetPolicy(asn_str, R[i - 1], s[i], scope) = [R[i - 1] EXCEPT !.rejected = @ \cup {s[i]}]
    BY <2>2, <2>4 DEF SetPolicy
  <2>6. [[rows |-> left, rejected |-> before, raised |-> FALSE] EXCEPT !.rejected = @ \cup {s[i]}]
          = [rows |-> left, rejected |-> before \cup {s[i]}, raised |-> FALSE]
    <3> DEFINE m == s[i]
    <3> DEFINE all == before \cup {m}
    <3> DEFINE next == [[rows |-> left, rejected |-> before, raised |-> FALSE]
                          EXCEPT !.rejected = @ \cup {m}]
    <3>1. next \in [rows : {left}, rejected : {all}, raised : {FALSE}]
      <4> HIDE DEF m
      <4> QED  OBVIOUS
    <3> HIDE DEF next, all
    <3>2. next = [rows |-> left, rejected |-> all, raised |-> FALSE]
      BY <3>1
    <3> QED  BY <3>2 DEF next, all
  <2> QED  BY <2>4, <2>5, <2>6
<1>5. SetAll(asn_str, rows, s, scope) = R[Len(s)]
  BY <1>1, <1>3, <1>4, ListLoop
<1>6. {s[j] : j \in 1..Len(s)} = Listed(scope)
  BY <1>1
<1> QED  BY <1>1, <1>2, <1>5, <1>6 DEF s

\* A client that spells its ASN as str() does can save what ListPolicies
\* returns, for one VLAN or for all, and restore it with SetPolicies: nothing is
\* rejected and the tables are as they were, while the AS is connected to the
\* VLANs.  One that spells it otherwise has all it listed rejected.
THEOREM ListsRestore == Spec => []ListedCanBeSet
<1>1. IInv => ListedCanBeSet
  BY CanonicalRestores, OthersLose DEF ListedCanBeSet, Listed
<1> QED  BY <1>1, InvCorrect, PTL
=============================================================================
