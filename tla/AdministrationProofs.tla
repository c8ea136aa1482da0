------------------------ MODULE AdministrationProofs ------------------------
(***************************************************************************)
(* Proofs about Administration, for any VLANs, subnets, interfaces,        *)
(* clients, tokens and number of requests at a time.                       *)
(***************************************************************************)
EXTENDS Administration, TLAPS

\* Rows that passed their check were right when they did, and the saves still
\* to come keep to the promise: a row to be saved is at the place of another
\* interface only if the two have raced.
Local ==
    /\ AddressesAreLocal
    /\ \A p \in Checked :
          LET r == saving[p].row IN
          r.ip \in Subnet[r.vlan] /\ ValidPort(r.first_port) /\ ValidPort(r.last_port)

Conflict(r, q) == r.id # q.id /\ SamePlace(r, q)

Differ ==
    /\ \A r, q \in interfaces : Conflict(r, q) => {r.id, q.id} \in raced
    /\ \A p \in Checked : \A r \in interfaces :
          Conflict(r, saving[p].row) => {r.id, saving[p].row.id} \in raced
    /\ \A p, q \in Checked :
          Conflict(saving[p].row, saving[q].row) => {saving[p].row.id, saving[q].row.id} \in raced

\* What requests about an unspoiled client will save or show is the token it
\* has, and if none is to show it, it has been shown.
Agree ==
    \A c \in Clients \ spoiled :
        /\ \A p \in Pending(c) : editing[p].token = tokens[c]
        /\ Responding(c) = {} => shown[c] = tokens[c]

-----------------------------------------------------------------------------
\* Types.

LEMMA TypeStep == TypeOK /\ [Next]_vars => TypeOK'
<1> SUFFICES ASSUME TypeOK, [Next]_vars PROVE TypeOK'
  OBVIOUS
<1> USE DEF TypeOK
<1>1. ASSUME NEW p \in Requests, NEW r \in Row, Read(p, r)
      PROVE  TypeOK'
  BY <1>1 DEF Read, secrets
<1>2. ASSUME NEW p \in Requests, NEW i \in Interfaces, NEW v \in Vlans,
             NEW typed \in Texts \cup {Empty}, NEW first \in Int, NEW last \in Int,
             SubmitInterface(p, i, v, typed, first, last)
      PROVE  TypeOK'
  <2> DEFINE row(ip) == [id |-> i, vlan |-> v, ip |-> ip, first_port |-> first, last_port |-> last]
  <2>1. PICK ip \in Entered(v, typed) : Read(p, row(ip))
    BY <1>2 DEF SubmitInterface
  <2>2. CASE typed = Empty
    BY <1>1, <2>1, <2>2 DEF Entered, UnusedIps, Addresses, Row
  <2>3. CASE typed \in Texts
    <3>1. typed # Empty => ip \in Addresses
      BY <2>1, <2>3 DEF Entered, ToPython, Texts
    <3>2. typed = Empty => ip \in Addresses
      BY <2>1 DEF Entered, UnusedIps, Addresses
    <3> QED  BY <1>1, <2>1, <3>1, <3>2 DEF Row
  <2> QED  BY <2>2, <2>3
<1>3. ASSUME NEW p \in Requests, NEW v \in Vlans, NEW ip \in Addresses,
             NEW first \in Int, NEW last \in Int, SetPortRange(p, v, ip, first, last)
      PROVE  TypeOK'
  <2>1. PICK r \in interfaces : Read(p, [r EXCEPT !.first_port = first, !.last_port = last])
    BY <1>3 DEF SetPortRange
  <2>2. r \in Row
    OBVIOUS
  <2>3. [r EXCEPT !.first_port = first, !.last_port = last] \in Row
    BY <2>2 DEF Row
  <2> QED  BY <1>1, <2>1, <2>3
<1>4. ASSUME NEW p \in Requests, FullClean(p)
      PROVE  TypeOK'
  <2>1. saving[p] \in [step : {"read", "checked"}, row : Row]
    BY <1>4 DEF FullClean, Idle
  <2>2. CASE Clean(saving[p].row)
    <3>1. saving' = [saving EXCEPT ![p].step = "checked"]
      BY <1>4, <2>2 DEF FullClean
    <3>2. saving' \in [Requests -> {Idle} \cup [step : {"read", "checked"}, row : Row]]
      BY <2>1, <3>1
    <3>3. \A q \in Checked : saving[q] \in [step : {"read", "checked"}, row : Row]
      BY DEF Checked, Idle
    <3>4. raced' \subseteq SUBSET Interfaces
      BY <1>4, <2>1, <2>2, <3>3 DEF FullClean, Row
    <3> QED  BY <1>4, <3>2, <3>4 DEF FullClean, secrets
  <2>3. CASE ~Clean(saving[p].row)
    BY <1>4, <2>3 DEF FullClean, secrets
  <2> QED  BY <2>2, <2>3
<1>5. ASSUME NEW p \in Requests, Save(p)
      PROVE  TypeOK'
  <2>1. saving[p].row \in Row
    BY <1>5 DEF Save, Idle
  <2> QED  BY <1>5, <2>1 DEF Save, secrets
<1>6. ASSUME NEW p \in Requests, NEW u \in Users, NEW c \in Clients,
             ReadToken(p, u, c) \/ \E t \in Tokens : NewToken(p, u, c, t)
      PROVE  TypeOK'
  BY <1>6 DEF NewToken, ReadToken, Hold, places
<1>7. ASSUME NEW p \in Requests, NEW c \in Clients, EditClient(p, c)
      PROVE  TypeOK'
  BY <1>7 DEF EditClient, Hold, places
<1>8. ASSUME NEW p \in Requests, SaveClient(p) \/ ShowToken(p) \/ LoseResponse(p)
      PROVE  TypeOK'
  <2>1. editing[p] \in [step : {"edit", "respond"}, client : Clients, token : Tokens \cup {Blank}]
    BY <1>8 DEF SaveClient, ShowToken, LoseResponse, Idle
  <2> QED  BY <1>8, <2>1 DEF SaveClient, ShowToken, LoseResponse, places
<1>9. CASE UNCHANGED vars
  BY <1>9 DEF vars, Checked
<1> QED  BY <1>2, <1>3, <1>4, <1>5, <1>6, <1>7, <1>8, <1>9 DEF Next

\* Every variable keeps its type.
THEOREM TypeCorrect == Spec => []TypeOK
<1>1. Init => TypeOK
  BY DEF Init, TypeOK
<1> QED  BY <1>1, TypeStep, PTL DEF Spec

-----------------------------------------------------------------------------
\* Places.  A step passes a check, saves a row that passed, or leaves the rows
\* and the requests that passed alone.

Quiet ==
    /\ UNCHANGED <<interfaces, raced>>
    /\ Checked' \subseteq Checked
    /\ \A q \in Checked' : saving'[q] = saving[q]

Passed(p) ==
    /\ Clean(saving[p].row)
    /\ UNCHANGED interfaces
    /\ raced' = raced \cup {{saving[p].row.id, saving[q].row.id} : q \in Checked}
    /\ Checked' = Checked \cup {p}
    /\ \A q \in Checked' : saving'[q].row = saving[q].row

Saved(p) ==
    /\ p \in Checked
    /\ interfaces' = {r \in interfaces : r.id # saving[p].row.id} \cup {saving[p].row}
    /\ UNCHANGED raced
    /\ Checked' \subseteq Checked
    /\ \A q \in Checked' : saving'[q] = saving[q]

LEMMA PlaceSteps ==
    ASSUME TypeOK, [Next]_vars
    PROVE  Quiet \/ \E p \in Requests : Passed(p) \/ Saved(p)
<1> DEFINE Requested == [step : {"read", "checked"}, row : Row]
<1>1. saving \in [Requests -> {Idle} \cup Requested]
  BY DEF TypeOK
<1>2. ASSUME NEW p \in Requests, NEW s, saving' = [saving EXCEPT ![p] = s],
             s.step # "checked", UNCHANGED <<interfaces, raced>>
      PROVE  Quiet
  <2>1. \A q \in Requests : saving'[q] = IF q = p THEN s ELSE saving[q]
    BY <1>1, <1>2
  <2> QED  BY <1>2, <2>1 DEF Quiet, Checked
<1>3. ASSUME NEW p \in Requests, NEW r, Read(p, r)
      PROVE  Quiet
  <2> DEFINE s == [step |-> "read", row |-> r]
  <2>1. s.step # "checked"
    OBVIOUS
  <2>2. saving' = [saving EXCEPT ![p] = s] /\ UNCHANGED <<interfaces, raced>>
    BY <1>3 DEF Read
  <2> HIDE DEF s
  <2> QED  BY <1>2, <2>1, <2>2
<1>4. ASSUME NEW p \in Requests, FullClean(p)
      PROVE  Quiet \/ Passed(p)
  <2>1. CASE Clean(saving[p].row)
    <3>1. saving[p] \in Requested /\ p \notin Checked
      BY <1>1, <1>4 DEF FullClean, Idle, Checked
    <3>2. saving' = [saving EXCEPT ![p].step = "checked"]
      BY <1>4, <2>1 DEF FullClean
    <3>3. saving'[p].step = "checked" /\ saving'[p].row = saving[p].row
      BY <1>1, <3>1, <3>2
    <3>4. \A q \in Requests \ {p} : saving'[q] = saving[q]
      BY <1>1, <3>2
    <3>5. Checked' = Checked \cup {p}
      BY <3>3, <3>4 DEF Checked
    <3>6. \A q \in Checked' : saving'[q].row = saving[q].row
      BY <3>3, <3>4 DEF Checked
    <3> QED  BY <1>4, <2>1, <3>5, <3>6 DEF FullClean, Passed
  <2>2. CASE ~Clean(saving[p].row)
    BY <1>2, <1>4, <2>2 DEF FullClean, Idle
  <2> QED  BY <2>1, <2>2
<1>5. ASSUME NEW p \in Requests, Save(p)
      PROVE  Saved(p)
  <2>1. \A q \in Requests : saving'[q] = IF q = p THEN Idle ELSE saving[q]
    BY <1>1, <1>5 DEF Save
  <2> QED  BY <1>5, <2>1 DEF Save, Saved, Checked, Idle
<1>6. ASSUME UNCHANGED places
      PROVE  Quiet
  BY <1>6 DEF places, Quiet, Checked
<1>7. ASSUME NEW p \in Requests,
             SaveClient(p) \/ ShowToken(p) \/ LoseResponse(p) \/ \E c \in Clients : EditClient(p, c)
      PROVE  Quiet
  BY <1>6, <1>7 DEF EditClient, SaveClient, ShowToken, LoseResponse
<1>8. ASSUME NEW p \in Requests, NEW u \in Users, NEW c \in Clients,
             ReadToken(p, u, c) \/ \E t \in Tokens : NewToken(p, u, c, t)
      PROVE  Quiet
  BY <1>6, <1>8 DEF NewToken, ReadToken
<1>9. ASSUME NEW p \in Requests, NEW i \in Interfaces, NEW v \in Vlans,
             NEW typed \in Texts \cup {Empty}, NEW first \in Int, NEW last \in Int,
             SubmitInterface(p, i, v, typed, first, last)
      PROVE  Quiet
  BY <1>3, <1>9 DEF SubmitInterface
<1>10. ASSUME NEW p \in Requests, NEW v \in Vlans, NEW ip \in Addresses,
              NEW first \in Int, NEW last \in Int, SetPortRange(p, v, ip, first, last)
       PROVE  Quiet
  BY <1>3, <1>10 DEF SetPortRange
<1>11. CASE UNCHANGED vars
  BY <1>6, <1>11 DEF vars, places
<1>12. ASSUME NEW p \in Requests, FullClean(p) \/ Save(p)
       PROVE  Quiet \/ \E q \in Requests : Passed(q) \/ Saved(q)
  BY <1>4, <1>5, <1>12
<1> HIDE DEF Requested
<1> QED  BY <1>7, <1>8, <1>9, <1>10, <1>11, <1>12 DEF Next

LEMMA LocalStep == TypeOK /\ Local /\ [Next]_vars => Local'
<1> SUFFICES ASSUME TypeOK, Local, [Next]_vars PROVE Local'
  OBVIOUS
<1> USE DEF Local, AddressesAreLocal
<1>1. CASE Quiet
  BY <1>1 DEF Quiet
<1>2. ASSUME NEW p \in Requests, Passed(p)
      PROVE  Local'
  BY <1>2 DEF Passed, Clean
<1>3. ASSUME NEW p \in Requests, Saved(p)
      PROVE  Local'
  BY <1>3 DEF Saved
<1> QED  BY <1>1, <1>2, <1>3, PlaceSteps

LEMMA DifferStep == TypeOK /\ Differ /\ [Next]_vars => Differ'
<1> SUFFICES ASSUME TypeOK, Differ, [Next]_vars PROVE Differ'
  OBVIOUS
<1> USE DEF Differ
<1>1. CASE Quiet
  BY <1>1 DEF Quiet
<1>2. ASSUME NEW p \in Requests, Passed(p)
      PROVE  Differ'
  <2>1. \A r \in interfaces : ~Conflict(r, saving[p].row)
    BY <1>2 DEF Passed, Clean, Conflict
  <2>2. \A q \in Checked : {saving[p].row.id, saving[q].row.id} \in raced'
    BY <1>2 DEF Passed
  <2>3. \A q \in Checked : {saving[q].row.id, saving[p].row.id} \in raced'
    <3>1. \A q \in Checked :
            {saving[q].row.id, saving[p].row.id} = {saving[p].row.id, saving[q].row.id}
      OBVIOUS
    <3> QED  BY <2>2, <3>1
  <2>4. ~Conflict(saving[p].row, saving[p].row)
    BY DEF Conflict
  <2>5. /\ Checked' = Checked \cup {p} /\ interfaces' = interfaces /\ raced \subseteq raced'
        /\ \A q \in Checked' : saving'[q].row = saving[q].row
    BY <1>2 DEF Passed
  <2> QED  BY <2>1, <2>2, <2>3, <2>4, <2>5
<1>3. ASSUME NEW p \in Requests, Saved(p)
      PROVE  Differ'
  <2>1. ASSUME NEW r \in interfaces', NEW q \in interfaces', Conflict(r, q)
        PROVE  {r.id, q.id} \in raced
    <3>1. CASE q = saving[p].row /\ r \in interfaces
      BY <1>3, <2>1, <3>1 DEF Saved
    <3>2. CASE r = saving[p].row /\ q \in interfaces
      <4>1. Conflict(q, r) /\ {q.id, r.id} = {r.id, q.id}
        BY <2>1 DEF Conflict, SamePlace
      <4> QED  BY <1>3, <3>2, <4>1 DEF Saved
    <3>3. CASE r \in interfaces /\ q \in interfaces
      BY <2>1, <3>3
    <3>4. CASE r = q
      BY <2>1, <3>4 DEF Conflict
    <3> QED  BY <1>3, <2>1, <3>1, <3>2, <3>3, <3>4 DEF Saved
  <2>2. ASSUME NEW d \in Checked', NEW r \in interfaces', Conflict(r, saving[d].row)
        PROVE  {r.id, saving[d].row.id} \in raced
    BY <1>3, <2>2 DEF Saved
  <2> QED  BY <1>3, <2>1, <2>2 DEF Saved
<1> QED  BY <1>1, <1>2, <1>3, PlaceSteps

\* An interface's address is always from its VLAN's subnet.
THEOREM PlacesAreLocal == Spec => []AddressesAreLocal
<1>1. Init => TypeOK /\ Local
  BY DEF Init, TypeOK, Local, AddressesAreLocal, Checked, Idle
<1>2. TypeOK /\ Local /\ [Next]_vars => (TypeOK /\ Local)'
  BY TypeStep, LocalStep
<1>3. Local => AddressesAreLocal
  BY DEF Local
<1> QED  BY <1>1, <1>2, <1>3, PTL DEF Spec

\* Only saves that overlap, the check of one between the check and the save of
\* the other, can give two interfaces the same address.
THEOREM PlacesDiffer == Spec => []AddressesDiffer
<1>1. Init => TypeOK /\ Differ
  BY DEF Init, TypeOK, Differ, Checked, Idle
<1>2. TypeOK /\ Differ /\ [Next]_vars => (TypeOK /\ Differ)'
  BY TypeStep, DifferStep
<1>3. Differ => AddressesDiffer
  BY DEF Differ, AddressesDiffer, Conflict
<1> QED  BY <1>1, <1>2, <1>3, PTL DEF Spec

-----------------------------------------------------------------------------
\* Tokens.

LEMMA AgreeStep == TypeOK /\ Agree /\ [Next]_vars => Agree'
<1> SUFFICES ASSUME TypeOK, Agree, [Next]_vars PROVE Agree'
  OBVIOUS
<1> USE DEF TypeOK
<1>1. ASSUME UNCHANGED secrets
      PROVE  Agree'
  BY <1>1 DEF secrets, Agree, Pending, Responding
\* A request begins: it joins those about its client, and no others.
<1>2. ASSUME NEW p \in Requests, NEW step \in {"edit", "respond"}, NEW c \in Clients,
             NEW t \in Tokens \cup {Blank}, Hold(p, step, c, t)
      PROVE  /\ editing'[p] = [step |-> step, client |-> c, token |-> t]
             /\ \A q \in Requests \ {p} : editing'[q] = editing[q]
             /\ \A d \in Clients \ {c} :
                   Pending(d)' = Pending(d) /\ Responding(d)' = Responding(d) /\ p \notin Pending(d)
             /\ Pending(c)' = Pending(c) \cup {p}
             /\ Responding(c) \subseteq Responding(c)'
             /\ step = "respond" => p \in Responding(c)'
  <2> DEFINE row == [step |-> step, client |-> c, token |-> t]
  <2>1. row # Idle /\ row.client = c /\ row.step = step
    BY DEF Idle
  <2>2. editing[p] = Idle /\ \A q \in Requests : editing'[q] = IF q = p THEN row ELSE editing[q]
    BY <1>2 DEF Hold
  <2> HIDE DEF row
  <2>3. \A d \in Clients : p \notin Pending(d) /\ p \notin Responding(d)
    BY <2>2 DEF Pending, Responding
  <2>4. \A d \in Clients \ {c} : Pending(d)' = Pending(d) /\ Responding(d)' = Responding(d)
    BY <2>1, <2>2 DEF Pending, Responding
  <2>5. Pending(c)' = Pending(c) \cup {p} /\ Responding(c) \subseteq Responding(c)'
    BY <2>1, <2>2 DEF Pending, Responding
  <2>6. step = "respond" => p \in Responding(c)'
    BY <2>1, <2>2 DEF Pending, Responding
  <2> QED  BY <2>2, <2>3, <2>4, <2>5, <2>6 DEF row
\* A request ends.
<1>3. ASSUME NEW p \in Requests, editing[p] # Idle, editing' = [editing EXCEPT ![p] = Idle]
      PROVE  /\ \A d \in Clients \ {editing[p].client} :
                   Pending(d)' = Pending(d) /\ Responding(d)' = Responding(d)
             /\ \A d \in Clients : /\ Pending(d)' = Pending(d) \ {p}
                                   /\ Responding(d)' = Responding(d) \ {p}
                                   /\ \A q \in Pending(d)' : editing'[q] = editing[q]
             /\ editing[p].client \in Clients /\ p \in Pending(editing[p].client)
  <2>1. \A q \in Requests : editing'[q] = IF q = p THEN Idle ELSE editing[q]
    BY <1>3
  <2> QED  BY <1>3, <2>1 DEF Pending, Responding
<1>4. ASSUME NEW p \in Requests, NEW u \in Users, NEW c \in Clients, NEW t \in Tokens,
             NewToken(p, u, c, t)
      PROVE  Agree'
  <2>0. /\ editing'[p] = [step |-> "respond", client |-> c, token |-> t]
        /\ \A q \in Requests \ {p} : editing'[q] = editing[q]
        /\ \A d \in Clients \ {c} :
              Pending(d)' = Pending(d) /\ Responding(d)' = Responding(d) /\ p \notin Pending(d)
        /\ Pending(c)' = Pending(c) \cup {p}
        /\ Responding(c) \subseteq Responding(c)'
        /\ "respond" = "respond" => p \in Responding(c)'
    <3>1. Hold(p, "respond", c, t) /\ t \in Tokens \cup {Blank}
      BY <1>4 DEF NewToken
    <3> QED  BY ONLY <1>2, <3>1, "respond" \in {"edit", "respond"}, c \in Clients, p \in Requests
  <2>1. /\ Hold(p, "respond", c, t)
        /\ \A d \in Clients : tokens'[d] = IF d = c THEN t ELSE tokens[d]
        /\ \A d \in Clients \ spoiled' : IF d = c THEN Pending(c) = {} ELSE d \notin spoiled
        /\ shown' = shown
    BY <1>4 DEF NewToken
  <2>2. ASSUME NEW d \in Clients \ spoiled', d # c
        PROVE  /\ \A q \in Pending(d)' : editing'[q].token = tokens'[d]
               /\ Responding(d)' = {} => shown'[d] = tokens'[d]
    <3>1. Pending(d)' = Pending(d) /\ Responding(d)' = Responding(d) /\ p \notin Pending(d)
      BY <2>0, <2>2
    <3>2. \A q \in Pending(d) : q \in Requests \ {p} /\ editing'[q] = editing[q]
      BY <2>0, <3>1 DEF Pending
    <3> QED  BY <2>1, <2>2, <3>1, <3>2 DEF Agree
  <2>3. c \notin spoiled' => /\ \A q \in Pending(c)' : editing'[q].token = tokens'[c]
                            /\ Responding(c)' # {}
    BY <2>0, <2>1
  <2> QED  BY <2>2, <2>3 DEF Agree
<1>9. ASSUME NEW p \in Requests, NEW step \in {"edit", "respond"}, NEW c \in Clients,
             Hold(p, step, c, tokens[c]), UNCHANGED <<tokens, shown>>,
             \/ UNCHANGED spoiled
             \/ step = "respond" /\ Pending(c) = {} /\ spoiled' = spoiled \ {c}
      PROVE  Agree'
  <2>0. /\ editing'[p] = [step |-> step, client |-> c, token |-> tokens[c]]
        /\ \A q \in Requests \ {p} : editing'[q] = editing[q]
        /\ \A d \in Clients \ {c} :
              Pending(d)' = Pending(d) /\ Responding(d)' = Responding(d) /\ p \notin Pending(d)
        /\ Pending(c)' = Pending(c) \cup {p}
        /\ Responding(c) \subseteq Responding(c)'
        /\ step = "respond" => p \in Responding(c)'
    <3>1. tokens[c] \in Tokens \cup {Blank}
      OBVIOUS
    <3>2. Hold(p, step, c, tokens[c])
      BY <1>9
    <3> QED  BY ONLY <1>2, <3>1, <3>2, step \in {"edit", "respond"}, c \in Clients, p \in Requests
  <2>1. ASSUME NEW d \in Clients \ spoiled', d # c
        PROVE  /\ \A q \in Pending(d)' : editing'[q].token = tokens'[d]
               /\ Responding(d)' = {} => shown'[d] = tokens'[d]
    <3>1. Pending(d)' = Pending(d) /\ Responding(d)' = Responding(d) /\ p \notin Pending(d)
      BY <2>0, <2>1
    <3>2. \A q \in Pending(d) : q \in Requests \ {p} /\ editing'[q] = editing[q]
      BY <2>0, <3>1 DEF Pending
    <3> QED  BY <1>9, <2>1, <3>1, <3>2 DEF Agree
  <2>2. ASSUME c \notin spoiled'
        PROVE  /\ \A q \in Pending(c)' : editing'[q].token = tokens'[c]
               /\ Responding(c)' = {} => shown'[c] = tokens'[c]
    <3>1. /\ Pending(c)' = Pending(c) \cup {p} /\ editing'[p].token = tokens[c]
          /\ Responding(c) \subseteq Responding(c)' /\ (step = "respond" => Responding(c)' # {})
          /\ \A q \in Requests \ {p} : editing'[q] = editing[q]
      BY <2>0
    <3>2. \A q \in Pending(c) : q \in Requests
      BY DEF Pending
    <3>3. Pending(c) = {} \/ c \notin spoiled
      BY <1>9, <2>2
    <3>4. \A q \in Pending(c) : editing[q].token = tokens[c]
      BY <3>3 DEF Agree
    <3>5. step = "respond" \/ c \notin spoiled
      BY <1>9, <2>2
    <3> QED  BY <1>9, <3>1, <3>2, <3>4, <3>5 DEF Agree
  <2> QED  BY <2>1, <2>2 DEF Agree
<1>10. ASSUME NEW p \in Requests, NEW c \in Clients,
              EditClient(p, c) \/ \E u \in Users : ReadToken(p, u, c)
       PROVE  Agree'
  BY <1>9, <1>10 DEF EditClient, ReadToken
\* The token of a request about an unspoiled client is the client's.
<1>11. ASSUME NEW p \in Requests, SaveClient(p)
       PROVE  Agree'
  <2>1. editing[p] # Idle /\ editing' = [editing EXCEPT ![p] = Idle] /\ p \notin Responding(editing[p].client)
    BY <1>11 DEF SaveClient, Responding, Idle
  <2>2. \A d \in Clients : tokens'[d] = IF d = editing[p].client THEN editing[p].token ELSE tokens[d]
    BY <1>11 DEF SaveClient
  <2>3. UNCHANGED <<shown, spoiled>>
    BY <1>11 DEF SaveClient
  <2>4. /\ \A d \in Clients \ {editing[p].client} :
              Pending(d)' = Pending(d) /\ Responding(d)' = Responding(d)
        /\ \A d \in Clients : /\ Pending(d)' = Pending(d) \ {p}
                              /\ Responding(d)' = Responding(d) \ {p}
                              /\ \A q \in Pending(d)' : editing'[q] = editing[q]
        /\ editing[p].client \in Clients /\ p \in Pending(editing[p].client)
    BY <1>3, <2>1
  <2>5. ASSUME NEW d \in Clients \ spoiled'
        PROVE  /\ \A q \in Pending(d)' : editing'[q].token = tokens'[d]
               /\ Responding(d)' = {} => shown'[d] = tokens'[d]
    <3>1. d \in Clients /\ d \notin spoiled
      BY <2>2, <2>3, <2>5
    <3>2. /\ \A q \in Pending(d) : editing[q].token = tokens[d]
          /\ Responding(d) = {} => shown[d] = tokens[d]
      BY <3>1 DEF Agree
    <3>3. /\ Pending(d)' = Pending(d) \ {p} /\ Responding(d)' = Responding(d) \ {p}
          /\ \A q \in Pending(d)' : editing'[q] = editing[q]
          /\ d # editing[p].client => Responding(d)' = Responding(d)
          /\ d = editing[p].client => p \in Pending(d)
      BY <2>4, <3>1
    <3>4. tokens'[d] = tokens[d]
      BY <2>2, <2>3, <3>1, <3>2, <3>3
    <3>5. Responding(d)' = {} => shown'[d] = tokens[d]
      BY <2>1, <2>2, <2>3, <3>1, <3>2, <3>3
    <3> QED  BY <3>2, <3>3, <3>4, <3>5
  <2> QED  BY <2>5 DEF Agree
<1>12. ASSUME NEW p \in Requests, ShowToken(p)
       PROVE  Agree'
  <2>1. editing[p] # Idle /\ editing' = [editing EXCEPT ![p] = Idle]
    BY <1>12 DEF ShowToken, Idle
  <2>2. \A d \in Clients : shown'[d] = IF d = editing[p].client THEN editing[p].token ELSE shown[d]
    BY <1>12 DEF ShowToken
  <2>3. UNCHANGED <<tokens, spoiled>>
    BY <1>12 DEF ShowToken
  <2>4. /\ \A d \in Clients \ {editing[p].client} :
              Pending(d)' = Pending(d) /\ Responding(d)' = Responding(d)
        /\ \A d \in Clients : /\ Pending(d)' = Pending(d) \ {p}
                              /\ Responding(d)' = Responding(d) \ {p}
                              /\ \A q \in Pending(d)' : editing'[q] = editing[q]
        /\ editing[p].client \in Clients /\ p \in Pending(editing[p].client)
    BY <1>3, <2>1
  <2>5. ASSUME NEW d \in Clients \ spoiled'
        PROVE  /\ \A q \in Pending(d)' : editing'[q].token = tokens'[d]
               /\ Responding(d)' = {} => shown'[d] = tokens'[d]
    <3>1. d \in Clients /\ d \notin spoiled
      BY <2>2, <2>3, <2>5
    <3>2. /\ \A q \in Pending(d) : editing[q].token = tokens[d]
          /\ Responding(d) = {} => shown[d] = tokens[d]
      BY <3>1 DEF Agree
    <3>3. /\ Pending(d)' = Pending(d) \ {p} /\ Responding(d)' = Responding(d) \ {p}
          /\ \A q \in Pending(d)' : editing'[q] = editing[q]
          /\ d # editing[p].client => Responding(d)' = Responding(d)
          /\ d = editing[p].client => p \in Pending(d)
      BY <2>4, <3>1
    <3>4. tokens'[d] = tokens[d]
      BY <2>2, <2>3, <3>1, <3>2, <3>3
    <3>5. Responding(d)' = {} => shown'[d] = tokens[d]
      BY <2>1, <2>2, <2>3, <3>1, <3>2, <3>3
    <3> QED  BY <3>2, <3>3, <3>4, <3>5
  <2> QED  BY <2>5 DEF Agree
<1>13. ASSUME NEW p \in Requests, LoseResponse(p)
       PROVE  Agree'
  <2>1. editing[p] # Idle /\ editing' = [editing EXCEPT ![p] = Idle]
    BY <1>13 DEF LoseResponse, Idle
  <2>2. /\ \A d \in Clients \ spoiled' : d \notin spoiled
        /\ editing[p].client \notin spoiled' => shown[editing[p].client] = editing[p].token
    BY <1>13 DEF LoseResponse
  <2>3. UNCHANGED <<tokens, shown>>
    BY <1>13 DEF LoseResponse
  <2>4. /\ \A d \in Clients \ {editing[p].client} :
              Pending(d)' = Pending(d) /\ Responding(d)' = Responding(d)
        /\ \A d \in Clients : /\ Pending(d)' = Pending(d) \ {p}
                              /\ Responding(d)' = Responding(d) \ {p}
                              /\ \A q \in Pending(d)' : editing'[q] = editing[q]
        /\ editing[p].client \in Clients /\ p \in Pending(editing[p].client)
    BY <1>3, <2>1
  <2>5. ASSUME NEW d \in Clients \ spoiled'
        PROVE  /\ \A q \in Pending(d)' : editing'[q].token = tokens'[d]
               /\ Responding(d)' = {} => shown'[d] = tokens'[d]
    <3>1. d \in Clients /\ d \notin spoiled
      BY <2>2, <2>3, <2>5
    <3>2. /\ \A q \in Pending(d) : editing[q].token = tokens[d]
          /\ Responding(d) = {} => shown[d] = tokens[d]
      BY <3>1 DEF Agree
    <3>3. /\ Pending(d)' = Pending(d) \ {p} /\ Responding(d)' = Responding(d) \ {p}
          /\ \A q \in Pending(d)' : editing'[q] = editing[q]
          /\ d # editing[p].client => Responding(d)' = Responding(d)
          /\ d = editing[p].client => p \in Pending(d)
      BY <2>4, <3>1
    <3>4. tokens'[d] = tokens[d]
      BY <2>2, <2>3, <3>1, <3>2, <3>3
    <3>5. Responding(d)' = {} => shown'[d] = tokens[d]
      BY <2>1, <2>2, <2>3, <3>1, <3>2, <3>3
    <3> QED  BY <3>2, <3>3, <3>4, <3>5
  <2> QED  BY <2>5 DEF Agree
<1>5. ASSUME NEW p \in Requests, NEW r, Read(p, r)
      PROVE  Agree'
  BY <1>1, <1>5 DEF Read
<1>6. ASSUME NEW p \in Requests,
             \/ FullClean(p) \/ Save(p)
             \/ \E i \in Interfaces, v \in Vlans, typed \in Texts \cup {Empty},
                   first, last \in Int : SubmitInterface(p, i, v, typed, first, last)
             \/ \E v \in Vlans, ip \in Addresses, first, last \in Int :
                   SetPortRange(p, v, ip, first, last)
      PROVE  Agree'
  BY <1>1, <1>5, <1>6 DEF FullClean, Save, SubmitInterface, SetPortRange
<1>7. CASE UNCHANGED vars
  BY <1>1, <1>7 DEF vars, secrets
<1> QED  BY <1>4, <1>6, <1>7, <1>10, <1>11, <1>12, <1>13 DEF Next

\* The token last shown to the owner lets RPCs in and no other does, once the
\* token page has responded, unless the token was replaced while another request
\* about the client was under way or its response was lost.
THEOREM TokensAreShown == Spec => []ShownTokenIsValid
<1>1. Init => TypeOK /\ Agree
  BY DEF Init, TypeOK, Agree, Pending, Responding
<1>2. TypeOK /\ Agree /\ [Next]_vars => (TypeOK /\ Agree)'
  BY TypeStep, AgreeStep
<1>3. Agree => ShownTokenIsValid
  BY DEF Agree, ShownTokenIsValid, Authenticated
<1> QED  BY <1>1, <1>2, <1>3, PTL DEF Spec
=============================================================================
