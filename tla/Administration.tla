---------------------------- MODULE Administration ----------------------------
(***************************************************************************)
(* Rows that the admin site, the web pages and SetPortRange read, check    *)
(* and save in full, by requests that overlap: the places of interfaces,   *)
(* and the API tokens of clients.  Neither the checks nor the saves lock   *)
(* a row, and no constraint of the database repeats the checks.            *)
(*                                                                         *)
(* Rows are never deleted: the hooks raise in the web process.  A VLAN's   *)
(* subnet is read-only once it is made.  LinkResolver has what             *)
(* SetPortRange does to the links.                                         *)
(***************************************************************************)
EXTENDS Integers, Sequences

CONSTANTS
    Interfaces,
    Vlans,
    Subnet,      \* VLAN -> its addresses
    Clients,
    ClientOf,    \* <<AS number, client name>>, as texts -> the client they name
    Tokens,
    Users,
    Superusers,
    UsersOf,     \* client -> the users of the owner of its AS
    Requests     \* requests at a time

VARIABLES
    interfaces,  \* Interface rows
    saving,      \* request -> the interface row it is about to save
    raced,       \* history: pairs of interfaces checked while the other was being saved
    tokens,      \* client -> secret_token
    editing,     \* request -> the client row it is about to save, or to respond with
    shown,       \* history: client -> the last token shown to its owner
    spoiled      \* history: clients whose token was replaced during another
                 \* request about them, or replaced and not shown

vars == <<interfaces, saving, raced, tokens, editing, shown, spoiled>>
places == <<interfaces, saving, raced>>
secrets == <<tokens, editing, shown, spoiled>>

-----------------------------------------------------------------------------
Blank == ""                    \* no API access
Empty == [form |-> "empty"]    \* an address left out

Addresses == UNION {Subnet[v] : v \in Vlans}

\* What is typed for an address: a way to write one, or none of an address.
Texts == [ip : Addresses, form : {"compressed", "exploded"}] \cup {[form |-> "malformed"]}

\* IpAddressField.to_python: a ValidationError, or the address however it is written.
ToPython(text) == IF text.form = "malformed" THEN {} ELSE {text.ip}

\* L4PortField.validate
ValidPort(n) == 0 <= n /\ n < 65536

Row == [id : Interfaces, vlan : Vlans, ip : Addresses, first_port : Int, last_port : Int]
Idle == [step |-> "idle"]
SamePlace(r, q) == r.vlan = q.vlan /\ r.ip = q.ip

TypeOK ==
    /\ interfaces \subseteq Row
    /\ saving \in [Requests -> {Idle} \cup [step : {"read", "checked"}, row : Row]]
    /\ raced \subseteq SUBSET Interfaces
    /\ tokens \in [Clients -> Tokens \cup {Blank}]
    /\ editing \in [Requests -> {Idle} \cup [step : {"edit", "respond"}, client : Clients,
                                             token : Tokens \cup {Blank}]]
    /\ shown \in [Clients -> Tokens \cup {Blank}]
    /\ spoiled \subseteq Clients

Init ==
    /\ interfaces = {}
    /\ saving = [p \in Requests |-> Idle]
    /\ raced = {}
    /\ tokens = [c \in Clients |-> Blank]
    /\ editing = [p \in Requests |-> Idle]
    /\ shown = [c \in Clients |-> Blank]
    /\ spoiled = {}

-----------------------------------------------------------------------------
\* VLAN.get_unused_ip: one of these, the first that is a host's, or NoUnusedIps.
UnusedIps(v) == {ip \in Subnet[v] : ~ \E r \in interfaces : r.vlan = v /\ r.ip = ip}

\* InterfaceAdminForm.clean
Entered(v, typed) == IF typed = Empty THEN UnusedIps(v) ELSE ToPython(typed)

Read(p, r) ==
    /\ saving[p] = Idle
    /\ saving' = [saving EXCEPT ![p] = [step |-> "read", row |-> r]]
    /\ UNCHANGED <<interfaces, raced, secrets>>

\* An interface is added or changed in the admin site, all of its columns at once.
\* One that is added gets an ID of its own.
SubmitInterface(p, i, v, typed, first, last) ==
    /\ \/ \E r \in interfaces : r.id = i
       \/ \A q \in Requests : saving[q] # Idle => saving[q].row.id # i
    /\ \E ip \in Entered(v, typed) :
          Read(p, [id |-> i, vlan |-> v, ip |-> ip, first_port |-> first, last_port |-> last])

\* SetPortRange finds the interface by its place, and saves it with the place.
SetPortRange(p, v, ip, first, last) ==
    \E r \in interfaces :
        /\ r.vlan = v /\ r.ip = ip
        /\ \A q \in interfaces : SamePlace(q, r) => q = r
        /\ Read(p, [r EXCEPT !.first_port = first, !.last_port = last])

\* The fields of the row, then Interface.clean.
Clean(r) ==
    /\ ValidPort(r.first_port) /\ ValidPort(r.last_port)
    /\ r.ip \in Subnet[r.vlan]
    /\ ~ \E q \in interfaces : q.id # r.id /\ SamePlace(q, r)

Checked == {q \in Requests : saving[q].step = "checked"}

\* full_clean in Interface.save.  The request ends if it fails.
FullClean(p) ==
    /\ saving[p].step = "read"
    /\ IF Clean(saving[p].row)
       THEN /\ saving' = [saving EXCEPT ![p].step = "checked"]
            /\ raced' = raced \cup {{saving[p].row.id, saving[q].row.id} : q \in Checked}
       ELSE /\ saving' = [saving EXCEPT ![p] = Idle]
            /\ UNCHANGED raced
    /\ UNCHANGED <<interfaces, secrets>>

\* The save is committed; until then others read the old row.
Save(p) ==
    /\ saving[p].step = "checked"
    /\ interfaces' = {r \in interfaces : r.id # saving[p].row.id} \cup {saving[p].row}
    /\ saving' = [saving EXCEPT ![p] = Idle]
    /\ UNCHANGED <<raced, secrets>>

-----------------------------------------------------------------------------
\* The requests about client c under way, and those of them that will show a
\* token of it.
Pending(c) == {p \in Requests : editing[p] # Idle /\ editing[p].client = c}
Responding(c) == {p \in Pending(c) : editing[p].step = "respond"}

\* ClientSecretView.check_permission, and the template filter has_access.
has_access(u, c) == u \in Superusers \cup UsersOf[c]

\* Request p holds a row of client c with token t.
Hold(p, step, c, t) ==
    /\ editing[p] = Idle
    /\ editing' = [editing EXCEPT ![p] = [step |-> step, client |-> c, token |-> t]]

\* ClientSecretView.post: the new token is saved, with what was read of the
\* rest of the row.  Other requests may still hold the old one.
NewToken(p, u, c, t) ==
    /\ has_access(u, c)
    /\ Hold(p, "respond", c, t)
    /\ tokens' = [tokens EXCEPT ![c] = t]
    /\ spoiled' = IF Pending(c) = {} THEN spoiled \ {c} ELSE spoiled \cup {c}
    /\ UNCHANGED <<places, shown>>

\* ClientSecretView.get: the token is read.
ReadToken(p, u, c) ==
    /\ has_access(u, c)
    /\ Hold(p, "respond", c, tokens[c])
    /\ spoiled' = IF Pending(c) = {} THEN spoiled \ {c} ELSE spoiled
    /\ UNCHANGED <<places, tokens, shown>>

\* The response of either arrives ...
ShowToken(p) ==
    /\ editing[p].step = "respond"
    /\ shown' = [shown EXCEPT ![editing[p].client] = editing[p].token]
    /\ editing' = [editing EXCEPT ![p] = Idle]
    /\ UNCHANGED <<places, tokens, spoiled>>

\* ... or is lost, with a token that the owner may not have seen yet.
LoseResponse(p) ==
    /\ editing[p].step = "respond"
    /\ editing' = [editing EXCEPT ![p] = Idle]
    /\ spoiled' = IF shown[editing[p].client] = editing[p].token THEN spoiled
                  ELSE spoiled \cup {editing[p].client}
    /\ UNCHANGED <<places, tokens, shown>>

\* A client is edited in the admin site, where its token is read-only: it is
\* saved as it was read.
EditClient(p, c) ==
    /\ Hold(p, "edit", c, tokens[c])
    /\ UNCHANGED <<places, tokens, shown, spoiled>>

SaveClient(p) ==
    /\ editing[p].step = "edit"
    /\ tokens' = [tokens EXCEPT ![editing[p].client] = editing[p].token]
    /\ editing' = [editing EXCEPT ![p] = Idle]
    /\ UNCHANGED <<places, shown, spoiled>>

\* The metadata of an RPC: keys and values, in order, keys repeated at will.
Metadata == Seq(STRING \X STRING)

LastOf(metadata, key) ==
    LET at == {n \in DOMAIN metadata : metadata[n][1] = key}
    IN  IF at = {} THEN "" ELSE metadata[CHOOSE n \in at : \A m \in at : m <= n][2]

get_client_from_metadata(metadata) == <<LastOf(metadata, "asn"), LastOf(metadata, "client")>>

\* The client an RPC calls itself, if there is one of that name.
Names(metadata, c) ==
    LET named == get_client_from_metadata(metadata)
    IN  named \in DOMAIN ClientOf /\ ClientOf[named] = c

Carries(metadata, t) == \E n \in DOMAIN metadata : metadata[n] = <<"token", t>>

\* TokenValidationInterceptor: may an RPC continue as client c?
Authenticated(metadata, c) ==
    /\ Names(metadata, c)
    /\ tokens[c] # Blank
    /\ Carries(metadata, tokens[c])

Next ==
    \E p \in Requests :
        \/ FullClean(p) \/ Save(p) \/ SaveClient(p) \/ ShowToken(p) \/ LoseResponse(p)
        \/ \E i \in Interfaces, v \in Vlans, typed \in Texts \cup {Empty}, first, last \in Int :
              SubmitInterface(p, i, v, typed, first, last)
        \/ \E v \in Vlans, ip \in Addresses, first, last \in Int :
              SetPortRange(p, v, ip, first, last)
        \/ \E c \in Clients : EditClient(p, c)
        \/ \E u \in Users, c \in Clients :
              ReadToken(p, u, c) \/ \E t \in Tokens : NewToken(p, u, c, t)

Spec == Init /\ [][Next]_vars

-----------------------------------------------------------------------------
\* The address of an interface is from the subnet of its VLAN, and its ports are
\* ports, whichever forms and RPCs save it at the same time: all columns are
\* saved together, also by SetPortRange, which means to change the ports only
\* (ixp.py:211-237, custom_fields.py:129-132).
AddressesAreLocal ==
    \A r \in interfaces :
        /\ r.ip \in Subnet[r.vlan]
        /\ ValidPort(r.first_port) /\ ValidPort(r.last_port)

\* Two interfaces of a VLAN have the same address only if one was checked while
\* the other, already checked, was not saved yet (ixp.py:232-237).
AddressesDiffer ==
    \A r, q \in interfaces : r.id # q.id /\ SamePlace(r, q) => {r.id, q.id} \in raced

\* Once the token page has responded, the token last shown to the owner is the
\* one that lets RPCs in as the client they name, and no other, unless the token
\* was replaced while another request about the client was under way, or its
\* response was lost.  Then an edit may bring the old token back, or an older
\* response may arrive last, until the page is asked again with nothing else
\* under way (views.py:201-224, admin.py:22-33, authentication.py:17-65).
ShownTokenIsValid ==
    \A c \in Clients \ spoiled : Responding(c) = {} =>
        \A metadata \in Metadata : Names(metadata, c) =>
            (Authenticated(metadata, c) <=> shown[c] # Blank /\ Carries(metadata, shown[c]))
=============================================================================
