---------------------------- MODULE ClientRegistry ----------------------------
(***************************************************************************)
(* ClientRegistry (api/client_connection.py): the dictionary `_ases` that  *)
(* leads from an AS to the ClientConnections object of its clients, seen   *)
(* for one AS.  Every ClientConnections has a lock; the dictionary has     *)
(* none, so handler threads opening and closing streams interleave between *)
(* any two statements of createConnection and destroyConnection.  One      *)
(* action is one statement that touches shared state; `create`, `destroy`  *)
(* and `arbitrate` hold the object's lock and are one action each.         *)
(*                                                                         *)
(* Of the elections there is what decides whether _arbitrate raises: who   *)
(* bids in one VLAN, and who is primary there.  ClientConnections has the  *)
(* election IDs, the VLANs and the queues of a single object.              *)
(***************************************************************************)
EXTENDS Naturals, FiniteSets

CONSTANTS
    Handlers,   \* handler threads, each running one StreamChannel at a time
    Clients,    \* client names streams are opened for
    Known,      \* those of them in the database
    Instances,  \* ClientConnections objects, recycled when unreachable
    None,       \* no object, no entry
    MaxBusy     \* bound: threads in createConnection or destroyConnection

ASSUME ClientRegistryAssumption ==
    /\ None \notin Handlers \cup Clients \cup Instances
    /\ Known \subseteq Clients
    /\ MaxBusy \in Nat \ {0}

VARIABLES
    ases,     \* _ases[asn], or None
    entries,  \* instance.connections: client name -> handler of the entry
    bids,     \* instance._election[vlan]: the clients with a bid
    primary,  \* instance._primary[vlan], or None
    pc,       \* the statement each handler executes next
    name,     \* client_name, None while idle
    found,    \* the local variable `connections`
    home,     \* conn._as_connections of the handler's connection
    doubled   \* history: a client had two connections at a time

objects == <<entries, bids, primary>>
locals == <<name, found, home>>
vars == <<ases, objects, pc, locals, doubled>>

InCreate == {"check", "assign", "lookup", "create", "finally", "drop"}
InDestroy == {"find", "destroy", "recheck", "redrop"}

TypeOK ==
    /\ ases \in Instances \cup {None}
    /\ entries \in [Instances -> [Clients -> Handlers \cup {None}]]
    /\ bids \in [Instances -> SUBSET Clients]
    /\ primary \in [Instances -> Clients \cup {None}]
    /\ pc \in [Handlers -> {"idle", "serving"} \cup InCreate \cup InDestroy]
    /\ name \in [Handlers -> Clients \cup {None}]
    /\ found \in [Handlers -> Instances \cup {None}]
    /\ home \in [Handlers -> Instances \cup {None}]
    /\ doubled \in BOOLEAN

Empty(i) == \A c \in Clients : entries[i][c] = None
Unreachable(i) == ases # i /\ \A h \in Handlers : i \notin {found[h], home[h]}

\* The handler has a connection that it has not destroyed.
Live(h) == home[h] # None /\ pc[h] \in {"finally", "drop", "serving", "find", "destroy"}

MayStart == Cardinality({h \in Handlers : pc[h] \in InCreate \cup InDestroy}) < MaxBusy

Goto(h, l) == pc' = [pc EXCEPT ![h] = l]

\* The stream ends: with a gRPC status, or normally.
Return(h) ==
    /\ Goto(h, "idle")
    /\ name' = [name EXCEPT ![h] = None]
    /\ found' = [found EXCEPT ![h] = None]
    /\ home' = [home EXCEPT ![h] = None]

Init ==
    /\ ases = None
    /\ entries = [i \in Instances |-> [c \in Clients |-> None]]
    /\ bids = [i \in Instances |-> {}]
    /\ primary = [i \in Instances |-> None]
    /\ pc = [h \in Handlers |-> "idle"]
    /\ name = [h \in Handlers |-> None]
    /\ found = [h \in Handlers |-> None]
    /\ home = [h \in Handlers |-> None]
    /\ doubled = FALSE

\* A client opens its stream; its AS is in the database.
Open(h, c) ==
    /\ pc[h] = "idle"
    /\ MayStart
    /\ Goto(h, "check")
    /\ name' = [name EXCEPT ![h] = c]
    /\ UNCHANGED <<ases, objects, found, home, doubled>>

\* if asn not in _ases
Check(h) ==
    /\ pc[h] = "check"
    /\ Goto(h, IF ases = None THEN "assign" ELSE "lookup")
    /\ UNCHANGED <<ases, objects, locals, doubled>>

\* _ases[asn] = ClientConnections(asn)
Assign(h) ==
    /\ pc[h] = "assign"
    /\ \E i \in Instances :
          /\ Unreachable(i)
          /\ ases' = i
          /\ entries' = [entries EXCEPT ![i] = [c \in Clients |-> None]]
          /\ bids' = [bids EXCEPT ![i] = {}]
          /\ primary' = [primary EXCEPT ![i] = None]
    /\ Goto(h, "lookup")
    /\ UNCHANGED <<locals, doubled>>

\* connections = _ases[asn], where a KeyError becomes the status NOT_FOUND
Lookup(h) ==
    /\ pc[h] = "lookup"
    /\ IF ases = None THEN Return(h)
       ELSE /\ found' = [found EXCEPT ![h] = ases]
            /\ Goto(h, "create")
            /\ UNCHANGED <<name, home>>
    /\ UNCHANGED <<ases, objects, doubled>>

\* connections.create(client_name), which raises if the name is not in the
\* database or has an entry
CreateEntry(h) ==
    /\ pc[h] = "create"
    /\ IF name[h] \in Known /\ entries[found[h]][name[h]] = None
       THEN /\ entries' = [entries EXCEPT ![found[h]][name[h]] = h]
            /\ home' = [home EXCEPT ![h] = found[h]]
            /\ doubled' = (doubled \/ \E g \in Handlers : Live(g) /\ name[g] = name[h])
       ELSE UNCHANGED <<entries, home, doubled>>
    /\ Goto(h, "finally")
    /\ UNCHANGED <<ases, bids, primary, name, found>>

\* finally: if len(connections.connections) == 0.  Past it the handler serves
\* the stream if create returned, and aborts it if create raised.
Finally(h) ==
    /\ pc[h] = "finally"
    /\ IF Empty(found[h]) THEN Goto(h, "drop") /\ UNCHANGED locals
       ELSE IF home[h] = None THEN Return(h)
       ELSE Goto(h, "serving") /\ found' = [found EXCEPT ![h] = None] /\ UNCHANGED <<name, home>>
    /\ UNCHANGED <<ases, objects, doubled>>

\* del _ases[asn] in createConnection: a KeyError replaces what create returned
Drop(h) ==
    /\ pc[h] = "drop"
    /\ ases' = None
    /\ IF home[h] = None \/ ases = None THEN Return(h)
       ELSE Goto(h, "serving") /\ found' = [found EXCEPT ![h] = None] /\ UNCHANGED <<name, home>>
    /\ UNCHANGED <<objects, doubled>>

-----------------------------------------------------------------------------
\* Whom _arbitrate may elect among the candidates after client c has bid or
\* left.  The IDs are not recorded: a primary other than c is still ahead of
\* all but c, and else anybody may be.
Winners(i, candidates, c) ==
    IF candidates = {} THEN {None}
    ELSE IF primary[i] \in candidates \ {c} THEN {primary[i]} \cup (candidates \cap {c})
    ELSE candidates

\* self.connections[client] raises a KeyError in _arbitrate.
Raises(i, candidates) == \E c \in candidates : entries[i][c] = None

\* The handler runs a bid of its client on the object of its own connection.
\* If _arbitrate raises, the stream ends and destroyConnection is called.
Bid(h) ==
    /\ pc[h] = "serving"
    /\ LET i == home[h]
           candidates == bids[i] \cup {name[h]} IN
       /\ bids' = [bids EXCEPT ![i] = candidates]
       /\ \E w \in Winners(i, candidates, name[h]) : primary' = [primary EXCEPT ![i] = w]
       /\ IF Raises(i, candidates) THEN Goto(h, "find") ELSE UNCHANGED pc
    /\ UNCHANGED <<ases, entries, locals, doubled>>

\* Mutant: the stream ends without destroyConnection.
CloseForgetful(h) ==
    /\ pc[h] = "serving"
    /\ Return(h)
    /\ UNCHANGED <<ases, objects, doubled>>

\* The stream ends, destroyConnection is called.
Close(h) ==
    /\ pc[h] = "serving"
    /\ MayStart
    /\ Goto(h, "find")
    /\ UNCHANGED <<ases, objects, locals, doubled>>

\* connections = _ases[asn], where a KeyError ends the handler
Find(h) ==
    /\ pc[h] = "find"
    /\ IF ases = None THEN Return(h)
       ELSE /\ found' = [found EXCEPT ![h] = ases]
            /\ Goto(h, "destroy")
            /\ UNCHANGED <<name, home>>
    /\ UNCHANGED <<ases, objects, doubled>>

\* Mutant: the bid is withdrawn only by the primary.
WithdrawnByPrimary(i, c) == IF primary[i] = c THEN bids[i] \ {c} ELSE bids[i]

\* vlan.pop(conn.name, None)
Withdrawn(i, c) == bids[i] \ {c}

\* Mutant: the entry is overwritten with the client's name.
NameLeft(i, c) == entries' = [entries EXCEPT ![i][c] = c]

\* del self.connections[conn.name], whosever entry it is
EntryDeleted(i, c) == entries' = [entries EXCEPT ![i][c] = None]

\* connections.destroy(conn): the bid is withdrawn, another primary elected if
\* the client was it, and its entry deleted.  A KeyError, of _arbitrate or for
\* lack of the entry, ends the handler before that.
DestroyEntry(h) ==
    /\ pc[h] = "destroy"
    /\ LET i == found[h]
           c == name[h]
           candidates == Withdrawn(i, c) IN
       /\ bids' = [bids EXCEPT ![i] = candidates]
       /\ IF primary[i] = c
          THEN \E w \in Winners(i, candidates, c) : primary' = [primary EXCEPT ![i] = w]
          ELSE UNCHANGED primary
       /\ IF (primary[i] = c /\ Raises(i, candidates)) \/ entries[i][c] = None
          THEN Return(h) /\ UNCHANGED entries
          ELSE EntryDeleted(i, c) /\ Goto(h, "recheck") /\ UNCHANGED locals
    /\ UNCHANGED <<ases, doubled>>

\* Mutant: the collection is never dropped.
RecheckNever(h) ==
    /\ pc[h] = "recheck"
    /\ Return(h)
    /\ UNCHANGED <<ases, objects, doubled>>

\* if len(connections.connections) == 0
Recheck(h) ==
    /\ pc[h] = "recheck"
    /\ IF Empty(found[h]) THEN Goto(h, "redrop") /\ UNCHANGED locals
                          ELSE Return(h)
    /\ UNCHANGED <<ases, objects, doubled>>

\* del _ases[asn], whichever object it leads to by now
Redrop(h) ==
    /\ pc[h] = "redrop"
    /\ ases' = None
    /\ Return(h)
    /\ UNCHANGED <<objects, doubled>>

Next ==
    \E h \in Handlers :
        \/ \E c \in Clients : Open(h, c)
        \/ Check(h) \/ Assign(h) \/ Lookup(h) \/ CreateEntry(h) \/ Finally(h) \/ Drop(h)
        \/ Bid(h)
        \/ Close(h) \/ Find(h) \/ DestroyEntry(h) \/ Recheck(h) \/ Redrop(h)

Spec == Init /\ [][Next]_vars

-----------------------------------------------------------------------------
Serving(h) == pc[h] = "serving"

\* A client has one connection at a time (client_connection.py:263).  If it
\* has two, they are on two objects, one of which the registry does not lead
\* to: elections and link updates miss it.
OneConnectionPerClient ==
    \A g, h \in Handlers : Serving(g) /\ Serving(h) /\ name[g] = name[h] => g = h

\* Once every stream has ended the registry holds nothing for the AS, as
\* tests/test_api.py:485 expects after the last client disconnected.  After a
\* client was connected twice this may fail for ever: destroy raises before it
\* deletes an entry (client_connection.py:162-166, 246).
EmptyWhenIdle == (\A h \in Handlers : pc[h] = "idle") => ases = None

\* Double connections are the only reason: all other races of opening and
\* closing leave nothing behind (client_connection.py:270-278, 289-292).
EmptyUnlessDoubled == ~doubled => EmptyWhenIdle

\* Every candidate has the connection that _arbitrate looks up, in every object
\* that any thread can reach: unless a client was connected twice, no election
\* ends another client's stream with a KeyError (client_connection.py:246).
ElectedConnected ==
    ~doubled => \A i \in Instances : \A c \in bids[i] : entries[i][c] # None

\* However openings and closings interleave, an entry a new stream could trip
\* over (AlreadyConnected) belongs to a stream that is open, or is closing and
\* will still remove it: unless a client was connected twice, nobody is locked
\* out for good (client_connection.py:146-147, 166, 289-290).
NoLockout ==
    ~doubled /\ ases # None => \A c \in Clients :
        LET h == entries[ases][c] IN
        h # None =>
            /\ name[h] = c
            /\ home[h] = ases
            /\ \/ pc[h] \in {"finally", "drop", "serving", "find"}
               \/ pc[h] = "destroy" /\ found[h] = ases
=============================================================================
