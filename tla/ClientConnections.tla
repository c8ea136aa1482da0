-------------------------- MODULE ClientConnections --------------------------
(***************************************************************************)
(* The persistent streams of the peering clients of ONE autonomous system  *)
(* and the election of the client that may write its policies.             *)
(*                                                                         *)
(*   ClientConnections (api/client_connection.py): `connections`,          *)
(*     `_election`, `_primary`, and `_lock`, which create, arbitrate and   *)
(*     destroy hold from their first line to their last.                   *)
(*   ClientConnection: the queue between the threads of a stream.          *)
(*   PeeringService.StreamChannel (api/peering.py): a handler thread that  *)
(*     runs the queue, and a listener thread that fills it.                *)
(*                                                                         *)
(* Loops run under the lock are one step per VLAN or interface, so another *)
(* thread's unlocked steps interleave with them.  Link updates and errors  *)
(* travel through the same queue and never touch the election: left out.   *)
(* Here looking up the collection and `create` are one step, so that a     *)
(* client has one connection, whose entry only its own handler deletes.    *)
(* The code lets threads in between: module ClientRegistry has the races   *)
(* of the registry's dictionary, the client connected twice they lead to,  *)
(* and the KeyError _arbitrate then raises.  This module is about the      *)
(* streams of an AS while no client has been connected twice.              *)
(***************************************************************************)
EXTENDS Integers, Sequences, FiniteSets

CONSTANTS
    Clients,      \* the AS's peering clients in the database
    Vlans,
    Interfaces,   \* their interfaces: Interfaces, ClientOf and VlanOf stand
    ClientOf,     \*   for the database rows
    VlanOf,
    ElectionIds,  \* the int64 values clients bid with
    NoBid,        \* `_election[vlan]` has no entry for the client
    NoClient,     \* the value None of `_primary[vlan]`
    Unset,        \* `_primary` has no entry for the VLAN
    AllVlans,     \* an arbitration request without its `vlan` field
    MaxPending    \* bound: input stops while this many items are queued

ASSUME ClientConnectionsAssumption ==
    /\ ClientOf \in [Interfaces -> Clients]
    /\ VlanOf \in [Interfaces -> Vlans]
    /\ ElectionIds \subseteq Int
    /\ NoBid \notin ElectionIds
    /\ NoClient \notin Clients
    /\ Unset \notin Clients \cup {NoClient}
    /\ AllVlans \notin Vlans
    /\ MaxPending \in Nat

VARIABLES
    connections,  \* clients with an entry in self.connections
    election,     \* self._election: VLAN -> client -> election ID or NoBid
    older,        \* order of the keys of self._election[vlan]: <<c, d>> iff c precedes d
    primary,      \* self._primary
    lock,         \* what the thread in a critical section has left to do
    registered,   \* whether ClientRegistry still maps the AS to this object
    handler,      \* where the handler thread of each client's stream is
    listener,     \* the receiving side of each client's stream
    queue,        \* _response_queue of each client's connection
    belief        \* the last status per VLAN sent on each client's running stream

server == <<connections, election, older, primary, registered>>
vars == <<server, lock, handler, listener, queue, belief>>

-----------------------------------------------------------------------------
Statuses == {"PRIMARY", "NOT_PRIMARY", "ERROR"}

Request == [type : {"request"}, vlan : Vlans \cup {AllVlans}, id : ElectionIds]
Response == [type : {"response"}, vlan : Vlans, id : ElectionIds, status : Statuses]
Exit == [type |-> "exit"]
Item == Request \cup Response \cup {Exit}

ToRequest(v, e) == [type |-> "request", vlan |-> v, id |-> e]
\* Mutant: the vlan field of an update is left unset.
ToResponseUnset(v, e, s) == [type |-> "response", vlan |-> AllVlans, id |-> e, status |-> s]
ToResponse(v, e, s) == [type |-> "response", vlan |-> v, id |-> e, status |-> s]

Free == [op |-> "free"]
Arbitrations == [op : {"arbitrate"}, client : Clients, id : ElectionIds, todo : SUBSET Interfaces]
Destructions == [op : {"destroy"}, client : Clients, todo : SUBSET Vlans]
Arbitration(c, e, todo) == [op |-> "arbitrate", client |-> c, id |-> e, todo |-> todo]
Destruction(c, todo) == [op |-> "destroy", client |-> c, todo |-> todo]

TypeOK ==
    /\ connections \subseteq Clients
    /\ election \in [Vlans -> [Clients -> ElectionIds \cup {NoBid}]]
    /\ older \in [Vlans -> SUBSET (Clients \X Clients)]
    /\ primary \in [Vlans -> Clients \cup {NoClient, Unset}]
    /\ lock \in {Free} \cup Arbitrations \cup Destructions
    /\ registered \in BOOLEAN
    /\ handler \in [Clients -> {"idle", "opening", "running", "closing", "leaving"}]
    /\ listener \in [Clients -> {"off", "reading", "closed", "broken"}]
    /\ queue \in [Clients -> Seq(Item)]
    /\ belief \in [Clients -> [Vlans -> {"PRIMARY", "NOT_PRIMARY", "UNKNOWN"}]]

InterfacesOf(c) == {i \in Interfaces : ClientOf[i] = c}
InterfacesIn(c, v) == {i \in InterfacesOf(c) : VlanOf[i] = v}

Candidates(bids) == {c \in Clients : bids[c] # NoBid}

\* Mutant: the last candidate to join wins, whatever it bids.
WinsNewest(bids, order, w) ==
    \/ /\ Candidates(bids) = {}
       /\ w = NoClient
    \/ /\ w \in Candidates(bids)
       /\ \A c \in Candidates(bids) : <<w, c>> \notin order

\* The loop of _arbitrate keeps the candidate with the highest ID and, because
\* it compares with >=, the one inserted last among equals.  Every int64 is
\* >= -2**63, so None is kept only if there is no candidate.
Wins(bids, order, w) ==
    \/ /\ Candidates(bids) = {}
       /\ w = NoClient
    \/ /\ w \in Candidates(bids)
       /\ \A c \in Candidates(bids) \ {w} :
             \/ bids[c] < bids[w]
             \/ bids[c] = bids[w] /\ <<c, w>> \in order

\* Mutant: only the winner is told.
NotifyWinner(v, bids, w) ==
    queue' = [c \in Clients |->
        IF c = w /\ handler[c] = "running"
        THEN Append(queue[c], ToResponse(v, bids[c], "PRIMARY")) ELSE queue[c]]

\* Every candidate of VLAN v is sent its own ID and whether it won.
Notify(v, bids, w) ==
    queue' = [c \in Clients |->
        IF c \in Candidates(bids) /\ handler[c] = "running"
        THEN Append(queue[c],
                    ToResponse(v, bids[c], IF c = w THEN "PRIMARY" ELSE "NOT_PRIMARY"))
        ELSE queue[c]]

\* _arbitrate(v), on the bids and the order its caller leaves behind.
Elect(v, bids, order) ==
    \E w \in Clients \cup {NoClient} :
        /\ Wins(bids, order, w)
        /\ primary' = [primary EXCEPT ![v] = w]
        /\ Notify(v, bids, w)

\* Mutant: a repeated bid moves its client to the end.
OrderRenewed(v, c) ==
    {p \in older[v] : c \notin {p[1], p[2]}} \cup ((Candidates(election[v]) \ {c}) \X {c})

\* d[c] = e on a dict: a new key goes last, a known one keeps its place.
OrderWith(v, c) ==
    IF election[v][c] = NoBid THEN older[v] \cup (Candidates(election[v]) \X {c}) ELSE older[v]

-----------------------------------------------------------------------------
Init ==
    /\ connections = {}
    /\ election = [v \in Vlans |-> [c \in Clients |-> NoBid]]
    /\ older = [v \in Vlans |-> {}]
    /\ primary = [v \in Vlans |-> Unset]
    /\ lock = Free
    /\ registered = FALSE
    /\ handler = [c \in Clients |-> "idle"]
    /\ listener = [c \in Clients |-> "off"]
    /\ queue = [c \in Clients |-> <<>>]
    /\ belief = [c \in Clients |-> [v \in Vlans |-> "UNKNOWN"]]

\* New input is bounded, what the program makes of it is not.
MayReceive == Cardinality(UNION {{c} \X DOMAIN queue[c] : c \in Clients}) < MaxPending

\* ClientRegistry.createConnection and create, while no other thread is in the
\* registry.  A client with a live connection is refused (AlreadyConnected)
\* without any effect.
Create(c) ==
    /\ handler[c] = "idle"
    /\ lock = Free
    /\ MayReceive
    /\ c \notin connections
    /\ connections' = connections \cup {c}
    /\ registered' = TRUE
    /\ handler' = [handler EXCEPT ![c] = "opening"]
    /\ UNCHANGED <<election, older, primary, lock, listener, queue, belief>>

\* The existing links have been sent, the listener thread starts.
StartListener(c) ==
    /\ handler[c] = "opening"
    /\ handler' = [handler EXCEPT ![c] = "running"]
    /\ listener' = [listener EXCEPT ![c] = "reading"]
    /\ UNCHANGED <<server, lock, queue, belief>>

\* Reading the existing links raises: the connection is destroyed again.
SnapshotFails(c) ==
    /\ handler[c] = "opening"
    /\ handler' = [handler EXCEPT ![c] = "closing"]
    /\ UNCHANGED <<server, lock, listener, queue, belief>>

\* stream_request_received: the listener thread posts a client's bid.
ReceiveRequest(c, v, e) ==
    /\ listener[c] = "reading"
    /\ handler[c] = "running"
    /\ MayReceive
    /\ queue' = [queue EXCEPT ![c] = Append(@, ToRequest(v, e))]
    /\ UNCHANGED <<server, lock, handler, listener, belief>>

\* request_stream_closed.  Mutant: the listener thread ends without it.
PostNothing(c) == queue' = queue
PostExit(c) == queue' = [queue EXCEPT ![c] = Append(@, Exit)]

\* The client half-closed its stream ...
CloseStream(c) ==
    /\ listener[c] = "reading"
    /\ listener' = [listener EXCEPT ![c] = "closed"]
    /\ PostExit(c)
    /\ UNCHANGED <<server, lock, handler, belief>>

\* ... or the stream is lost, in both directions (grpc.RpcError).
BreakStream(c) ==
    /\ listener[c] \in {"reading", "closed"}
    /\ listener' = [listener EXCEPT ![c] = "broken"]
    /\ IF listener[c] = "reading" THEN PostExit(c) ELSE UNCHANGED queue
    /\ UNCHANGED <<server, lock, handler, belief>>

-----------------------------------------------------------------------------
\* ClientConnection.run: one command per turn, in the order they were queued,
\* and none while the thread is inside arbitrate for the one before.
Received(c, type) ==
    /\ handler[c] = "running"
    /\ ~(lock.op = "arbitrate" /\ lock.client = c)
    /\ queue[c] # <<>>
    /\ Head(queue[c]).type = type

\* The generator ends, returning or raising, and its finally block is next.
\* Nobody will take what is still or later queued: it is not kept.
Finally(c) ==
    /\ handler' = [handler EXCEPT ![c] = "closing"]
    /\ listener' = [listener EXCEPT ![c] = "off"]
    /\ queue' = [queue EXCEPT ![c] = <<>>]
    /\ belief' = [belief EXCEPT ![c] = [v \in Vlans |-> "UNKNOWN"]]

Yield(c) ==
    /\ Received(c, "response")
    /\ listener[c] # "broken"
    /\ LET r == Head(queue[c]) IN
       belief' = IF r.status = "ERROR" THEN belief ELSE [belief EXCEPT ![c][r.vlan] = r.status]
    /\ queue' = [queue EXCEPT ![c] = Tail(@)]
    /\ UNCHANGED <<server, lock, handler, listener>>

\* gRPC finds the stream broken when it sends, and drops the generator.
YieldBroken(c) ==
    /\ Received(c, "response")
    /\ listener[c] = "broken"
    /\ Finally(c)
    /\ UNCHANGED <<server, lock>>

RunExit(c) ==
    /\ Received(c, "exit")
    /\ Finally(c)
    /\ UNCHANGED <<server, lock>>

\* arbitrate with a vlan the client has no interface in: an ERROR reply.
ArbitrateNoInterface(c) ==
    /\ Received(c, "request")
    /\ lock = Free
    /\ LET r == Head(queue[c]) IN
       /\ r.vlan # AllVlans
       /\ InterfacesIn(c, r.vlan) = {}
       /\ queue' = [queue EXCEPT ![c] = Append(Tail(@), ToResponse(r.vlan, r.id, "ERROR"))]
    /\ UNCHANGED <<server, lock, handler, listener, belief>>

\* arbitrate with a vlan the client has two interfaces in: `get` raises
\* MultipleObjectsReturned, which nobody catches, and the generator ends.
ArbitrateAmbiguous(c) ==
    /\ Received(c, "request")
    /\ lock = Free
    /\ Head(queue[c]).vlan # AllVlans
    /\ Cardinality(InterfacesIn(c, Head(queue[c]).vlan)) > 1
    /\ Finally(c)
    /\ UNCHANGED <<server, lock>>

\* arbitrate otherwise: the interfaces whose VLANs the bid is for.
ArbitrateBegin(c) ==
    /\ Received(c, "request")
    /\ lock = Free
    /\ LET r == Head(queue[c])
           todo == IF r.vlan = AllVlans THEN InterfacesOf(c) ELSE InterfacesIn(c, r.vlan) IN
       /\ r.vlan = AllVlans \/ Cardinality(todo) = 1
       /\ lock' = Arbitration(c, r.id, todo)
    /\ queue' = [queue EXCEPT ![c] = Tail(@)]
    /\ UNCHANGED <<server, handler, listener, belief>>

\* One turn of its loop.  The rows come back in no particular order.
ArbitrateStep(i) ==
    /\ lock.op = "arbitrate"
    /\ i \in lock.todo
    /\ LET c == lock.client
           v == VlanOf[i] IN
       /\ election' = [election EXCEPT ![v][c] = lock.id]
       /\ older' = [older EXCEPT ![v] = OrderWith(v, c)]
       /\ Elect(v, election'[v], older'[v])
    /\ lock' = [lock EXCEPT !.todo = @ \ {i}]
    /\ UNCHANGED <<connections, registered, handler, listener, belief>>

ArbitrateEnd ==
    /\ lock.op = "arbitrate"
    /\ lock.todo = {}
    /\ lock' = Free
    /\ UNCHANGED <<server, handler, listener, queue, belief>>

\* A row of the loop cannot be read: the exception releases the lock, keeps the
\* bids made so far and ends the generator.
ArbitrateFails ==
    /\ lock.op = "arbitrate"
    /\ lock.todo # {}
    /\ lock' = Free
    /\ Finally(lock.client)
    /\ UNCHANGED server

-----------------------------------------------------------------------------
Withdraw(c) ==
    /\ election' = [v \in Vlans |-> [election[v] EXCEPT ![c] = NoBid]]
    /\ older' = [v \in Vlans |-> {p \in older[v] : c \notin {p[1], p[2]}}]

\* Mutant: no election after the primary left.
LedByNobody(c) == {}
LedBy(c) == {v \in Vlans : primary[v] = c}

\* destroy: withdraw the client's bids, ...
DestroyBegin(c) ==
    /\ handler[c] = "closing"
    /\ lock = Free
    /\ Withdraw(c)
    /\ lock' = Destruction(c, LedBy(c))
    /\ UNCHANGED <<connections, primary, registered, handler, listener, queue, belief>>

\* ... elect a new primary in every VLAN it was primary of, ...
DestroyStep(v) ==
    /\ lock.op = "destroy"
    /\ v \in lock.todo
    /\ Elect(v, election[v], older[v])
    /\ lock' = [lock EXCEPT !.todo = @ \ {v}]
    /\ UNCHANGED <<connections, election, older, registered, handler, listener, belief>>

\* ... and forget the connection.
DestroyEnd ==
    /\ lock.op = "destroy"
    /\ lock.todo = {}
    /\ LET c == lock.client IN
       /\ connections' = connections \ {c}
       /\ handler' = [handler EXCEPT ![c] = "leaving"]
    /\ lock' = Free
    /\ UNCHANGED <<election, older, primary, registered, listener, queue, belief>>

\* ClientRegistry.destroyConnection, the lock released: the registry drops the
\* collection when it is empty, and with it what it knew about the election.
Unregister(c) ==
    /\ handler[c] = "leaving"
    /\ handler' = [handler EXCEPT ![c] = "idle"]
    /\ IF connections = {}
       THEN /\ registered' = FALSE
            /\ primary' = [v \in Vlans |-> Unset]
       ELSE UNCHANGED <<registered, primary>>
    /\ UNCHANGED <<connections, election, older, lock, listener, queue, belief>>

-----------------------------------------------------------------------------
\* is_primary_client(c, v), AllVlans for None: then every known VLAN counts,
\* and none is known before the first bid.
is_primary_client(c, v) ==
    IF v = AllVlans THEN \A w \in Vlans : primary[w] \in {Unset, c} ELSE primary[v] = c

\* Mutant: is_primary_client does not wait for the lock.
GrantedUnlocked(c, v) == registered /\ is_primary_client(c, v)

\* _assert_policy_write_permission: without a collection for the AS the
\* registry raises, which denies.
Granted(c, v) == registered /\ lock = Free /\ is_primary_client(c, v)

\* A turn of the queue that needs the lock, and one that does not.
Arbitrate(c) == ArbitrateNoInterface(c) \/ ArbitrateAmbiguous(c) \/ ArbitrateBegin(c)
Run(c) == Yield(c) \/ YieldBroken(c) \/ RunExit(c)
Critical ==
    \/ \E i \in Interfaces : ArbitrateStep(i)
    \/ ArbitrateEnd
    \/ \E v \in Vlans : DestroyStep(v)
    \/ DestroyEnd

Open(c) == Create(c) \/ StartListener(c) \/ SnapshotFails(c)
Listen(c) ==
    \/ \E v \in Vlans \cup {AllVlans}, e \in ElectionIds : ReceiveRequest(c, v, e)
    \/ CloseStream(c)
    \/ BreakStream(c)

Next ==
    \/ Critical
    \/ ArbitrateFails
    \/ \E c \in Clients :
          Open(c) \/ Listen(c) \/ Run(c) \/ Arbitrate(c) \/ DestroyBegin(c) \/ Unregister(c)

Spec == Init /\ [][Next]_vars

\* Threads run on, a client that does not read loses its stream, and a thread
\* waiting for the lock gets it some time if it is free again and again.
Fairness ==
    /\ WF_vars(Critical)
    /\ \A c \in Clients :
          /\ WF_vars(StartListener(c) \/ SnapshotFails(c))
          /\ WF_vars(Run(c))
          /\ SF_vars(Arbitrate(c))
          /\ SF_vars(DestroyBegin(c))
          /\ WF_vars(Unregister(c))

FairSpec == Spec /\ Fairness

-----------------------------------------------------------------------------
\* VLAN v has lost its primary and the lock holder has yet to elect another.
Vacant(v) == lock.op = "destroy" /\ v \in lock.todo

\* Whatever bids, lowered bids, failures and departures came before, the
\* primary that is_primary_client compares with has the highest of the current
\* bids, and there is none exactly if nobody bids
\* (client_connection.py:159-164, 188-193, 229-233).
PrimaryIsBest ==
    \A v \in Vlans : ~Vacant(v) =>
        IF Candidates(election[v]) = {} THEN primary[v] \in {NoClient, Unset}
        ELSE /\ primary[v] \in Candidates(election[v])
             /\ \A c \in Candidates(election[v]) : election[v][c] <= election[v][primary[v]]

\* Permission to write one VLAN's policies is given to the connected client with
\* the highest bid of the moment only, also while a departed primary is being
\* replaced and whichever thread is where (client_connection.py:219-222, which
\* waits for the lock; peering.py:203, 236).
GrantedIsBest ==
    \A c \in Clients, v \in Vlans : Granted(c, v) =>
        /\ c \in connections /\ election[v][c] # NoBid
        /\ \A d \in Candidates(election[v]) : election[v][d] <= election[v][c]

\* The newest response about VLAN v on its way to c, or else the last one sent.
Said(c, v) ==
    LET about == {n \in DOMAIN queue[c] : queue[c][n].type = "response" /\ queue[c][n].vlan = v}
    IN  IF about = {} THEN belief[c][v]
        ELSE queue[c][CHOOSE n \in about : \A m \in about : m <= n].status

\* The last word a candidate gets about a VLAN is the truth: updates that other
\* threads queue, from elections won and lost in between, never leave it with a
\* status the coordinator does not act on (client_connection.py:238-246).
LastWord ==
    \A c \in Clients, v \in Vlans :
        handler[c] = "running" /\ election[v][c] # NoBid /\ ~Vacant(v) =>
            Said(c, v) = IF primary[v] = c THEN "PRIMARY" ELSE "NOT_PRIMARY"

\* A primary is replaced only when it has withdrawn, lowers its own bid, or
\* another client newly bids at least as much: repeating an old bid, elections
\* in other VLANs and departures of others never unseat it
\* (client_connection.py:159-164, 226-233).
PrimaryIsStable ==
    [][\A v \in Vlans :
          LET p == primary[v] IN
          p \in Clients /\ primary'[v] # p =>
              \/ election'[v][p] = NoBid
              \/ lock.client = p /\ lock.id < election[v][p]
              \/ /\ lock.client = primary'[v]
                 /\ lock.id >= election[v][p]
                 /\ lock.id # election[v][lock.client]]_vars

\* What the election promises the clients, with its internal delays hidden:
\* the steps of this module implement module Arbitration.
Promise == INSTANCE Arbitration WITH
    bid <- election,
    leader <- [v \in Vlans |->
        IF Vacant(v) THEN CHOOSE w \in Clients \cup {NoClient} : Wins(election[v], older[v], w)
        ELSE IF primary[v] = Unset THEN NoClient ELSE primary[v]]

ImplementsArbitration == Promise!Spec

\* A client that becomes primary is told so, and one that no longer is
\* primary is told that, unless the situation changes or its stream ends
\* first (client_connection.py:238-246, 96-110).
BeliefCatchesUp ==
    \A c \in Clients, v \in Vlans :
        /\ primary[v] = c ~> belief[c][v] = "PRIMARY" \/ primary[v] # c
        /\ belief[c][v] = "PRIMARY" /\ primary[v] # c ~>
              belief[c][v] # "PRIMARY" \/ primary[v] = c

\* A closed, lost or failed stream is eventually deregistered, whatever is
\* still queued for it and however busy the lock is (peering.py:92-98).
StreamsEnd ==
    \A c \in Clients :
        listener[c] \in {"closed", "broken"} \/ handler[c] = "closing" ~> c \notin connections
=============================================================================
