----------------------------- MODULE LinkUpdates -----------------------------
(***************************************************************************)
(* Transactions that change links, and the clients' copies of the links.   *)
(*                                                                         *)
(* RPCs run in threads of the gRPC server, each in a database transaction  *)
(* (READ COMMITTED: a statement sees what is committed and what its own    *)
(* transaction wrote).  Updates are put on the clients' streams when a row *)
(* is written, before the transaction commits.  The admin site does the    *)
(* same in the web server's process, where no streams are registered.      *)
(*                                                                         *)
(* One VLAN, one interface per AS with ports enough, all ASes in one ISD;  *)
(* a link is its row <<AS of interface_a, AS of interface_b>>.  Streams    *)
(* are FIFO (ClientConnections has their queues), so view is what a client *)
(* believes once it has read all that was put on its stream; it is kept    *)
(* for the clients of the interfaces only.                                 *)
(***************************************************************************)
EXTENDS Integers, Sequences, FiniteSets

CONSTANTS
    ASes,
    IsCore,       \* the core ASes
    Clients,
    AsOf,         \* the AS of a client
    Holders,      \* the clients to which the interface of their AS belongs
    MaxRunning    \* bound: transactions at a time, at most one of them for an AS

ASSUME LinkUpdatesAssumption ==
    /\ IsCore \subseteq ASes
    /\ IsFiniteSet(Clients)
    /\ AsOf \in [Clients -> ASes]
    /\ Holders \subseteq Clients
    /\ MaxRunning \in Nat

VARIABLES
    accepts,      \* AcceptedPeer: AS -> the peers it accepts, committed
    links,        \* Link rows, committed
    tx,           \* AS -> the transaction running for it
    connections,  \* AS -> its registered clients, in the order of the dictionary
    stream,       \* client -> how far StreamChannel is
    fresh,        \* client -> links read for it and not yet on its stream
    view,         \* client of an interface -> the links it believes in
    excuses,      \* history: client -> why its view of a pair of ASes may be wrong
    unsettled     \* history: pairs whose links the last RPC could not get right

vars == <<accepts, links, tx, connections, stream, fresh, view, excuses, unsettled>>
server == <<accepts, links, tx, unsettled>>
streams == <<connections, stream, fresh, view, excuses>>

-----------------------------------------------------------------------------
Opening(c) == stream[c] = "registered" \/ fresh[c] # {}

Row == {r \in ASes \X ASes : r[1] # r[2]}
Pair(r) == {r[1], r[2]}
Pairs == {Pair(r) : r \in Row}
Update == [type : {"CREATE", "DESTROY"}, row : Row, to : ASes]

Idle == [step |-> "idle"]
Running == {a \in ASes : tx[a] # Idle}
Others(a) == Running \ {a}

\* The start of an AS's transaction, which has written its AcceptedPeer rows.
\* step: the statement it is at; doomed: rows selected for deletion; told: rows
\* whose deletion is not yet announced; gone, made: rows it has deleted, made;
\* mail: updates to send; size, seen: the iteration over the receivers;
\* met: the ASes whose transactions it has overlapped with (history).
Started(step, accept, web, doomed) ==
    [step |-> step, accept |-> accept, web |-> web,
     unlink |-> step = "delete", doomed |-> doomed, told |-> doomed, gone |-> {}, made |-> {},
     add |-> {}, mail |-> <<>>, size |-> 0, seen |-> {}, met |-> Running]

TypeOK ==
    /\ accepts \in [ASes -> SUBSET ASes]
    /\ links \subseteq Row
    /\ \A a \in Running :
          /\ tx[a].step \in {"collect", "delete", "tell", "create"}
          /\ tx[a].accept \cup tx[a].add \cup tx[a].met \subseteq ASes
          /\ UNION {tx[a].doomed, tx[a].told, tx[a].gone, tx[a].made} \subseteq Row
          /\ tx[a].mail \in Seq(Update) /\ tx[a].seen \subseteq Clients
    /\ \A a \in ASes : Len(connections[a]) <= Cardinality({c \in Clients : AsOf[c] = a})
    /\ stream \in [Clients -> {"off", "registered", "open"}]
    /\ fresh \in [Clients -> SUBSET Row] /\ view \in [Clients -> SUBSET Row]
    /\ excuses \in [Clients -> SUBSET ({"raced", "failed", "rejected", "unsent"} \X Pairs)]
    /\ unsettled \subseteq Pairs

Init ==
    /\ accepts = [a \in ASes |-> {}]
    /\ links = {}
    /\ tx = [a \in ASes |-> Idle]
    /\ connections = [a \in ASes |-> <<>>]
    /\ stream = [c \in Clients |-> "off"]
    /\ fresh = [c \in Clients |-> {}]
    /\ view = [c \in Clients |-> {}]
    /\ excuses = [c \in Clients |-> {}]
    /\ unsettled = {}

-----------------------------------------------------------------------------
\* What the statements of a's transaction read.
Visible(a) == (links \ tx[a].gone) \cup tx[a].made
LinksOf(a) == {r \in Visible(a) : a \in Pair(r)}
ConnectedPeers(a) == (UNION {Pair(r) : r \in LinksOf(a)}) \ {a}

\* Mutant: accepted by one side is enough.
OneSideAccepted(a) == tx[a].accept

\* query_mutually_accepted_peers
MutuallyAccepted(a) == {b \in tx[a].accept : a \in accepts[b]}

\* Mutant: interface_a twice.
RowOfOne(a, b) == <<a, a>>

\* The order of the interfaces _create_links chooses for a and its peer b.
RowOf(a, b) == IF b \in IsCore /\ a \notin IsCore THEN <<b, a>> ELSE <<a, b>>

\* Mutant: only the AS of interface_b is told.
MessagesToB(type, r) == <<[type |-> type, row |-> r, to |-> r[2]]>>

\* What LinkManager.create and delete_link_hook send for a row.
Messages(type, r) ==
    <<[type |-> type, row |-> r, to |-> r[1]], [type |-> type, row |-> r, to |-> r[2]]>>

\* A transaction in the web process has nobody to send to.
MailOf(t, type, r) == IF t.web THEN <<>> ELSE Messages(type, r)

Put(rows, m) == IF m.type = "CREATE" THEN rows \cup {m.row} ELSE rows \ {m.row}

\* From now on the open or opening streams in cs may be wrong about pairs.  Only
\* the first reason counts, and only for the clients of the interfaces.
Excused(why, cs, pairs) ==
    [c \in Clients |->
        excuses[c] \cup
          IF stream[c] = "off" \/ c \notin cs \cap Holders THEN {}
          ELSE {<<why, p>> : p \in {q \in pairs : ~ \E e \in excuses[c] : e[2] = q}}]

-----------------------------------------------------------------------------
\* The running transactions overlap with one of a.
Meet(a) == [b \in ASes |-> IF b \in Running THEN [tx[b] EXCEPT !.met = @ \cup {a}] ELSE Idle]

\* The start of a transaction for AS a.  It races with the other side's
\* transactions on a pair, and with streams that are being opened.
Begin(a, t) ==
    /\ tx[a] = Idle
    /\ Cardinality(Running) < MaxRunning
    /\ tx' = [Meet(a) EXCEPT ![a] = t]
    /\ unsettled' = unsettled \cup {{a, b} : b \in Running}
    /\ excuses' = [c \in Clients |->
          Excused("raced", {c}, {p \in Pairs : a \in p /\ (Opening(c) \/ p \ {a} \subseteq Running)})[c]]
    /\ UNCHANGED <<accepts, links, connections, stream, fresh, view>>

\* CreatePolicy, DestroyPolicy and SetPolicies.
ChangePolicies(a, accept) == Begin(a, Started("collect", accept, FALSE, {}))

\* The action "update links" of the admin site's page of interfaces.
AdminUpdateLinks(a) == Begin(a, Started("collect", accepts[a], TRUE, {}))

\* The admin site's page of links: has_delete_premission is misspelled, links
\* can be deleted.
AdminDeleteLink(r) ==
    /\ r \in links
    /\ Begin(r[1], Started("delete", accepts[r[1]], TRUE, {r}))

\* PolicyAdmin for AS, owner and ISD policies: AcceptedPeer only, no links.
AdminPolicies(a, accept) ==
    /\ tx[a] = Idle
    /\ accepts' = [accepts EXCEPT ![a] = accept]
    /\ unsettled' = unsettled \cup {{a, b} : b \in (accept \ accepts[a]) \cup (accepts[a] \ accept)}
    /\ tx' = Meet(a)
    /\ UNCHANGED <<links, streams>>

\* The links with peers not accepted any more are selected.
Collect(a) ==
    /\ tx[a].step = "collect"
    /\ LET old == {r \in LinksOf(a) : Pair(r) \cap MutuallyAccepted(a) = {}} IN
       tx' = [tx EXCEPT ![a].doomed = old, ![a].told = old, ![a].step = "delete"]
    /\ UNCHANGED <<accepts, links, unsettled, streams>>

\* They are deleted by their IDs, unless another transaction has deleted them,
\* for which this one waits if it is not finished.
Delete(a) ==
    /\ tx[a].step = "delete"
    /\ \A b \in Others(a) : tx[b].gone \cap tx[a].doomed = {}
    /\ tx' = [tx EXCEPT ![a].gone = @ \cup tx[a].doomed, ![a].doomed = {}, ![a].step = "tell"]
    /\ UNCHANGED <<accepts, links, unsettled, streams>>

\* delete_link_hook for each, also for those that were gone already.
TellDeleted(a) ==
    /\ tx[a].step = "tell" /\ tx[a].mail = <<>>
    /\ \E r \in tx[a].told :
          tx' = [tx EXCEPT ![a].told = @ \ {r}, ![a].mail = MailOf(tx[a], "DESTROY", r)]
    /\ UNCHANGED <<accepts, links, unsettled, streams>>

\* The peers to connect are selected.
FindPeers(a) ==
    /\ tx[a].step = "tell" /\ tx[a].mail = <<>> /\ tx[a].told = {}
    /\ tx' = [tx EXCEPT ![a].step = "create",
                        ![a].add = IF tx[a].unlink THEN {}
                                   ELSE MutuallyAccepted(a) \ ConnectedPeers(a)]
    /\ UNCHANGED <<accepts, links, unsettled, streams>>

\* LinkManager.create.  It waits for a transaction that made the same row.
CreateLink(a, b) ==
    /\ tx[a].step = "create" /\ tx[a].mail = <<>>
    /\ b \in tx[a].add
    /\ RowOf(a, b) \notin Visible(a) \cup UNION {tx[d].made : d \in Others(a)}
    /\ tx' = [tx EXCEPT ![a].add = @ \ {b},
                        ![a].made = @ \cup {RowOf(a, b)},
                        ![a].mail = MailOf(tx[a], "CREATE", RowOf(a, b))]
    /\ UNCHANGED <<accepts, links, unsettled, streams>>

\* send_link_update, one turn of its loop over the dictionary; its iterator
\* raises when the number of entries has changed since it was made.
Send(a) ==
    /\ tx[a] # Idle /\ tx[a].mail # <<>>
    /\ LET m == Head(tx[a].mail)
           receivers == connections[m.to]
           unseen == {n \in 1..Len(receivers) : receivers[n] \notin tx[a].seen} IN
       /\ tx[a].size \in {0, Len(receivers)}
       /\ \/ /\ unseen = {}
             /\ tx' = [tx EXCEPT ![a].mail = Tail(@), ![a].size = 0, ![a].seen = {}]
             /\ UNCHANGED view
          \/ \E n \in unseen :
                /\ \A k \in unseen : n <= k
                /\ tx' = [tx EXCEPT ![a].seen = @ \cup {receivers[n]},
                                    ![a].size = Len(receivers)]
                /\ view' = IF receivers[n] \in Holders
                           THEN [view EXCEPT ![receivers[n]] = Put(@, m)] ELSE view
    /\ UNCHANGED <<accepts, links, unsettled, connections, stream, fresh, excuses>>

\* The end of a transaction without effect.
Rollback(a, why) ==
    /\ tx' = [tx EXCEPT ![a] = Idle]
    /\ excuses' = IF tx[a].web THEN excuses
                  ELSE Excused(why, Clients, {Pair(r) : r \in tx[a].gone \cup tx[a].made})
    /\ UNCHANGED <<accepts, links, unsettled, connections, stream, fresh, view>>

\* send_link_update raised.
SendFails(a) ==
    /\ tx[a] # Idle /\ tx[a].mail # <<>>
    /\ tx[a].size \notin {0, Len(connections[Head(tx[a].mail).to])}
    /\ Rollback(a, "failed")

\* The row exists already: full_clean or the unique constraint raises.
CreateFails(a, b) ==
    /\ tx[a].step = "create" /\ tx[a].mail = <<>>
    /\ b \in tx[a].add /\ RowOf(a, b) \in Visible(a)
    /\ Rollback(a, "failed")

Finished(a) == tx[a].step = "create" /\ tx[a].mail = <<>> /\ tx[a].add = {}

\* The TransactionRollback of a SetPolicies: some policies failed validation,
\* and continue_on_error is false.
Reject(a) == tx[a] # Idle /\ Finished(a) /\ ~tx[a].web /\ Rollback(a, "rejected")

Commit(a) ==
    /\ tx[a] # Idle /\ Finished(a)
    /\ accepts' = [accepts EXCEPT ![a] = tx[a].accept]
    /\ links' = Visible(a)
    /\ tx' = [b \in ASes |-> IF b \in Others(a) THEN [tx[b] EXCEPT !.doomed = @ \ tx[a].gone]
                             ELSE Idle]
    /\ unsettled' = IF tx[a].unlink THEN unsettled \cup {Pair(r) : r \in tx[a].gone}
                    ELSE unsettled \ {{a, b} : b \in ASes \ tx[a].met}
    /\ excuses' = IF tx[a].web THEN Excused("unsent", Clients, {Pair(r) : r \in tx[a].gone \cup tx[a].made})
                  ELSE excuses
    /\ UNCHANGED <<connections, stream, fresh, view>>

-----------------------------------------------------------------------------
\* StreamChannel: the connection is registered first,
Register(c) ==
    /\ stream[c] = "off"
    /\ connections' = [connections EXCEPT ![AsOf[c]] = Append(@, c)]
    /\ stream' = [stream EXCEPT ![c] = "registered"]
    /\ excuses' = [excuses EXCEPT ![c] =
          {<<"raced", p>> : p \in {q \in Pairs : c \in Holders /\ q \cap Running # {}}}]
    /\ UNCHANGED <<server, fresh, view>>

\* then the links of its own interfaces are read
ReadLinks(c) ==
    /\ stream[c] = "registered"
    /\ stream' = [stream EXCEPT ![c] = "open"]
    /\ fresh' = [fresh EXCEPT ![c] = {r \in links : c \in Holders /\ AsOf[c] \in Pair(r)}]
    /\ UNCHANGED <<server, connections, view, excuses>>

\* and put on its stream one by one.
SendExisting(c) ==
    /\ \E r \in fresh[c] :
          /\ fresh' = [fresh EXCEPT ![c] = @ \ {r}]
          /\ view' = [view EXCEPT ![c] = @ \cup {r}]
    /\ UNCHANGED <<server, connections, stream, excuses>>

\* The connection is destroyed.  With the last one of its AS the dictionary is
\* dropped: an iteration over it will raise.
Close(c) ==
    /\ stream[c] # "off"
    /\ LET a == AsOf[c] IN
       \E n \in {k \in 1..Len(connections[a]) : connections[a][k] = c} :
          LET left == SubSeq(connections[a], 1, n - 1)
                        \o SubSeq(connections[a], n + 1, Len(connections[a])) IN
          /\ connections' = [connections EXCEPT ![a] = left]
          /\ tx' = [b \in ASes |->
                IF b \in Running /\ tx[b].size > 0 /\ Head(tx[b].mail).to = a
                THEN [tx[b] EXCEPT !.seen = @ \ {c}, !.size = IF left = <<>> THEN -1 ELSE @]
                ELSE tx[b]]
    /\ stream' = [stream EXCEPT ![c] = "off"]
    /\ fresh' = [fresh EXCEPT ![c] = {}]
    /\ view' = [view EXCEPT ![c] = {}]
    /\ excuses' = [excuses EXCEPT ![c] = {}]
    /\ UNCHANGED <<accepts, links, unsettled>>

Transaction(a) ==
    \/ Collect(a) \/ Delete(a) \/ TellDeleted(a) \/ FindPeers(a)
    \/ Send(a) \/ SendFails(a) \/ Reject(a) \/ Commit(a)
    \/ \E b \in ASes : CreateLink(a, b) \/ CreateFails(a, b)

Start ==
    \/ \E a \in ASes : AdminUpdateLinks(a)
    \/ \E a \in ASes, accept \in SUBSET ASes :
          /\ a \notin accept
          /\ AdminPolicies(a, accept) \/ ChangePolicies(a, accept)
    \/ \E r \in Row : AdminDeleteLink(r)

StreamChannel(c) ==
    Register(c) \/ ReadLinks(c) \/ SendExisting(c) \/ Close(c)

Next ==
    \/ Start
    \/ \E a \in ASes : a \in Running /\ Transaction(a)
    \/ \E c \in Clients : StreamChannel(c)

Spec == Init /\ [][Next]_vars

-----------------------------------------------------------------------------
Mutual(p) == \A a \in p : p \ {a} \subseteq accepts[a]
On(p, rows) == {r \in rows : Pair(r) = p}

\* Links follow the decisions of both sides whatever transactions overlap.
\* The exceptions are pairs whose two sides raced, or whose policies or links
\* were edited in the admin site, and then the next transaction of either side
\* that runs without the other puts the pair right (policy_resolver.py:99-117).
LinksSettle ==
    \A p \in Pairs \ unsettled : p \cap Running = {} => (On(p, links) # {}) = Mutual(p)

\* The client of an interface believes in exactly the links of the interface,
\* whatever iterations fail and clients come and go, unless an update raced
\* with the opening of its stream or with the other side's transaction, was
\* sent by a transaction that was rolled back, or not sent by the web process
\* (peering.py:58-73, ixp.py:293-303, 371-390).
ViewsAgree ==
    \A c \in Holders : \A p \in Pairs :
        /\ stream[c] = "open" /\ ~Opening(c) /\ AsOf[c] \in p /\ p \cap Running = {}
        /\ \A why \in {"raced", "failed", "rejected", "unsent"} : <<why, p>> \notin excuses[c]
        => On(p, view[c]) = On(p, links)

\* A rejected SetPolicies leaves no trace in the clients' views
\* (peering.proto:29-30).
RejectedHasNoEffect ==
    \A c \in Holders : \A p \in Pairs :
        /\ stream[c] = "open" /\ ~Opening(c) /\ AsOf[c] \in p /\ p \cap Running = {}
        /\ \A why \in {"raced", "failed", "unsent"} : <<why, p>> \notin excuses[c]
        => On(p, view[c]) = On(p, links)
=============================================================================
