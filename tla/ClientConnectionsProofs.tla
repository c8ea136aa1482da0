----------------------- MODULE ClientConnectionsProofs -----------------------
(***************************************************************************)
(* Proofs about ClientConnections, for any clients, VLANs, interfaces,     *)
(* election IDs and bound on the input: the type invariant first, then the *)
(* inductive invariants behind PrimaryIsBest, behind PrimaryIsStable and   *)
(* ImplementsArbitration, and behind LastWord.                             *)
(***************************************************************************)
EXTENDS ClientConnections, TLAPS

LEMMA ItemTypes ==
    ASSUME TypeOK
    PROVE  /\ Exit \in Item
           /\ \A v \in Vlans \cup {AllVlans}, e \in ElectionIds : ToRequest(v, e) \in Item
           /\ \A v \in Vlans, e \in ElectionIds, s \in Statuses : ToResponse(v, e, s) \in Item
BY DEF Item, Request, Response, Exit, ToRequest, ToResponse

\* What the lock variable says about the critical section.
LEMMA LockTypes ==
    ASSUME TypeOK
    PROVE  /\ lock = Free => lock.op = "free"
           /\ lock.op = "arbitrate" => lock \in Arbitrations
           /\ lock.op = "destroy" => lock \in Destructions
           /\ lock \in Arbitrations =>
                 lock.client \in Clients /\ lock.id \in ElectionIds /\ lock.todo \subseteq Interfaces
           /\ lock \in Destructions => lock.client \in Clients /\ lock.todo \subseteq Vlans
BY DEF TypeOK, Free, Arbitrations, Destructions

\* An item taken from the head of a queue.
LEMMA ReceivedTypes ==
    ASSUME TypeOK, NEW c \in Clients, queue[c] # <<>>
    PROVE  /\ Head(queue[c]) \in Item
           /\ Tail(queue[c]) \in Seq(Item)
           /\ Head(queue[c]).type = "request" => Head(queue[c]) \in Request
           /\ Head(queue[c]).type = "response" => Head(queue[c]) \in Response
<1>1. queue[c] \in Seq(Item)
  BY DEF TypeOK
<1>2. Head(queue[c]) \in Item /\ Tail(queue[c]) \in Seq(Item)
  BY <1>1
<1>3. \A x \in Item : /\ x.type = "request" => x \in Request
                      /\ x.type = "response" => x \in Response
  BY DEF Item, Request, Response, Exit
<1> QED  BY <1>2, <1>3

\* An election keeps the types of the two variables it changes.
LEMMA ElectTypes ==
    ASSUME TypeOK, NEW v \in Vlans, NEW bids \in [Clients -> ElectionIds \cup {NoBid}],
           NEW order, Elect(v, bids, order)
    PROVE  /\ primary' \in [Vlans -> Clients \cup {NoClient, Unset}]
           /\ queue' \in [Clients -> Seq(Item)]
<1>1. PICK w \in Clients \cup {NoClient} :
         /\ primary' = [primary EXCEPT ![v] = w]
         /\ Notify(v, bids, w)
  BY DEF Elect
<1>2. primary' \in [Vlans -> Clients \cup {NoClient, Unset}]
  BY <1>1 DEF TypeOK
<1>3. ASSUME NEW c \in Clients, c \in Candidates(bids), NEW s \in Statuses
      PROVE  Append(queue[c], ToResponse(v, bids[c], s)) \in Seq(Item)
  <2>1. bids[c] \in ElectionIds
    BY <1>3 DEF Candidates
  <2>2. ToResponse(v, bids[c], s) \in Item
    BY <2>1, ItemTypes
  <2>3. queue[c] \in Seq(Item)
    BY DEF TypeOK
  <2> QED  BY <2>2, <2>3
<1>4. \A c \in Clients : queue[c] \in Seq(Item)
  BY DEF TypeOK
<1>5. "PRIMARY" \in Statuses /\ "NOT_PRIMARY" \in Statuses
  BY DEF Statuses
<1>6. queue' \in [Clients -> Seq(Item)]
  BY <1>1, <1>3, <1>4, <1>5 DEF Notify
<1> QED  BY <1>2, <1>6

\* Appending an item to one queue.
LEMMA PostTypes ==
    ASSUME TypeOK, NEW c \in Clients, NEW x \in Item
    PROVE  [queue EXCEPT ![c] = Append(@, x)] \in [Clients -> Seq(Item)]
<1>1. queue[c] \in Seq(Item)
  BY DEF TypeOK
<1>2. Append(queue[c], x) \in Seq(Item)
  BY <1>1
<1> QED  BY <1>2 DEF TypeOK

\* The end of a generator.
LEMMA FinallyTypes ==
    ASSUME TypeOK, NEW c \in Clients, Finally(c)
    PROVE  /\ handler' \in [Clients -> {"idle", "opening", "running", "closing", "leaving"}]
           /\ listener' \in [Clients -> {"off", "reading", "closed", "broken"}]
           /\ queue' \in [Clients -> Seq(Item)]
           /\ belief' \in [Clients -> [Vlans -> {"PRIMARY", "NOT_PRIMARY", "UNKNOWN"}]]
<1>1. <<>> \in Seq(Item)
  OBVIOUS
<1> QED  BY <1>1 DEF TypeOK, Finally

LEMMA TypeInit == Init => TypeOK
<1> SUFFICES ASSUME Init PROVE TypeOK
  OBVIOUS
<1>1. <<>> \in Seq(Item)
  OBVIOUS
<1> QED  BY <1>1 DEF Init, TypeOK

LEMMA TypeStep == TypeOK /\ [Next]_vars => TypeOK'
<1> SUFFICES ASSUME TypeOK, [Next]_vars PROVE TypeOK'
  OBVIOUS
<1> USE DEF server
<1>1. ASSUME NEW c \in Clients, Create(c) PROVE TypeOK'
  BY <1>1 DEF Create, TypeOK
<1>2. ASSUME NEW c \in Clients, StartListener(c) PROVE TypeOK'
  BY <1>2 DEF StartListener, TypeOK
<1>3. ASSUME NEW c \in Clients, SnapshotFails(c) PROVE TypeOK'
  BY <1>3 DEF SnapshotFails, TypeOK
<1>4. ASSUME NEW c \in Clients, NEW v \in Vlans \cup {AllVlans}, NEW e \in ElectionIds,
             ReceiveRequest(c, v, e)
      PROVE  TypeOK'
  <2>1. queue' \in [Clients -> Seq(Item)]
    BY <1>4, ItemTypes, PostTypes DEF ReceiveRequest
  <2> QED  BY <1>4, <2>1 DEF ReceiveRequest, TypeOK
<1>5. ASSUME NEW c \in Clients, CloseStream(c) PROVE TypeOK'
  <2>1. queue' \in [Clients -> Seq(Item)]
    BY <1>5, ItemTypes, PostTypes DEF CloseStream, PostExit
  <2> QED  BY <1>5, <2>1 DEF CloseStream, TypeOK
<1>6. ASSUME NEW c \in Clients, BreakStream(c) PROVE TypeOK'
  <2>1. CASE listener[c] = "reading"
    <3>1. queue' \in [Clients -> Seq(Item)]
      BY <1>6, <2>1, ItemTypes, PostTypes DEF BreakStream, PostExit
    <3> QED  BY <1>6, <3>1 DEF BreakStream, TypeOK
  <2>2. CASE listener[c] # "reading"
    BY <1>6, <2>2 DEF BreakStream, TypeOK
  <2> QED  BY <2>1, <2>2
<1>7. ASSUME NEW c \in Clients, Yield(c) PROVE TypeOK'
  <2>1. Head(queue[c]) \in Response /\ Tail(queue[c]) \in Seq(Item)
    BY <1>7, ReceivedTypes DEF Yield, Received
  <2>2. belief' \in [Clients -> [Vlans -> {"PRIMARY", "NOT_PRIMARY", "UNKNOWN"}]]
    BY <1>7, <2>1 DEF Yield, TypeOK, Response, Statuses
  <2> QED  BY <1>7, <2>1, <2>2 DEF Yield, TypeOK
<1>8. ASSUME NEW c \in Clients, YieldBroken(c) PROVE TypeOK'
  BY <1>8, FinallyTypes DEF YieldBroken, TypeOK
<1>9. ASSUME NEW c \in Clients, RunExit(c) PROVE TypeOK'
  BY <1>9, FinallyTypes DEF RunExit, TypeOK
<1>10. ASSUME NEW c \in Clients, ArbitrateNoInterface(c) PROVE TypeOK'
  <2> DEFINE r == Head(queue[c])
  <2>1. r \in Request /\ Tail(queue[c]) \in Seq(Item)
    BY <1>10, ReceivedTypes DEF ArbitrateNoInterface, Received
  <2>2. r.vlan \in Vlans /\ r.id \in ElectionIds
    BY <1>10, <2>1 DEF ArbitrateNoInterface, Request
  <2>3. ToResponse(r.vlan, r.id, "ERROR") \in Item
    BY <2>2, ItemTypes DEF Statuses
  <2>4. Append(Tail(queue[c]), ToResponse(r.vlan, r.id, "ERROR")) \in Seq(Item)
    BY <2>1, <2>3
  <2>5. queue' \in [Clients -> Seq(Item)]
    BY <1>10, <2>4 DEF ArbitrateNoInterface, TypeOK
  <2> QED  BY <1>10, <2>5 DEF ArbitrateNoInterface, TypeOK
<1>11. ASSUME NEW c \in Clients, ArbitrateAmbiguous(c) PROVE TypeOK'
  BY <1>11, FinallyTypes DEF ArbitrateAmbiguous, TypeOK
<1>12. ASSUME NEW c \in Clients, ArbitrateBegin(c) PROVE TypeOK'
  <2>1. Head(queue[c]) \in Request /\ Tail(queue[c]) \in Seq(Item)
    BY <1>12, ReceivedTypes DEF ArbitrateBegin, Received
  <2>2. lock' \in Arbitrations
    BY <1>12, <2>1 DEF ArbitrateBegin, Arbitration, Arbitrations, Request, InterfacesOf, InterfacesIn
  <2>3. queue' \in [Clients -> Seq(Item)]
    BY <1>12, <2>1 DEF ArbitrateBegin, TypeOK
  <2> QED  BY <1>12, <2>2, <2>3 DEF ArbitrateBegin, TypeOK
<1>13. ASSUME NEW i \in Interfaces, ArbitrateStep(i) PROVE TypeOK'
  <2> DEFINE c == lock.client
             v == VlanOf[i]
  <2>1. lock \in Arbitrations /\ c \in Clients /\ lock.id \in ElectionIds /\ v \in Vlans
    BY <1>13, LockTypes, ClientConnectionsAssumption DEF ArbitrateStep
  <2>2. election' \in [Vlans -> [Clients -> ElectionIds \cup {NoBid}]]
    BY <1>13, <2>1 DEF ArbitrateStep, TypeOK
  <2>3. older' \in [Vlans -> SUBSET (Clients \X Clients)]
    BY <1>13, <2>1 DEF ArbitrateStep, TypeOK, OrderWith, Candidates
  <2>4. /\ primary' \in [Vlans -> Clients \cup {NoClient, Unset}]
        /\ queue' \in [Clients -> Seq(Item)]
    BY <1>13, <2>1, <2>2, ElectTypes DEF ArbitrateStep
  <2>5. lock' \in Arbitrations
    BY <1>13, <2>1 DEF ArbitrateStep, Arbitrations
  <2> QED  BY <1>13, <2>2, <2>3, <2>4, <2>5 DEF ArbitrateStep, TypeOK
<1>14. ASSUME ArbitrateEnd PROVE TypeOK'
  BY <1>14 DEF ArbitrateEnd, TypeOK
<1>15. ASSUME ArbitrateFails PROVE TypeOK'
  <2>1. lock.client \in Clients
    BY <1>15, LockTypes DEF ArbitrateFails
  <2> QED  BY <1>15, <2>1, FinallyTypes DEF ArbitrateFails, TypeOK
<1>16. ASSUME NEW c \in Clients, DestroyBegin(c) PROVE TypeOK'
  <2>1. election' \in [Vlans -> [Clients -> ElectionIds \cup {NoBid}]]
    BY <1>16 DEF DestroyBegin, Withdraw, TypeOK
  <2>2. older' \in [Vlans -> SUBSET (Clients \X Clients)]
    BY <1>16 DEF DestroyBegin, Withdraw, TypeOK
  <2>3. lock' \in Destructions
    BY <1>16 DEF DestroyBegin, Destruction, Destructions, LedBy
  <2> QED  BY <1>16, <2>1, <2>2, <2>3 DEF DestroyBegin, TypeOK
<1>17. ASSUME NEW v \in Vlans, DestroyStep(v) PROVE TypeOK'
  <2>1. /\ primary' \in [Vlans -> Clients \cup {NoClient, Unset}]
        /\ queue' \in [Clients -> Seq(Item)]
    BY <1>17, ElectTypes DEF DestroyStep, TypeOK
  <2>2. lock' \in Destructions
    BY <1>17, LockTypes DEF DestroyStep, Destructions
  <2> QED  BY <1>17, <2>1, <2>2 DEF DestroyStep, TypeOK
<1>18. ASSUME DestroyEnd PROVE TypeOK'
  <2>1. lock.client \in Clients
    BY <1>18, LockTypes DEF DestroyEnd
  <2> QED  BY <1>18, <2>1 DEF DestroyEnd, TypeOK
<1>19. ASSUME NEW c \in Clients, Unregister(c) PROVE TypeOK'
  BY <1>19 DEF Unregister, TypeOK
<1>20. CASE UNCHANGED vars
  BY <1>20 DEF vars, TypeOK
<1> QED
  BY <1>1, <1>2, <1>3, <1>4, <1>5, <1>6, <1>7, <1>8, <1>9, <1>10, <1>11, <1>12, <1>13,
     <1>14, <1>15, <1>16, <1>17, <1>18, <1>19, <1>20
     DEF Next, Critical, Open, Listen, Run, Arbitrate

\* Every variable keeps its type.
THEOREM TypeCorrect == Spec => []TypeOK
BY TypeInit, TypeStep, PTL DEF Spec

-----------------------------------------------------------------------------
(***************************************************************************)
(* PrimaryIsBest is not inductive: of the primary the proof needs the      *)
(* tie-break as well, which survives the departure of other candidates.    *)
(* Later invariants also need that a client that departs withdraws its     *)
(* bids before its entry goes, so the state of its handler and the owner   *)
(* of the lock come in.                                                    *)
(***************************************************************************)

\* Who is connected, and on whose behalf the lock is held.
Lifecycle ==
    /\ \A c \in Clients : handler[c] \in {"opening", "running", "closing"} <=> c \in connections
    /\ lock.op = "arbitrate" => handler[lock.client] = "running"
    /\ lock.op = "destroy" =>
          /\ handler[lock.client] = "closing"
          /\ \A v \in Vlans : election[v][lock.client] = NoBid

\* The primary is the winner of the election on the current bids, tie-break
\* included: the highest bid alone is not preserved when others withdraw, it
\* has to be known that the winner was ahead of every remaining candidate.
PrimaryWins ==
    \A v \in Vlans : ~Vacant(v) =>
        IF Candidates(election[v]) = {} THEN primary[v] \in {NoClient, Unset}
        ELSE Wins(election[v], older[v], primary[v])

\* Candidates have a connection.  It is so here because a client has one
\* connection; ClientRegistry!ElectedConnected is the property of the code.
BiddersConnected ==
    \A v \in Vlans, c \in Clients : election[v][c] # NoBid => c \in connections

IInv == TypeOK /\ Lifecycle /\ BiddersConnected /\ PrimaryWins

\* A winner has the highest bid.
LEMMA WinnerIsBest ==
    ASSUME NEW bids \in [Clients -> ElectionIds \cup {NoBid}], NEW order, NEW w,
           Wins(bids, order, w), Candidates(bids) # {}
    PROVE  w \in Candidates(bids) /\ \A c \in Candidates(bids) : bids[c] <= bids[w]
<1>1. \A c \in Candidates(bids) : bids[c] \in Int
  BY ClientConnectionsAssumption DEF Candidates
<1>2. /\ w \in Candidates(bids)
      /\ \A c \in Candidates(bids) \ {w} :
            bids[c] < bids[w] \/ bids[c] = bids[w]
  BY DEF Wins
<1>3. ASSUME NEW c \in Candidates(bids) PROVE bids[c] <= bids[w]
  <2>1. bids[c] \in Int /\ bids[w] \in Int
    BY <1>1, <1>2
  <2> QED  BY <1>2, <2>1
<1> QED  BY <1>2, <1>3

\* The winner of an election is the primary, other VLANs keep theirs.
LEMMA ElectWins ==
    ASSUME TypeOK, NEW v \in Vlans, NEW bids, NEW order, Elect(v, bids, order)
    PROVE  /\ Wins(bids, order, primary'[v])
           /\ \A u \in Vlans \ {v} : primary'[u] = primary[u]
BY DEF Elect, TypeOK

LEMMA InvInit == Init => IInv
<1> SUFFICES ASSUME Init PROVE IInv
  OBVIOUS
<1>1. lock.op = "free"
  BY DEF Init, Free
<1> QED
  BY <1>1, TypeInit DEF Init, IInv, Lifecycle, BiddersConnected, PrimaryWins, Candidates

LEMMA InvStep == IInv /\ [Next]_vars => IInv'
<1> SUFFICES ASSUME IInv, [Next]_vars PROVE IInv'
  OBVIOUS
<1>t. TypeOK /\ TypeOK'
  BY TypeStep DEF IInv
<1> DEFINE Rest == Lifecycle' /\ BiddersConnected' /\ PrimaryWins'
<1>f. lock = Free => lock.op = "free"
  BY DEF Free
<1> USE DEF server
\* Steps that leave the election, the primaries and the lock alone.
<1>a. ASSUME UNCHANGED <<server, lock>>, Lifecycle' PROVE Rest
  BY <1>a DEF IInv, BiddersConnected, PrimaryWins, Vacant
<1>1. ASSUME NEW c \in Clients, Create(c) PROVE Rest
  <2>1. Lifecycle'
    BY <1>1, <1>t, <1>f DEF Create, IInv, Lifecycle, TypeOK
  <2>2. BiddersConnected' /\ PrimaryWins'
    BY <1>1, <1>t DEF Create, IInv, BiddersConnected, PrimaryWins, Vacant
  <2> QED  BY <2>1, <2>2
<1>2. ASSUME NEW c \in Clients, StartListener(c) PROVE Rest
  <2>1. Lifecycle'
    BY <1>2, <1>t, LockTypes DEF StartListener, IInv, Lifecycle, TypeOK
  <2> QED  BY <1>2, <2>1, <1>a DEF StartListener
<1>3. ASSUME NEW c \in Clients, SnapshotFails(c) PROVE Rest
  <2>1. Lifecycle'
    BY <1>3, <1>t, LockTypes DEF SnapshotFails, IInv, Lifecycle, TypeOK
  <2> QED  BY <1>3, <2>1, <1>a DEF SnapshotFails
<1>4. ASSUME NEW c \in Clients,
             \/ \E v \in Vlans \cup {AllVlans}, e \in ElectionIds : ReceiveRequest(c, v, e)
             \/ CloseStream(c)
             \/ BreakStream(c)
             \/ Yield(c)
             \/ ArbitrateNoInterface(c)
      PROVE  Rest
  <2>1. UNCHANGED <<server, lock, handler>>
    BY <1>4 DEF ReceiveRequest, CloseStream, BreakStream, Yield, ArbitrateNoInterface
  <2>2. Lifecycle'
    BY <2>1 DEF IInv, Lifecycle
  <2> QED  BY <2>1, <2>2, <1>a
\* While c runs its queue somebody else may hold the lock, but not for c.
<1>5. ASSUME NEW c \in Clients, Finally(c), handler[c] = "running",
             lock.op = "arbitrate" => lock.client # c, UNCHANGED <<server, lock>>
      PROVE  Rest
  <2>1. Lifecycle'
    BY <1>5, <1>t, LockTypes DEF Finally, IInv, Lifecycle, TypeOK
  <2> QED  BY <1>5, <2>1, <1>a
<1>6. ASSUME NEW c \in Clients, ArbitrateAmbiguous(c) PROVE Rest
  BY <1>6, <1>5, <1>f DEF ArbitrateAmbiguous, Received
<1>7. ASSUME NEW c \in Clients, YieldBroken(c) \/ RunExit(c) PROVE Rest
  BY <1>7, <1>5 DEF YieldBroken, RunExit, Received
<1>8. ASSUME NEW c \in Clients, ArbitrateBegin(c) PROVE Rest
  <2>1. /\ lock'.op = "arbitrate" /\ lock'.client = c
        /\ handler[c] = "running" /\ lock.op = "free"
        /\ UNCHANGED <<server, handler>>
    BY <1>8, <1>f DEF ArbitrateBegin, Arbitration, Received
  <2>2. Lifecycle'
    BY <2>1 DEF IInv, Lifecycle
  <2>3. BiddersConnected' /\ PrimaryWins'
    BY <2>1 DEF IInv, BiddersConnected, PrimaryWins, Vacant
  <2> QED  BY <2>2, <2>3
<1>9. ASSUME NEW i \in Interfaces, ArbitrateStep(i) PROVE Rest
  <2> DEFINE c == lock.client
             v == VlanOf[i]
  <2>1. /\ lock \in Arbitrations /\ c \in Clients /\ lock.id \in ElectionIds /\ v \in Vlans
        /\ lock.op = "arbitrate"
    BY <1>9, <1>t, LockTypes, ClientConnectionsAssumption DEF ArbitrateStep
  <2>2. lock'.op = "arbitrate" /\ lock'.client = c /\ UNCHANGED <<connections, handler>>
    BY <1>9, <2>1 DEF ArbitrateStep, Arbitrations
  <2>3. Lifecycle'
    BY <2>1, <2>2 DEF IInv, Lifecycle
  <2>4. c \in connections
    BY <2>1 DEF IInv, Lifecycle
  <2>5. election' = [election EXCEPT ![v][c] = lock.id]
        /\ older' = [older EXCEPT ![v] = OrderWith(v, c)]
    BY <1>9 DEF ArbitrateStep
  <2>6. BiddersConnected'
    BY <2>1, <2>2, <2>4, <2>5, <1>t DEF IInv, BiddersConnected, TypeOK
  <2>7. /\ Wins(election'[v], older'[v], primary'[v])
        /\ \A u \in Vlans \ {v} : primary'[u] = primary[u]
    BY <1>9, <1>t, <2>1, ElectWins DEF ArbitrateStep
  <2>8. \A u \in Vlans \ {v} : election'[u] = election[u] /\ older'[u] = older[u]
    BY <2>5, <1>t DEF TypeOK
  <2>9. PrimaryWins'
    <3> SUFFICES ASSUME NEW u \in Vlans
                 PROVE  IF Candidates(election'[u]) = {} THEN primary'[u] \in {NoClient, Unset}
                        ELSE Wins(election'[u], older'[u], primary'[u])
      BY DEF PrimaryWins, Candidates
    <3>1. CASE u = v
      BY <3>1, <2>7 DEF Wins
    <3>2. CASE u # v
      BY <3>2, <2>1, <2>7, <2>8 DEF IInv, PrimaryWins, Vacant
    <3> QED  BY <3>1, <3>2
  <2> QED  BY <2>3, <2>6, <2>9
<1>10. ASSUME ArbitrateEnd PROVE Rest
  <2>1. lock.op = "arbitrate" /\ lock'.op = "free" /\ UNCHANGED <<server, handler>>
    BY <1>10 DEF ArbitrateEnd, Free
  <2> QED  BY <2>1 DEF IInv, Lifecycle, BiddersConnected, PrimaryWins, Vacant
<1>11. ASSUME ArbitrateFails PROVE Rest
  <2>1. lock.op = "arbitrate" /\ lock'.op = "free" /\ UNCHANGED server
    BY <1>11 DEF ArbitrateFails, Free
  <2>2. lock.client \in Clients /\ handler[lock.client] = "running"
    BY <2>1, <1>t, LockTypes DEF IInv, Lifecycle
  <2>3. handler' = [handler EXCEPT ![lock.client] = "closing"]
    BY <1>11 DEF ArbitrateFails, Finally
  <2>4. Lifecycle'
    BY <2>1, <2>2, <2>3, <1>t DEF IInv, Lifecycle, TypeOK
  <2>5. BiddersConnected' /\ PrimaryWins'
    BY <2>1 DEF IInv, BiddersConnected, PrimaryWins, Vacant
  <2> QED  BY <2>4, <2>5
<1>12. ASSUME NEW c \in Clients, DestroyBegin(c) PROVE Rest
  <2>1. /\ handler[c] = "closing" /\ lock.op = "free"
        /\ UNCHANGED <<connections, primary, handler>>
        /\ election' = [v \in Vlans |-> [election[v] EXCEPT ![c] = NoBid]]
        /\ older' = [v \in Vlans |-> {p \in older[v] : c \notin {p[1], p[2]}}]
        /\ lock'.op = "destroy" /\ lock'.client = c
        /\ lock'.todo = {v \in Vlans : primary[v] = c}
    BY <1>12, <1>f DEF DestroyBegin, Withdraw, Destruction, LedBy
  <2>2. \A v \in Vlans : /\ election[v] \in [Clients -> ElectionIds \cup {NoBid}]
                        /\ election'[v][c] = NoBid
                        /\ \A d \in Clients \ {c} : election'[v][d] = election[v][d]
    BY <2>1, <1>t DEF TypeOK
  <2>3. Lifecycle'
    BY <2>1, <2>2 DEF IInv, Lifecycle
  <2>4. BiddersConnected'
    BY <2>1, <2>2 DEF IInv, BiddersConnected
  <2>5. PrimaryWins'
    <3> SUFFICES ASSUME NEW v \in Vlans, primary[v] # c
                 PROVE  IF Candidates(election'[v]) = {} THEN primary[v] \in {NoClient, Unset}
                        ELSE Wins(election'[v], older'[v], primary[v])
      BY <2>1 DEF PrimaryWins, Vacant, Candidates
    <3>1. IF Candidates(election[v]) = {} THEN primary[v] \in {NoClient, Unset}
          ELSE Wins(election[v], older[v], primary[v])
      BY <2>1 DEF IInv, PrimaryWins, Vacant
    <3>2. Candidates(election'[v]) = Candidates(election[v]) \ {c}
      BY <2>2 DEF Candidates
    <3>3. CASE Candidates(election[v]) = {}
      BY <3>1, <3>2, <3>3
    <3>4. CASE Candidates(election[v]) # {}
      <4> DEFINE w == primary[v]
      <4>1. /\ w \in Candidates(election'[v])
            /\ w \in Clients \ {c}
            /\ \A d \in Candidates(election[v]) \ {w} :
                  \/ election[v][d] < election[v][w]
                  \/ election[v][d] = election[v][w] /\ <<d, w>> \in older[v]
        BY <3>1, <3>2, <3>4 DEF Wins, Candidates
      <4>2. older'[v] = {p \in older[v] : c \notin {p[1], p[2]}}
        BY <2>1
      <4>3. ASSUME NEW d \in Candidates(election'[v]) \ {w}
            PROVE  \/ election'[v][d] < election'[v][w]
                   \/ election'[v][d] = election'[v][w] /\ <<d, w>> \in older'[v]
        <5>1. d \in Clients \ {c} /\ d \in Candidates(election[v]) \ {w}
          BY <3>2 DEF Candidates
        <5>2. election'[v][d] = election[v][d] /\ election'[v][w] = election[v][w]
          BY <5>1, <4>1, <2>2
        <5>3. <<d, w>> \in older[v] => <<d, w>> \in older'[v]
          BY <5>1, <4>1, <4>2
        <5> QED  BY <5>1, <5>2, <5>3, <4>1
      <4> QED  BY <4>1, <4>3 DEF Wins
    <3> QED  BY <3>3, <3>4
  <2> QED  BY <2>3, <2>4, <2>5
<1>13. ASSUME NEW v \in Vlans, DestroyStep(v) PROVE Rest
  <2>1. /\ lock.op = "destroy" /\ lock \in Destructions
        /\ UNCHANGED <<connections, election, older, handler>>
        /\ lock'.op = "destroy" /\ lock'.client = lock.client /\ lock'.todo = lock.todo \ {v}
    BY <1>13, <1>t, LockTypes DEF DestroyStep, Destructions
  <2>2. /\ Wins(election[v], older[v], primary'[v])
        /\ \A u \in Vlans \ {v} : primary'[u] = primary[u]
    BY <1>13, <1>t, ElectWins DEF DestroyStep
  <2>3. Lifecycle'
    BY <2>1 DEF IInv, Lifecycle
  <2>4. BiddersConnected'
    BY <2>1 DEF IInv, BiddersConnected
  <2>5. PrimaryWins'
    <3> SUFFICES ASSUME NEW u \in Vlans, u \notin lock'.todo
                 PROVE  IF Candidates(election[u]) = {} THEN primary'[u] \in {NoClient, Unset}
                        ELSE Wins(election[u], older[u], primary'[u])
      BY <2>1 DEF PrimaryWins, Vacant, Candidates
    <3>1. CASE u = v
      BY <3>1, <2>2 DEF Wins
    <3>2. CASE u # v
      BY <3>2, <2>1, <2>2 DEF IInv, PrimaryWins, Vacant
    <3> QED  BY <3>1, <3>2
  <2> QED  BY <2>3, <2>4, <2>5
<1>14. ASSUME DestroyEnd PROVE Rest
  <2> DEFINE c == lock.client
  <2>1. /\ lock.op = "destroy" /\ c \in Clients /\ lock.todo = {} /\ lock'.op = "free"
        /\ UNCHANGED <<election, older, primary>>
        /\ connections' = connections \ {c}
        /\ handler' = [handler EXCEPT ![c] = "leaving"]
    BY <1>14, <1>t, LockTypes DEF DestroyEnd, Free
  <2>2. Lifecycle'
    BY <2>1, <1>t DEF IInv, Lifecycle, TypeOK
  <2>3. BiddersConnected'
    BY <2>1 DEF IInv, Lifecycle, BiddersConnected
  <2>4. PrimaryWins'
    BY <2>1 DEF IInv, PrimaryWins, Vacant
  <2> QED  BY <2>2, <2>3, <2>4
\* The last one to leave finds no bids, so nothing is lost with the registry's entry.
<1>15. ASSUME NEW c \in Clients, Unregister(c) PROVE Rest
  <2>1. /\ handler[c] = "leaving" /\ handler' = [handler EXCEPT ![c] = "idle"]
        /\ UNCHANGED <<connections, election, older, lock>>
        /\ IF connections = {} THEN primary' = [v \in Vlans |-> Unset] ELSE primary' = primary
    BY <1>15 DEF Unregister
  <2>2. Lifecycle'
    BY <2>1, <1>t, LockTypes DEF IInv, Lifecycle, TypeOK
  <2>3. BiddersConnected'
    BY <2>1 DEF IInv, BiddersConnected
  <2>4. CASE connections = {}
    <3>1. \A v \in Vlans : Candidates(election[v]) = {} /\ primary'[v] = Unset
      BY <2>1, <2>4 DEF IInv, BiddersConnected, Candidates
    <3>2. PrimaryWins'
      BY <2>1, <3>1 DEF PrimaryWins, Candidates
    <3> QED  BY <2>2, <2>3, <3>2
  <2>5. CASE connections # {}
    <3>1. PrimaryWins'
      BY <2>1, <2>5 DEF IInv, PrimaryWins, Vacant
    <3> QED  BY <2>2, <2>3, <3>1
  <2> QED  BY <2>4, <2>5
<1>16. ASSUME UNCHANGED vars PROVE Rest
  <2>1. UNCHANGED <<server, lock, handler>>
    BY <1>16 DEF vars
  <2>2. Lifecycle'
    BY <2>1 DEF IInv, Lifecycle
  <2> QED  BY <2>1, <2>2, <1>a
<1>17. Rest
  BY <1>1, <1>2, <1>3, <1>4, <1>6, <1>7, <1>8, <1>9, <1>10, <1>11, <1>12, <1>13, <1>14,
     <1>15, <1>16 DEF Next, Critical, Open, Listen, Run, Arbitrate
<1> QED  BY <1>t, <1>17 DEF IInv

\* The strengthened invariant holds in every reachable state.
THEOREM InvCorrect == Spec => []IInv
BY InvInit, InvStep, PTL DEF Spec

\* The primary of every VLAN has the highest of the current bids.
THEOREM PrimaryIsCorrect == Spec => []PrimaryIsBest
<1>1. IInv => PrimaryIsBest
  <2> SUFFICES ASSUME IInv, NEW v \in Vlans, ~Vacant(v), Candidates(election[v]) # {}
               PROVE  /\ primary[v] \in Candidates(election[v])
                      /\ \A c \in Candidates(election[v]) :
                            election[v][c] <= election[v][primary[v]]
    BY DEF IInv, PrimaryWins, PrimaryIsBest
  <2>1. Wins(election[v], older[v], primary[v])
    BY DEF IInv, PrimaryWins
  <2>2. election[v] \in [Clients -> ElectionIds \cup {NoBid}]
    BY DEF IInv, TypeOK
  <2> QED  BY <2>1, <2>2, WinnerIsBest
<1> QED  BY <1>1, InvCorrect, PTL

\* Permission to write a VLAN's policies is given to the connected client with
\* the highest bid only (client_connection.py:219-222, peering.py:203, 236).
THEOREM GrantsAreBest == Spec => []GrantedIsBest
<1>1. ASSUME IInv, NEW c \in Clients, NEW v \in Vlans, Granted(c, v)
      PROVE  /\ c \in connections /\ election[v][c] # NoBid
             /\ \A d \in Candidates(election[v]) : election[v][d] <= election[v][c]
  <2>1. ~Vacant(v) /\ primary[v] = c
    BY <1>1, ClientConnectionsAssumption DEF Granted, is_primary_client, Vacant, Free
  <2>2. Candidates(election[v]) # {}
    BY <1>1, <2>1, ClientConnectionsAssumption DEF IInv, PrimaryWins
  <2>3. Wins(election[v], older[v], c)
    BY <1>1, <2>1, <2>2 DEF IInv, PrimaryWins
  <2>4. election[v] \in [Clients -> ElectionIds \cup {NoBid}]
    BY <1>1 DEF IInv, TypeOK
  <2>5. /\ c \in Candidates(election[v])
        /\ \A d \in Candidates(election[v]) : election[v][d] <= election[v][c]
    BY <2>2, <2>3, <2>4, WinnerIsBest
  <2> QED  BY <1>1, <2>5 DEF Candidates, IInv, BiddersConnected
<1>2. IInv => GrantedIsBest
  BY <1>1 DEF GrantedIsBest
<1> QED  BY <1>2, InvCorrect, PTL

-----------------------------------------------------------------------------
(***************************************************************************)
(* What the two dictionaries of _arbitrate decide.  Candidates are totally *)
(* ordered by their bids and, among equals, by the time they joined; on    *)
(* this order rest that a primary is not unseated without reason and that  *)
(* the streams and the lock implement the promise of module Arbitration.   *)
(***************************************************************************)

\* w is ahead of c.
Beats(bids, order, w, c) ==
    \/ bids[c] < bids[w]
    \/ bids[c] = bids[w] /\ <<c, w>> \in order

\* The dictionary's keys are in one order, and only candidates are in it.
Ordered(C, order) ==
    /\ order \subseteq C \X C
    /\ \A c, d \in C : c # d => (<<c, d>> \in order <=> <<d, c>> \notin order)
    /\ \A b, c, d \in C : <<b, c>> \in order /\ <<c, d>> \in order => <<b, d>> \in order

\* Of any candidates one is ahead of the others.  There are finitely many, which
\* this says without counting them: each was added by a step.
HasBest(C, bids, order) ==
    \A S \in SUBSET C : S # {} => \E w \in S : \A c \in S \ {w} : Beats(bids, order, w, c)

CandidatesOrdered ==
    \A v \in Vlans :
        /\ Ordered(Candidates(election[v]), older[v])
        /\ HasBest(Candidates(election[v]), election[v], older[v])

\* The VLANs left without a primary are those that the departing client led.
VacantLed == lock.op = "destroy" => \A v \in lock.todo : primary[v] = lock.client

OrderInv == IInv /\ CandidatesOrdered /\ VacantLed

Bids == [Clients -> ElectionIds \cup {NoBid}]

-----------------------------------------------------------------------------
\* Beats is a strict total order of the candidates.

LEMMA BeatsOrders ==
    ASSUME NEW bids \in Bids, NEW order, Ordered(Candidates(bids), order),
           NEW w \in Candidates(bids), NEW x \in Candidates(bids), NEW d \in Candidates(bids)
    PROVE  /\ w # x => (Beats(bids, order, w, x) <=> ~Beats(bids, order, x, w))
           /\ Beats(bids, order, w, x) /\ Beats(bids, order, x, d) => Beats(bids, order, w, d)
<1>1. \A c \in Candidates(bids) : bids[c] \in Int
  BY ClientConnectionsAssumption DEF Candidates, Bids
<1>2. bids[w] \in Int /\ bids[x] \in Int /\ bids[d] \in Int
  BY <1>1
<1>3. /\ w # x => (<<w, x>> \in order <=> <<x, w>> \notin order)
      /\ <<d, x>> \in order /\ <<x, w>> \in order => <<d, w>> \in order
  BY DEF Ordered
<1> QED  BY <1>2, <1>3 DEF Beats

\* A winner is a candidate ahead of the others.
LEMMA WinsIsBest ==
    ASSUME NEW bids, NEW order, NEW w
    PROVE  Wins(bids, order, w) <=>
               \/ Candidates(bids) = {} /\ w = NoClient
               \/ /\ w \in Candidates(bids)
                  /\ \A c \in Candidates(bids) \ {w} : Beats(bids, order, w, c)
BY DEF Wins, Beats

\* There is one winner ...
LEMMA WinnerIsUnique ==
    ASSUME NEW bids \in Bids, NEW order, Ordered(Candidates(bids), order),
           NEW w, NEW x, Wins(bids, order, w), Wins(bids, order, x)
    PROVE  w = x
<1>1. CASE Candidates(bids) = {}
  BY <1>1, WinsIsBest
<1>2. CASE Candidates(bids) # {}
  <2>1. w \in Candidates(bids) /\ x \in Candidates(bids)
    BY <1>2, WinsIsBest
  <2>2. ASSUME w # x PROVE FALSE
    <3>1. Beats(bids, order, w, x) /\ Beats(bids, order, x, w)
      BY <2>1, <2>2, WinsIsBest
    <3> QED  BY <2>1, <2>2, <3>1, BeatsOrders
  <2> QED  BY <2>2
<1> QED  BY <1>1, <1>2

\* ... and it exists.
LEMMA WinnerExists ==
    ASSUME NEW bids, NEW order, HasBest(Candidates(bids), bids, order)
    PROVE  \E w \in Clients \cup {NoClient} : Wins(bids, order, w)
<1>1. CASE Candidates(bids) = {}
  BY <1>1 DEF Wins
<1>2. CASE Candidates(bids) # {}
  <2>1. PICK w \in Candidates(bids) : \A c \in Candidates(bids) \ {w} : Beats(bids, order, w, c)
    BY <1>2 DEF HasBest
  <2>2. w \in Clients
    BY DEF Candidates
  <2> QED  BY <2>1, <2>2, WinsIsBest
<1> QED  BY <1>1, <1>2

-----------------------------------------------------------------------------
\* Both survive a bid, which adds a candidate at the end or leaves it its place.
LEMMA BidKeepsOrder ==
    ASSUME NEW bids \in Bids, NEW order, NEW c \in Clients, NEW e \in ElectionIds,
           NEW bids2, bids2 = [bids EXCEPT ![c] = e],
           NEW order2,
           order2 = IF bids[c] = NoBid THEN order \cup ((Candidates(bids) \ {c}) \X {c}) ELSE order,
           Ordered(Candidates(bids), order), HasBest(Candidates(bids), bids, order)
    PROVE  Ordered(Candidates(bids2), order2) /\ HasBest(Candidates(bids2), bids2, order2)
<1>1. /\ bids2 \in Bids /\ bids2[c] = e
      /\ \A d \in Clients \ {c} : bids2[d] = bids[d]
  BY DEF Bids
<1>2. Candidates(bids2) = Candidates(bids) \cup {c}
  BY <1>1, ClientConnectionsAssumption DEF Candidates
<1>3. Candidates(bids) \subseteq Clients
  BY DEF Candidates
<1>4. Ordered(Candidates(bids2), order2)
  <2>1. CASE bids[c] # NoBid
    <3>1. Candidates(bids2) = Candidates(bids)
      BY <1>2, <2>1 DEF Candidates
    <3> QED  BY <2>1, <3>1
  <2>2. CASE bids[c] = NoBid
    <3>1. c \notin Candidates(bids) /\ order2 = order \cup (Candidates(bids) \X {c})
      BY <2>2 DEF Candidates
    <3> HIDE DEF Candidates
    <3>2. \A a, b : <<a, b>> \in order2 <=> (<<a, b>> \in order \/ (a \in Candidates(bids) /\ b = c))
      BY <3>1
    <3>3. \A a, b : <<a, b>> \in order => a \in Candidates(bids) /\ b \in Candidates(bids)
      BY DEF Ordered
    <3>4. order2 \subseteq Candidates(bids2) \X Candidates(bids2)
      BY <1>2, <3>1 DEF Ordered
    <3>5. ASSUME NEW a \in Candidates(bids2), NEW b \in Candidates(bids2), a # b
          PROVE  <<a, b>> \in order2 <=> <<b, a>> \notin order2
      BY <1>2, <3>1, <3>2, <3>3, <3>5 DEF Ordered
    <3>6. ASSUME NEW a \in Candidates(bids2), NEW b \in Candidates(bids2), NEW d \in Candidates(bids2),
                 <<a, b>> \in order2, <<b, d>> \in order2
          PROVE  <<a, d>> \in order2
      BY <1>2, <3>1, <3>2, <3>3, <3>6 DEF Ordered
    <3> QED  BY ONLY <3>4, <3>5, <3>6 DEF Ordered
  <2> QED  BY <2>1, <2>2
<1>5. ASSUME NEW w \in Candidates(bids) \ {c}, NEW d \in Candidates(bids) \ {c}
      PROVE  Beats(bids, order, w, d) => Beats(bids2, order2, w, d)
  <2>1. bids2[w] = bids[w] /\ bids2[d] = bids[d] /\ order \subseteq order2
    BY <1>1, <1>3
  <2> QED  BY <2>1 DEF Beats
<1>6. HasBest(Candidates(bids2), bids2, order2)
  <2> SUFFICES ASSUME NEW S \in SUBSET Candidates(bids2), S # {}
               PROVE  \E w \in S : \A d \in S \ {w} : Beats(bids2, order2, w, d)
    BY DEF HasBest
  <2> DEFINE R == S \ {c}
  <2>1. R \in SUBSET Candidates(bids)
    BY <1>2
  <2>2. CASE R = {}
    BY <2>2
  <2>3. CASE R # {}
    <3>1. PICK w \in R : \A d \in R \ {w} : Beats(bids, order, w, d)
      BY <2>1, <2>3 DEF HasBest
    <3>2. \A d \in R \ {w} : Beats(bids2, order2, w, d)
      BY <1>5, <2>1, <3>1
    <3>3. CASE c \notin S \/ Beats(bids2, order2, w, c)
      BY <3>1, <3>2, <3>3
    <3>4. CASE c \in S /\ ~Beats(bids2, order2, w, c)
      <4>1. w \in Candidates(bids2) /\ c \in Candidates(bids2) /\ w # c
        BY <3>1, <3>4
      <4>2. Beats(bids2, order2, c, w)
        BY <1>1, <1>4, <3>4, <4>1, BeatsOrders
      <4>3. ASSUME NEW d \in R \ {w} PROVE Beats(bids2, order2, c, d)
        <5>1. Beats(bids2, order2, w, d) /\ d \in Candidates(bids2)
          BY <3>2
        <5> QED  BY <1>1, <1>4, <4>1, <4>2, <5>1, BeatsOrders
      <4> QED  BY <3>4, <4>2, <4>3
    <3> QED  BY <3>3, <3>4
  <2> QED  BY <2>2, <2>3
<1> QED  BY <1>4, <1>6

\* They survive a withdrawal.
LEMMA WithdrawalKeepsOrder ==
    ASSUME NEW bids \in Bids, NEW order, NEW c \in Clients,
           NEW bids2, bids2 = [bids EXCEPT ![c] = NoBid],
           NEW order2, order2 = {p \in order : c \notin {p[1], p[2]}},
           Ordered(Candidates(bids), order), HasBest(Candidates(bids), bids, order)
    PROVE  Ordered(Candidates(bids2), order2) /\ HasBest(Candidates(bids2), bids2, order2)
<1>1. \A d \in Clients \ {c} : bids2[d] = bids[d]
  BY DEF Bids
<1>2. Candidates(bids2) = Candidates(bids) \ {c}
  BY <1>1 DEF Candidates, Bids
<1>3. Candidates(bids) \subseteq Clients
  BY DEF Candidates
<1>4. \A a, b : <<a, b>> \in order2 <=> (<<a, b>> \in order /\ a # c /\ b # c)
  OBVIOUS
<1>5. Ordered(Candidates(bids2), order2)
  <2>1. order2 \subseteq Candidates(bids2) \X Candidates(bids2)
    BY <1>2 DEF Ordered
  <2> HIDE DEF Candidates
  <2>2. ASSUME NEW a \in Candidates(bids2), NEW b \in Candidates(bids2), a # b
        PROVE  <<a, b>> \in order2 <=> <<b, a>> \notin order2
    BY <1>2, <1>4, <2>2 DEF Ordered
  <2>3. ASSUME NEW a \in Candidates(bids2), NEW b \in Candidates(bids2), NEW d \in Candidates(bids2),
               <<a, b>> \in order2, <<b, d>> \in order2
        PROVE  <<a, d>> \in order2
    BY <1>2, <1>4, <2>3 DEF Ordered
  <2> QED  BY ONLY <2>1, <2>2, <2>3 DEF Ordered
<1>6. ASSUME NEW w \in Candidates(bids2), NEW d \in Candidates(bids2), Beats(bids, order, w, d)
      PROVE  Beats(bids2, order2, w, d)
  BY <1>1, <1>2, <1>3, <1>4, <1>6 DEF Beats
<1>7. HasBest(Candidates(bids2), bids2, order2)
  <2> SUFFICES ASSUME NEW S \in SUBSET Candidates(bids2), S # {}
               PROVE  \E w \in S : \A d \in S \ {w} : Beats(bids2, order2, w, d)
    BY DEF HasBest
  <2>1. PICK w \in S : \A d \in S \ {w} : Beats(bids, order, w, d)
    BY <1>2 DEF HasBest
  <2> QED  BY <1>6, <2>1
<1> QED  BY <1>5, <1>7
-----------------------------------------------------------------------------
\* A step that neither bids nor elects nor leaves, and locks no departing client out.
Quiet ==
    /\ UNCHANGED <<election, older, primary>>
    /\ lock'.op = "destroy" => lock' = lock
    /\ \A v \in Vlans : Vacant(v)' <=> Vacant(v)

LEMMA Steps ==
    ASSUME IInv, [Next]_vars
    PROVE  \/ Quiet
           \/ \E i \in Interfaces : ArbitrateStep(i)
           \/ \E v \in Vlans : DestroyStep(v)
           \/ \E c \in Clients : DestroyBegin(c)
           \/ \E c \in Clients : Unregister(c)
<1>t. TypeOK /\ (lock = Free => lock.op = "free")
  BY DEF IInv, Free
<1>1. ASSUME UNCHANGED <<server, lock>> PROVE Quiet
  BY <1>1 DEF server, Quiet, Vacant
<1>2. ASSUME UNCHANGED <<election, older, primary>>, lock'.op # "destroy",
             lock.op # "destroy" \/ lock.todo = {}
      PROVE  Quiet
  BY <1>2 DEF Quiet, Vacant
<1>3. ASSUME NEW c \in Clients, Create(c) PROVE Quiet
  BY <1>3, <1>t, <1>2 DEF Create
<1>4. ASSUME NEW c \in Clients, ArbitrateBegin(c) PROVE Quiet
  <2>1. lock'.op = "arbitrate" /\ lock.op = "free"
    BY <1>4, <1>t DEF ArbitrateBegin, Arbitration
  <2> QED  BY <1>4, <2>1, <1>2 DEF ArbitrateBegin, server
<1>5. ASSUME ArbitrateEnd \/ ArbitrateFails PROVE Quiet
  <2>1. lock'.op = "free" /\ lock.op = "arbitrate"
    BY <1>5 DEF ArbitrateEnd, ArbitrateFails, Free
  <2> QED  BY <1>5, <2>1, <1>2 DEF ArbitrateEnd, ArbitrateFails, server
<1>6. ASSUME DestroyEnd PROVE Quiet
  <2>1. lock'.op = "free" /\ lock.todo = {}
    BY <1>6 DEF DestroyEnd, Free
  <2> QED  BY <1>6, <2>1, <1>2 DEF DestroyEnd
<1>7. ASSUME NEW c \in Clients, StartListener(c) \/ SnapshotFails(c) \/ Listen(c) \/ Run(c)
             \/ ArbitrateNoInterface(c) \/ ArbitrateAmbiguous(c)
      PROVE  Quiet
  <2>1. UNCHANGED <<server, lock>>
    BY <1>7 DEF StartListener, SnapshotFails, Listen, ReceiveRequest, CloseStream, BreakStream,
         Run, Yield, YieldBroken, RunExit, ArbitrateNoInterface, ArbitrateAmbiguous
  <2> QED  BY <2>1, <1>1
<1>8. ASSUME UNCHANGED vars PROVE Quiet
  BY <1>8, <1>1 DEF vars
<1> QED
  BY <1>3, <1>4, <1>5, <1>6, <1>7, <1>8 DEF Next, Critical, Open, Arbitrate

LEMMA OrderInit == Init => OrderInv
<1> SUFFICES ASSUME Init PROVE OrderInv
  OBVIOUS
<1>1. \A v \in Vlans : Candidates(election[v]) = {} /\ older[v] = {}
  BY DEF Init, Candidates
<1>2. CandidatesOrdered
  BY <1>1 DEF CandidatesOrdered, Ordered, HasBest
<1>3. VacantLed
  BY DEF Init, Free, VacantLed
<1> QED  BY <1>2, <1>3, InvInit DEF OrderInv

LEMMA OrderStep == OrderInv /\ [Next]_vars => OrderInv'
<1> SUFFICES ASSUME OrderInv, [Next]_vars PROVE OrderInv'
  OBVIOUS
<1>i. IInv /\ IInv' /\ TypeOK
  BY InvStep DEF OrderInv, IInv
<1>b. \A v \in Vlans : election[v] \in Bids
  BY <1>i DEF TypeOK, Bids
<1>s. ASSUME NEW v \in Vlans, election'[v] = election[v], older'[v] = older[v]
      PROVE  /\ Ordered(Candidates(election'[v]), older'[v])
             /\ HasBest(Candidates(election'[v]), election'[v], older'[v])
  BY <1>s DEF OrderInv, CandidatesOrdered
<1>1. ASSUME Quiet PROVE CandidatesOrdered' /\ VacantLed'
  <2>1. CandidatesOrdered'
    BY <1>1 DEF Quiet, OrderInv, CandidatesOrdered, Candidates, Beats, HasBest
  <2> QED  BY <1>1, <2>1 DEF Quiet, OrderInv, VacantLed
<1>2. ASSUME NEW i \in Interfaces, ArbitrateStep(i) PROVE CandidatesOrdered' /\ VacantLed'
  <2> DEFINE c == lock.client
             u == VlanOf[i]
  <2>1. /\ lock \in Arbitrations /\ c \in Clients /\ lock.id \in ElectionIds /\ u \in Vlans
    BY <1>2, <1>i, LockTypes, ClientConnectionsAssumption DEF ArbitrateStep
  <2>2. /\ election' = [election EXCEPT ![u][c] = lock.id]
        /\ older' = [older EXCEPT ![u] = OrderWith(u, c)]
        /\ lock'.op = "arbitrate"
    BY <1>2, <2>1 DEF ArbitrateStep, Arbitrations
  <2>3. /\ election'[u] = [election[u] EXCEPT ![c] = lock.id]
        /\ older'[u] = OrderWith(u, c)
        /\ \A v \in Vlans \ {u} : election'[v] = election[v] /\ older'[v] = older[v]
    BY <2>1, <2>2, <1>i DEF TypeOK
  <2>4. OrderWith(u, c) = IF election[u][c] = NoBid
                          THEN older[u] \cup ((Candidates(election[u]) \ {c}) \X {c}) ELSE older[u]
    BY DEF OrderWith, Candidates
  <2>5. /\ Ordered(Candidates(election'[u]), older'[u])
        /\ HasBest(Candidates(election'[u]), election'[u], older'[u])
    <3>1. /\ Ordered(Candidates(election[u]), older[u])
          /\ HasBest(Candidates(election[u]), election[u], older[u])
      BY <2>1 DEF OrderInv, CandidatesOrdered
    <3> HIDE DEF c, u
    <3> QED  BY <1>b, <2>1, <2>3, <2>4, <3>1, BidKeepsOrder
  <2>6. ASSUME NEW v \in Vlans
        PROVE  /\ Ordered(Candidates(election'[v]), older'[v])
               /\ HasBest(Candidates(election'[v]), election'[v], older'[v])
    <3>1. CASE v = u
      BY <2>5, <3>1
    <3>2. CASE v # u
      BY <1>s, <2>3, <3>2
    <3> QED  BY <3>1, <3>2
  <2>7. CandidatesOrdered'
    BY <2>6 DEF CandidatesOrdered, Candidates, Beats, HasBest
  <2> QED  BY <2>2, <2>7 DEF VacantLed
<1>3. ASSUME NEW u \in Vlans, DestroyStep(u) PROVE CandidatesOrdered' /\ VacantLed'
  <2>1. /\ lock.op = "destroy" /\ UNCHANGED <<election, older>>
        /\ lock'.client = lock.client /\ lock'.todo = lock.todo \ {u}
        /\ lock.todo \subseteq Vlans
    BY <1>3, <1>i, LockTypes DEF DestroyStep, Destructions
  <2>2. \A v \in Vlans \ {u} : primary'[v] = primary[v]
    BY <1>3, <1>i, ElectWins DEF DestroyStep
  <2>3. CandidatesOrdered'
    BY ONLY OrderInv, <2>1 DEF OrderInv, CandidatesOrdered, Candidates, Beats, HasBest
  <2>4. VacantLed'
    BY <2>1, <2>2 DEF OrderInv, VacantLed
  <2> QED  BY <2>3, <2>4
<1>4. ASSUME NEW c \in Clients, DestroyBegin(c) PROVE CandidatesOrdered' /\ VacantLed'
  <2>1. /\ election' = [v \in Vlans |-> [election[v] EXCEPT ![c] = NoBid]]
        /\ older' = [v \in Vlans |-> {p \in older[v] : c \notin {p[1], p[2]}}]
        /\ UNCHANGED primary
        /\ lock'.client = c /\ lock'.todo = {v \in Vlans : primary[v] = c}
    BY <1>4 DEF DestroyBegin, Withdraw, Destruction, LedBy
  <2>2. ASSUME NEW v \in Vlans
        PROVE  /\ Ordered(Candidates(election'[v]), older'[v])
               /\ HasBest(Candidates(election'[v]), election'[v], older'[v])
    <3>1. /\ Ordered(Candidates(election[v]), older[v])
          /\ HasBest(Candidates(election[v]), election[v], older[v])
      BY DEF OrderInv, CandidatesOrdered
    <3> QED  BY <1>b, <2>1, <3>1, WithdrawalKeepsOrder
  <2>3. CandidatesOrdered'
    BY <2>2 DEF CandidatesOrdered, Candidates, Beats, HasBest
  <2> QED  BY <2>1, <2>3 DEF VacantLed
<1>5. ASSUME NEW c \in Clients, Unregister(c) PROVE CandidatesOrdered' /\ VacantLed'
  <2>1. /\ UNCHANGED <<election, older, lock, connections>>
        /\ primary' = primary \/ connections = {}
    BY <1>5 DEF Unregister
  <2>2. CandidatesOrdered'
    <3>1. \A v \in Vlans : /\ Ordered(Candidates(election'[v]), older'[v])
                          /\ HasBest(Candidates(election'[v]), election'[v], older'[v])
      BY <2>1, <1>s
    <3> QED  BY <3>1 DEF CandidatesOrdered, Candidates, Beats, HasBest
  <2>3. lock.op = "destroy" => lock.client \in connections
    BY <1>i, LockTypes DEF IInv, Lifecycle
  <2>4. VacantLed'
    BY <2>1, <2>3 DEF OrderInv, VacantLed
  <2> QED  BY <2>2, <2>4
<1>6. CandidatesOrdered' /\ VacantLed'
  BY <1>i, <1>1, <1>2, <1>3, <1>4, <1>5, Steps
<1> QED  BY <1>i, <1>6 DEF OrderInv

\* Candidates stay totally ordered, in every reachable state.
LEMMA OrderCorrect == Spec => []OrderInv
BY OrderInit, OrderStep, PTL DEF Spec

-----------------------------------------------------------------------------
\* A bid changes the winner only if the winner lowers its own, or if it is the
\* bidder who wins, with a new bid.
LEMMA BidUnseats ==
    ASSUME NEW bids \in Bids, NEW order, NEW c \in Clients, NEW e \in ElectionIds,
           NEW bids2, bids2 = [bids EXCEPT ![c] = e],
           NEW order2,
           order2 = IF bids[c] = NoBid THEN order \cup ((Candidates(bids) \ {c}) \X {c}) ELSE order,
           Ordered(Candidates(bids), order), Ordered(Candidates(bids2), order2),
           NEW p \in Clients, Wins(bids, order, p),
           NEW q, Wins(bids2, order2, q), p # q
    PROVE  \/ c = p /\ e < bids[p]
           \/ c = q /\ e >= bids[p] /\ e # bids[c]
<1>1. /\ bids2 \in Bids /\ bids2[c] = e
      /\ \A d \in Clients \ {c} : bids2[d] = bids[d]
  BY DEF Bids
<1>2. Candidates(bids2) = Candidates(bids) \cup {c}
  BY <1>1, ClientConnectionsAssumption DEF Candidates
<1>3. /\ p \in Candidates(bids)
      /\ \A d \in Candidates(bids) \ {p} : Beats(bids, order, p, d)
  BY WinsIsBest, ClientConnectionsAssumption
<1>4. /\ q \in Candidates(bids2)
      /\ \A d \in Candidates(bids2) \ {q} : Beats(bids2, order2, q, d)
  BY <1>2, WinsIsBest
<1>5. Candidates(bids) \subseteq Clients /\ (c \in Candidates(bids) => order2 = order)
  BY DEF Candidates
<1>6. \A d \in Candidates(bids) : bids[d] \in Int
  BY ClientConnectionsAssumption DEF Candidates, Bids
<1>7. e \in Int
  BY ClientConnectionsAssumption
<1>8. CASE c = p
  <2>1. ASSUME bids[p] <= e PROVE FALSE
    <3>1. q \in Candidates(bids) \ {p} /\ p \in Candidates(bids2)
      BY <1>2, <1>3, <1>4, <1>8
    <3>2. Beats(bids, order, p, q) /\ Beats(bids2, order2, q, p)
      BY <1>3, <1>4, <3>1
    <3>3. bids2[q] = bids[q] /\ bids2[p] = e /\ order2 = order /\ bids[q] \in Int /\ bids[p] \in Int
      BY <1>1, <1>3, <1>5, <1>6, <1>8, <3>1
    <3>4. ~(<<q, p>> \in order /\ <<p, q>> \in order)
      BY <1>3, <3>1 DEF Ordered
    <3> QED  BY <1>7, <2>1, <3>2, <3>3, <3>4 DEF Beats
  <2> QED  BY <1>3, <1>6, <1>7, <1>8, <2>1
<1>9. CASE c # p
  <2>1. p \in Candidates(bids2) /\ bids2[p] = bids[p] /\ Beats(bids2, order2, q, p)
    BY <1>1, <1>2, <1>3, <1>4, <1>9
  <2>2. c = q
    <3> SUFFICES ASSUME c # q PROVE FALSE
      OBVIOUS
    <3>1. q \in Candidates(bids) /\ bids2[q] = bids[q] /\ order \subseteq order2
      BY <1>1, <1>2, <1>4, <1>5
    <3>2. Beats(bids2, order2, p, q)
      BY <1>3, <2>1, <3>1 DEF Beats
    <3> QED  BY <1>1, <1>4, <2>1, <3>2, BeatsOrders
  <2>3. e >= bids[p]
    BY <1>1, <1>3, <1>6, <1>7, <2>1, <2>2 DEF Beats
  <2>4. e # bids[c]
    <3> SUFFICES ASSUME e = bids[c] PROVE FALSE
      OBVIOUS
    <3>1. bids2 = bids
      BY DEF Bids
    <3>2. order2 = order
      BY ClientConnectionsAssumption
    <3> QED  BY <3>1, <3>2, WinnerIsUnique
  <2> QED  BY <2>2, <2>3, <2>4
<1> QED  BY <1>8, <1>9

\* What a turn of arbitrate's loop does in its VLAN.
LEMMA Arbitrated ==
    ASSUME OrderInv, OrderInv', NEW i \in Interfaces, ArbitrateStep(i),
           NEW c, c = lock.client, NEW u, u = VlanOf[i]
    PROVE  /\ c \in Clients /\ u \in Vlans /\ lock.id \in ElectionIds
           /\ lock.op = "arbitrate" /\ lock'.op = "arbitrate"
           /\ election[u] \in Bids /\ election'[u] = [election[u] EXCEPT ![c] = lock.id]
           /\ older'[u] = IF election[u][c] = NoBid
                          THEN older[u] \cup ((Candidates(election[u]) \ {c}) \X {c}) ELSE older[u]
           /\ Ordered(Candidates(election[u]), older[u])
           /\ Ordered(Candidates(election'[u]), older'[u])
           /\ Wins(election'[u], older'[u], primary'[u])
           /\ \A v \in Vlans \ {u} :
                 election'[v] = election[v] /\ older'[v] = older[v] /\ primary'[v] = primary[v]
<1>t. TypeOK
  BY DEF OrderInv, IInv
<1>1. /\ lock \in Arbitrations /\ c \in Clients /\ lock.id \in ElectionIds /\ u \in Vlans
      /\ lock.op = "arbitrate"
  BY <1>t, LockTypes, ClientConnectionsAssumption DEF ArbitrateStep
<1>2. /\ election' = [election EXCEPT ![u][c] = lock.id]
      /\ older' = [older EXCEPT ![u] = OrderWith(u, c)]
      /\ lock' = [lock EXCEPT !.todo = @ \ {i}]
      /\ Elect(u, election'[u], older'[u])
  BY DEF ArbitrateStep
<1>3. lock'.op = "arbitrate"
  BY <1>1, <1>2 DEF Arbitrations
<1>4. /\ election[u] \in Bids /\ election'[u] = [election[u] EXCEPT ![c] = lock.id]
      /\ older'[u] = OrderWith(u, c)
      /\ \A v \in Vlans \ {u} : election'[v] = election[v] /\ older'[v] = older[v]
  BY <1>1, <1>2, <1>t DEF TypeOK, Bids
<1>5. OrderWith(u, c) = IF election[u][c] = NoBid
                        THEN older[u] \cup ((Candidates(election[u]) \ {c}) \X {c}) ELSE older[u]
  BY DEF OrderWith, Candidates
<1>6. /\ Wins(election'[u], older'[u], primary'[u])
      /\ \A v \in Vlans \ {u} : primary'[v] = primary[v]
  BY <1>1, <1>2, <1>t, ElectWins
<1>7. Ordered(Candidates(election[u]), older[u])
  BY <1>1 DEF OrderInv, CandidatesOrdered
<1>8. Ordered(Candidates(election'[u]), older'[u])
  BY <1>1 DEF OrderInv, CandidatesOrdered, Candidates
<1> QED  BY <1>1, <1>3, <1>4, <1>5, <1>6, <1>7, <1>8

\* A primary is replaced only when it has withdrawn, lowers its bid, or another
\* client newly bids at least as much: no repeated bid, no election elsewhere and
\* no departure of others unseats it (client_connection.py:159-164, 226-233).
THEOREM PrimaryStays == Spec => PrimaryIsStable
<1>1. ASSUME OrderInv, [Next]_vars, NEW v \in Vlans, NEW p, p = primary[v],
             p \in Clients, primary'[v] # p
      PROVE  \/ election'[v][p] = NoBid
             \/ lock.client = p /\ lock.id < election[v][p]
             \/ /\ lock.client = primary'[v]
                /\ lock.id >= election[v][p]
                /\ lock.id # election[v][lock.client]
  <2>i. IInv /\ OrderInv' /\ p \notin {NoClient, Unset}
    BY <1>1, OrderStep, ClientConnectionsAssumption DEF OrderInv
  <2>1. ASSUME NEW i \in Interfaces, ArbitrateStep(i)
        PROVE  \/ lock.client = p /\ lock.id < election[v][p]
               \/ /\ lock.client = primary'[v]
                  /\ lock.id >= election[v][p]
                  /\ lock.id # election[v][lock.client]
    <3>1. PICK c, u : c = lock.client /\ u = VlanOf[i]
      OBVIOUS
    <3>2. /\ c \in Clients /\ u \in Vlans /\ lock.id \in ElectionIds
          /\ lock.op = "arbitrate"
          /\ election[u] \in Bids /\ election'[u] = [election[u] EXCEPT ![c] = lock.id]
          /\ older'[u] = IF election[u][c] = NoBid
                         THEN older[u] \cup ((Candidates(election[u]) \ {c}) \X {c}) ELSE older[u]
          /\ Ordered(Candidates(election[u]), older[u])
          /\ Ordered(Candidates(election'[u]), older'[u])
          /\ Wins(election'[u], older'[u], primary'[u])
          /\ \A w \in Vlans \ {u} : primary'[w] = primary[w]
      BY <1>1, <2>1, <2>i, <3>1, Arbitrated
    <3>3. u = v /\ ~Vacant(v)
      BY <1>1, <3>2 DEF Vacant
    <3>4. Wins(election[v], older[v], p)
      BY <1>1, <2>i, <3>3 DEF IInv, PrimaryWins
    <3>5. \/ c = p /\ lock.id < election[v][p]
          \/ c = primary'[v] /\ lock.id >= election[v][p] /\ lock.id # election[v][c]
      BY <1>1, <3>2, <3>3, <3>4, BidUnseats
    <3> QED  BY <3>1, <3>5
  <2>2. ASSUME NEW u \in Vlans, DestroyStep(u) PROVE election'[v][p] = NoBid
    <3>1. v = u
      BY <1>1, <2>2, <2>i, ElectWins DEF DestroyStep, IInv
    <3> QED  BY <1>1, <2>2, <2>i, <3>1 DEF DestroyStep, OrderInv, VacantLed, IInv, Lifecycle
  <2>3. ASSUME NEW c \in Clients, Unregister(c) PROVE FALSE
    <3>1. connections = {}
      BY <1>1, <2>3 DEF Unregister
    <3>2. ~Vacant(v)
      BY <2>i, <3>1, LockTypes DEF IInv, Lifecycle, Vacant
    <3>3. Candidates(election[v]) = {}
      BY <2>i, <3>1 DEF IInv, BiddersConnected, Candidates
    <3> QED  BY <1>1, <2>i, <3>2, <3>3 DEF IInv, PrimaryWins
  <2>4. ASSUME Quiet \/ \E c \in Clients : DestroyBegin(c) PROVE FALSE
    BY <1>1, <2>4 DEF Quiet, DestroyBegin
  <2> QED  BY <1>1, <2>i, <2>1, <2>2, <2>3, <2>4, Steps
<1>2. OrderInv /\ [Next]_vars =>
        [\A v \in Vlans :
          LET p == primary[v] IN
          p \in Clients /\ primary'[v] # p =>
              \/ election'[v][p] = NoBid
              \/ lock.client = p /\ lock.id < election[v][p]
              \/ /\ lock.client = primary'[v]
                 /\ lock.id >= election[v][p]
                 /\ lock.id # election[v][lock.client]]_vars
  BY <1>1
<1> QED  BY <1>2, OrderCorrect, PTL DEF Spec, PrimaryIsStable
-----------------------------------------------------------------------------
\* The leader that a state of ClientConnections stands for: the substitution
\* of the instance Promise.
Leader ==
    [v \in Vlans |->
        IF Vacant(v) THEN CHOOSE w \in Clients \cup {NoClient} : Wins(election[v], older[v], w)
        ELSE IF primary[v] = Unset THEN NoClient ELSE primary[v]]

\* Lock or not, it is the winner on the bids of the moment.
LeaderWon ==
    \A v \in Vlans :
        /\ election[v] \in Bids
        /\ Ordered(Candidates(election[v]), older[v])
        /\ Leader[v] \in Clients \cup {NoClient}
        /\ Wins(election[v], older[v], Leader[v])

LEMMA LeaderWins == OrderInv => LeaderWon
<1> SUFFICES ASSUME OrderInv, NEW v \in Vlans
             PROVE  /\ election[v] \in Bids
                    /\ Ordered(Candidates(election[v]), older[v])
                    /\ Leader[v] \in Clients \cup {NoClient}
                    /\ Wins(election[v], older[v], Leader[v])
  BY DEF LeaderWon
<1>1. /\ election[v] \in Bids
      /\ Ordered(Candidates(election[v]), older[v])
      /\ HasBest(Candidates(election[v]), election[v], older[v])
  BY DEF OrderInv, CandidatesOrdered, IInv, TypeOK, Bids
<1>2. CASE Vacant(v)
  <2>1. \E w \in Clients \cup {NoClient} : Wins(election[v], older[v], w)
    BY <1>1, WinnerExists
  <2>2. Leader[v] = CHOOSE w \in Clients \cup {NoClient} : Wins(election[v], older[v], w)
    BY <1>2 DEF Leader
  <2> QED  BY <1>1, <2>1, <2>2
<1>3. CASE ~Vacant(v)
  <2>1. Leader[v] = IF primary[v] = Unset THEN NoClient ELSE primary[v]
    BY <1>3 DEF Leader
  <2>2. IF Candidates(election[v]) = {} THEN primary[v] \in {NoClient, Unset}
        ELSE Wins(election[v], older[v], primary[v])
    BY <1>3 DEF OrderInv, IInv, PrimaryWins
  <2>3. CASE Candidates(election[v]) = {}
    BY <1>1, <2>1, <2>2, <2>3, WinsIsBest
  <2>4. CASE Candidates(election[v]) # {}
    <3>1. primary[v] \in Candidates(election[v])
      BY <2>2, <2>4, WinsIsBest
    <3>2. primary[v] \in Clients /\ primary[v] # Unset
      BY <3>1, ClientConnectionsAssumption DEF Candidates
    <3> QED  BY <1>1, <2>1, <2>2, <2>4, <3>2
  <2> QED  BY <2>3, <2>4
<1> QED  BY <1>2, <1>3

LEMMA WinnerIsAllowed ==
    ASSUME NEW bids \in Bids, NEW order, NEW w, Wins(bids, order, w)
    PROVE  w \in Promise!Winners(bids)
<1>1. Promise!Candidates(bids) = Candidates(bids)
  BY DEF Promise!Candidates, Candidates
<1>2. CASE Candidates(bids) = {}
  BY <1>1, <1>2, WinsIsBest DEF Promise!Winners
<1>3. CASE Candidates(bids) # {}
  <2>1. w \in Candidates(bids) /\ \A c \in Candidates(bids) : bids[c] <= bids[w]
    BY <1>3, WinnerIsBest DEF Bids
  <2> QED  BY <1>1, <1>3, <2>1 DEF Promise!Winners
<1> QED  BY <1>2, <1>3

\* The withdrawal of another client leaves the winner where it is.
LEMMA WithdrawalKeepsWinner ==
    ASSUME NEW bids \in Bids, NEW order, NEW c \in Clients,
           NEW bids2, bids2 = [bids EXCEPT ![c] = NoBid],
           NEW order2, order2 = {p \in order : c \notin {p[1], p[2]}},
           NEW w, Wins(bids, order, w), w # c
    PROVE  Wins(bids2, order2, w)
<1>1. \A d \in Clients \ {c} : bids2[d] = bids[d]
  BY DEF Bids
<1>2. Candidates(bids2) = Candidates(bids) \ {c} /\ Candidates(bids) \subseteq Clients
  BY <1>1 DEF Candidates, Bids
<1>3. CASE Candidates(bids) = {}
  BY <1>2, <1>3, WinsIsBest
<1>4. CASE Candidates(bids) # {}
  <2>1. w \in Candidates(bids2) /\ \A d \in Candidates(bids) \ {w} : Beats(bids, order, w, d)
    BY <1>2, <1>4, WinsIsBest
  <2>2. \A a, b : <<a, b>> \in order2 <=> (<<a, b>> \in order /\ a # c /\ b # c)
    OBVIOUS
  <2>3. ASSUME NEW d \in Candidates(bids2) \ {w} PROVE Beats(bids2, order2, w, d)
    <3>1. /\ Beats(bids, order, w, d) /\ d # c
          /\ bids2[d] = bids[d] /\ bids2[w] = bids[w]
      BY <1>1, <1>2, <2>1
    <3> QED  BY <2>2, <3>1 DEF Beats
  <2> QED  BY <2>1, <2>3, WinsIsBest
<1> QED  BY <1>3, <1>4

LEMMA PromiseInit == Init => Promise!Init
<1> SUFFICES ASSUME Init PROVE Promise!Init
  OBVIOUS
<1>1. \A v \in Vlans : ~Vacant(v) /\ primary[v] = Unset
  BY DEF Init, Vacant, Free
<1> QED  BY <1>1 DEF Init, Promise!Init

LEMMA PromiseStep == OrderInv /\ [Next]_vars => [Promise!Next]_(Promise!vars)
<1> SUFFICES ASSUME OrderInv, [Next]_vars PROVE [Promise!Next]_(Promise!vars)
  OBVIOUS
<1>i. OrderInv'
  BY OrderStep
<1>w. LeaderWon /\ LeaderWon'
  <2>1. OrderInv' => LeaderWon'
    BY LeaderWins, PTL
  <2> QED  BY <1>i, <2>1, LeaderWins
<1>p. ASSUME NEW v \in Vlans
      PROVE  /\ election'[v] \in Bids
             /\ Ordered(Candidates(election'[v]), older'[v])
             /\ Leader'[v] \in Clients \cup {NoClient}
             /\ Wins(election'[v], older'[v], Leader'[v])
  BY <1>w DEF LeaderWon, Candidates, Wins
<1>l. UNCHANGED <<election, Leader>> => UNCHANGED Promise!vars
  BY DEF Promise!vars, Leader
\* Elections on the same bids have the same outcome.
<1>1. ASSUME UNCHANGED <<election, older>> PROVE UNCHANGED <<election, Leader>>
  <2>1. ASSUME NEW v \in Vlans PROVE Leader'[v] = Leader[v]
    BY <1>1, <1>p, <1>w, WinnerIsUnique DEF LeaderWon
  <2> QED  BY <1>1, <2>1 DEF Leader
<1>2. ASSUME Quiet \/ (\E v \in Vlans : DestroyStep(v)) \/ (\E c \in Clients : Unregister(c))
      PROVE  UNCHANGED Promise!vars
  <2>1. UNCHANGED <<election, older>>
    BY <1>2 DEF Quiet, DestroyStep, Unregister
  <2> QED  BY <1>1, <2>1, <1>l
<1>3. ASSUME NEW i \in Interfaces, ArbitrateStep(i) PROVE Promise!Next
  <2>1. PICK c, u, e : c = lock.client /\ u = VlanOf[i] /\ e = lock.id
    OBVIOUS
  <2>2. /\ c \in Clients /\ u \in Vlans /\ e \in ElectionIds
        /\ lock.op = "arbitrate" /\ lock'.op = "arbitrate"
        /\ \A v \in Vlans \ {u} : primary'[v] = primary[v]
    BY ONLY OrderInv, <1>3, <1>i, <2>1, Arbitrated, ZenonT(60)
  <2>3. election' = [election EXCEPT ![u][c] = e]
    BY <1>3, <2>1 DEF ArbitrateStep
  <2>4. \A v \in Vlans \ {u} : Leader'[v] = Leader[v]
    BY <2>2 DEF Leader, Vacant
  <2>5. Leader' = [Leader EXCEPT ![u] = Leader'[u]]
    <3>1. Leader = [v \in Vlans |-> Leader[v]] /\ Leader' = [v \in Vlans |-> Leader'[v]]
      BY DEF Leader
    <3> QED  BY <2>4, <3>1
  <2>6. Leader'[u] \in Promise!Winners(election'[u])
    BY <1>p, <2>2, WinnerIsAllowed
  <2>7. Promise!Bid(c, u, e)
    BY <2>3, <2>5, <2>6 DEF Promise!Bid, Leader
  <2> QED  BY <2>2, <2>7 DEF Promise!Next
<1>4. ASSUME NEW c \in Clients, DestroyBegin(c) PROVE Promise!Next
  <2>1. /\ election' = [v \in Vlans |-> [election[v] EXCEPT ![c] = NoBid]]
        /\ older' = [v \in Vlans |-> {p \in older[v] : c \notin {p[1], p[2]}}]
    BY <1>4 DEF DestroyBegin, Withdraw
  <2>2. ASSUME NEW v \in Vlans
        PROVE  IF Leader[v] = c THEN Leader'[v] \in Promise!Winners(election'[v])
               ELSE Leader'[v] = Leader[v]
    <3>1. Leader'[v] \in Promise!Winners(election'[v])
      BY <1>p, WinnerIsAllowed
    <3>2. ASSUME Leader[v] # c PROVE Leader'[v] = Leader[v]
      <4>1. election[v] \in Bids /\ Wins(election[v], older[v], Leader[v])
        BY <1>w DEF LeaderWon
      <4>2. Wins(election'[v], older'[v], Leader[v])
        <5>1. /\ election'[v] = [election[v] EXCEPT ![c] = NoBid]
              /\ older'[v] = {p \in older[v] : c \notin {p[1], p[2]}}
          BY <2>1
        <5> QED  BY ONLY <3>2, <4>1, <5>1, c \in Clients, WithdrawalKeepsWinner
      <4> QED  BY <1>p, <4>2, WinnerIsUnique
    <3> QED  BY <3>1, <3>2
  <2>3. Leader' \in [Vlans -> Clients \cup {NoClient}]
    BY <1>p DEF Leader
  <2>4. Promise!Leave(c)
    BY <2>1, <2>2, <2>3 DEF Promise!Leave, Leader
  <2> QED  BY <2>4 DEF Promise!Next
<1> QED  BY <1>2, <1>3, <1>4, Steps DEF OrderInv

\* The streams, their queues and the lock implement module Arbitration: every
\* turn of arbitrate's loop is one bid with its outcome, and a departure one
\* step at its beginning, whoever asks meanwhile waiting for the lock
\* (client_connection.py:149-193, 226-246).
THEOREM PromiseKept == Spec => ImplementsArbitration
<1>1. Init => Promise!Init
  BY PromiseInit
<1>2. OrderInv /\ [Next]_vars => [Promise!Next]_(Promise!vars)
  BY PromiseStep
<1> QED  BY <1>1, <1>2, OrderCorrect, PTL DEF Spec, ImplementsArbitration, Promise!Spec
-----------------------------------------------------------------------------
\* Clients bid where they have an interface, and only there: an ERROR reply is
\* never about a VLAN they are a candidate in.
ErrorsOwn(items, c) ==
    \A n \in DOMAIN items : items[n].type = "response" /\ items[n].status = "ERROR" =>
        InterfacesIn(c, items[n].vlan) = {}

BidsAreOwn ==
    /\ \A c \in Clients, v \in Vlans : election[v][c] # NoBid =>
          handler[c] \in {"running", "closing"} /\ InterfacesIn(c, v) # {}
    /\ lock.op = "arbitrate" => lock.todo \subseteq InterfacesOf(lock.client)
    /\ \A c \in Clients : ErrorsOwn(queue[c], c)

\* An item that tells its client something about VLAN v.
Tells(x, v) == x.type = "response" /\ x.vlan = v

\* After these items, on top of belief b, the last status is s.
SaidLast(items, b, v, s) ==
    \/ b = s /\ \A n \in DOMAIN items : ~Tells(items[n], v)
    \/ \E n \in DOMAIN items :
          /\ Tells(items[n], v) /\ items[n].status = s
          /\ \A m \in DOMAIN items : Tells(items[m], v) => m <= n

\* What a candidate should believe.
Status(c, v) == IF primary[v] = c THEN "PRIMARY" ELSE "NOT_PRIMARY"

\* While a VLAN is not being elected for, a running candidate has been told, or will
\* be told last, what it is there.
Told ==
    \A c \in Clients, v \in Vlans :
        handler[c] = "running" /\ election[v][c] # NoBid /\ ~Vacant(v) =>
            SaidLast(queue[c], belief[c][v], v, Status(c, v))

ToldInv == IInv /\ BidsAreOwn /\ Told

\* What is said last when an item is queued, ...
LEMMA SaidAfterPost ==
    ASSUME NEW items \in Seq(Item), NEW x \in Item, NEW b, NEW v, NEW s
    PROVE  /\ ~Tells(x, v) /\ SaidLast(items, b, v, s) => SaidLast(Append(items, x), b, v, s)
           /\ Tells(x, v) /\ x.status = s => SaidLast(Append(items, x), b, v, s)
<1> DEFINE items2 == Append(items, x)
           l == Len(items) + 1
<1>1. /\ DOMAIN items = 1..Len(items) /\ DOMAIN items2 = 1..l /\ Len(items) \in Nat
      /\ items2[l] = x
      /\ \A n \in 1..Len(items) : items2[n] = items[n]
  OBVIOUS
<1>2. l \in 1..l /\ (\A n \in 1..l : n <= l /\ (n = l \/ n \in 1..Len(items)))
      /\ 1..Len(items) \subseteq 1..l
  BY <1>1
<1> HIDE DEF items2, l
<1>3. ASSUME ~Tells(x, v), SaidLast(items, b, v, s) PROVE SaidLast(items2, b, v, s)
  <2>1. CASE b = s /\ \A n \in DOMAIN items : ~Tells(items[n], v)
    BY <1>1, <1>2, <1>3, <2>1 DEF SaidLast
  <2>2. CASE ~(b = s /\ \A n \in DOMAIN items : ~Tells(items[n], v))
    <3>1. PICK n \in DOMAIN items :
             /\ Tells(items[n], v) /\ items[n].status = s
             /\ \A m \in DOMAIN items : Tells(items[m], v) => m <= n
      BY <1>3, <2>2 DEF SaidLast
    <3>2. n \in DOMAIN items2 /\ Tells(items2[n], v) /\ items2[n].status = s
      BY <1>1, <1>2, <3>1
    <3>3. ASSUME NEW m \in DOMAIN items2, Tells(items2[m], v) PROVE m <= n
      BY <1>1, <1>2, <1>3, <3>1, <3>3
    <3> QED  BY <3>2, <3>3 DEF SaidLast
  <2> QED  BY <2>1, <2>2
<1>4. ASSUME Tells(x, v), x.status = s PROVE SaidLast(items2, b, v, s)
  BY <1>1, <1>2, <1>4 DEF SaidLast
<1> QED  BY <1>3, <1>4 DEF items2

\* ... and when one is taken.
LEMMA SaidAfterTake ==
    ASSUME NEW items \in Seq(Item), items # <<>>, NEW b, NEW v, NEW s, SaidLast(items, b, v, s),
           NEW b2, b2 = IF Tells(Head(items), v) THEN Head(items).status ELSE b
    PROVE  SaidLast(Tail(items), b2, v, s)
<1> DEFINE rest == Tail(items)
           l == Len(items)
<1>1. /\ DOMAIN items = 1..l /\ DOMAIN rest = 1..(l - 1) /\ l \in Nat /\ l >= 1
      /\ Head(items) = items[1]
      /\ \A n \in 1..(l - 1) : rest[n] = items[n + 1]
  OBVIOUS
<1> HIDE DEF rest, l
<1>2. CASE b = s /\ \A n \in DOMAIN items : ~Tells(items[n], v)
  <2>1. 1 \in DOMAIN items /\ \A n \in DOMAIN rest : n + 1 \in DOMAIN items /\ rest[n] = items[n + 1]
    BY <1>1
  <2>2. b2 = s /\ \A n \in DOMAIN rest : ~Tells(rest[n], v)
    BY <1>1, <1>2, <2>1
  <2> QED  BY <2>2 DEF SaidLast, rest
<1>3. CASE ~(b = s /\ \A n \in DOMAIN items : ~Tells(items[n], v))
  <2>1. PICK n \in DOMAIN items :
           /\ Tells(items[n], v) /\ items[n].status = s
           /\ \A m \in DOMAIN items : Tells(items[m], v) => m <= n
    BY <1>3 DEF SaidLast
  <2>2. CASE n = 1
    <3>1. b2 = s
      BY <1>1, <2>1, <2>2
    <3>2. ASSUME NEW m \in DOMAIN rest PROVE ~Tells(rest[m], v)
      <4>1. m + 1 \in DOMAIN items /\ rest[m] = items[m + 1] /\ ~(m + 1 <= 1)
        BY <1>1
      <4> QED  BY <2>1, <2>2, <4>1
    <3> QED  BY <3>1, <3>2 DEF SaidLast, rest
  <2>3. CASE n # 1
    <3>1. n - 1 \in DOMAIN rest /\ rest[n - 1] = items[n]
      BY <1>1, <2>3
    <3>2. ASSUME NEW m \in DOMAIN rest, Tells(rest[m], v) PROVE m <= n - 1
      <4>1. m + 1 \in DOMAIN items /\ rest[m] = items[m + 1] /\ m \in Int /\ n \in Int
        BY <1>1
      <4>2. m + 1 <= n
        BY <2>1, <3>2, <4>1
      <4> QED  BY <4>1, <4>2
    <3> QED  BY <2>1, <3>1, <3>2 DEF SaidLast, rest
  <2> QED  BY <2>2, <2>3
<1> QED  BY <1>2, <1>3

\* In words of the property: Said is what SaidLast says.
LEMMA SaidIsLast ==
    ASSUME NEW c \in Clients, NEW v \in Vlans, NEW s, queue[c] \in Seq(Item),
           SaidLast(queue[c], belief[c][v], v, s)
    PROVE  Said(c, v) = s
<1> DEFINE items == queue[c]
           about == {n \in DOMAIN items : Tells(items[n], v)}
<1>1. Said(c, v) = IF about = {} THEN belief[c][v]
                   ELSE items[CHOOSE n \in about : \A m \in about : m <= n].status
  BY DEF Said, Tells
<1>2. DOMAIN items = 1..Len(items) /\ Len(items) \in Nat
  OBVIOUS
<1>3. CASE about = {}
  BY <1>1, <1>3 DEF SaidLast
<1>4. CASE about # {}
  <2>1. PICK n \in about : items[n].status = s /\ \A m \in about : m <= n
    BY <1>4 DEF SaidLast
  <2>2. ASSUME NEW k \in about, \A m \in about : m <= k PROVE k = n
    <3>1. k \in Int /\ n \in Int /\ k <= n /\ n <= k
      BY <1>2, <2>1, <2>2
    <3> QED  BY <3>1
  <2>3. (CHOOSE k \in about : \A m \in about : m <= k) = n
    BY <2>1, <2>2
  <2> QED  BY <1>1, <1>4, <2>1, <2>3
<1> QED  BY <1>3, <1>4

LEMMA ErrorsAfter ==
    ASSUME NEW items \in Seq(Item), NEW c, ErrorsOwn(items, c)
    PROVE  /\ items # <<>> => ErrorsOwn(Tail(items), c)
           /\ \A x \in Item :
                 (x.type = "response" /\ x.status = "ERROR" => InterfacesIn(c, x.vlan) = {}) =>
                     ErrorsOwn(Append(items, x), c)
<1>1. ASSUME items # <<>> PROVE ErrorsOwn(Tail(items), c)
  <2>1. \A n \in DOMAIN Tail(items) : n + 1 \in DOMAIN items /\ Tail(items)[n] = items[n + 1]
    BY <1>1
  <2> QED  BY <2>1 DEF ErrorsOwn
<1>2. ASSUME NEW x \in Item, x.type = "response" /\ x.status = "ERROR" => InterfacesIn(c, x.vlan) = {}
      PROVE  ErrorsOwn(Append(items, x), c)
  <2>1. \A n \in DOMAIN Append(items, x) :
           \/ n \in DOMAIN items /\ Append(items, x)[n] = items[n]
           \/ Append(items, x)[n] = x
    OBVIOUS
  <2> QED  BY <1>2, <2>1 DEF ErrorsOwn
<1> QED  BY <1>1, <1>2

\* Whom an election tells what.
LEMMA Elected ==
    ASSUME TypeOK, NEW v \in Vlans, NEW bids \in Bids, NEW order, Elect(v, bids, order),
           NEW c \in Clients
    PROVE  \/ queue'[c] = queue[c] /\ ~(bids[c] # NoBid /\ handler[c] = "running")
           \/ \E x \in Item :
                 /\ queue'[c] = Append(queue[c], x)
                 /\ \A u : Tells(x, u) <=> u = v
                 /\ x.status = IF primary'[v] = c THEN "PRIMARY" ELSE "NOT_PRIMARY"
<1>1. PICK w \in Clients \cup {NoClient} : primary' = [primary EXCEPT ![v] = w] /\ Notify(v, bids, w)
  BY DEF Elect
<1>2. primary'[v] = w
  BY <1>1 DEF TypeOK
<1>3. CASE bids[c] # NoBid /\ handler[c] = "running"
  <2> DEFINE x == ToResponse(v, bids[c], IF c = w THEN "PRIMARY" ELSE "NOT_PRIMARY")
  <2>1. queue'[c] = Append(queue[c], x)
    BY <1>1, <1>3 DEF Notify, Candidates
  <2>2. bids[c] \in ElectionIds
    BY <1>3 DEF Bids
  <2>3. x \in Item
    BY <2>2, ItemTypes DEF Statuses
  <2>4. /\ \A u : Tells(x, u) <=> u = v
        /\ x.status = IF primary'[v] = c THEN "PRIMARY" ELSE "NOT_PRIMARY"
    BY <1>2 DEF ToResponse, Tells
  <2> HIDE DEF x
  <2> QED  BY <2>1, <2>3, <2>4
<1>4. CASE ~(bids[c] # NoBid /\ handler[c] = "running")
  BY <1>1, <1>4 DEF Notify, Candidates
<1> QED  BY <1>3, <1>4

LEMMA OwnStep == IInv /\ BidsAreOwn /\ [Next]_vars => BidsAreOwn'
<1> SUFFICES ASSUME IInv, BidsAreOwn, [Next]_vars PROVE BidsAreOwn'
  OBVIOUS
<1>t. TypeOK /\ (\A c \in Clients : queue[c] \in Seq(Item) /\ ErrorsOwn(queue[c], c))
  BY DEF IInv, TypeOK, BidsAreOwn
<1>f. lock = Free => lock.op = "free"
  BY DEF Free
<1> DEFINE Placed == \A c \in Clients, v \in Vlans : election[v][c] # NoBid =>
                        handler[c] \in {"running", "closing"} /\ InterfacesIn(c, v) # {}
           Own == lock.op = "arbitrate" => lock.todo \subseteq InterfacesOf(lock.client)
           Errors == \A c \in Clients : ErrorsOwn(queue[c], c)
<1>q. ASSUME UNCHANGED queue PROVE Errors'
  BY <1>q, <1>t DEF ErrorsOwn, InterfacesIn, InterfacesOf
\* An item is posted to one queue, or taken from it.
<1>a. ASSUME NEW c \in Clients, NEW x \in Item,
             x.type = "response" /\ x.status = "ERROR" => InterfacesIn(c, x.vlan) = {},
             NEW items \in Seq(Item), ErrorsOwn(items, c),
             queue' = [queue EXCEPT ![c] = Append(items, x)]
      PROVE  Errors'
  <2>1. ASSUME NEW d \in Clients PROVE ErrorsOwn(queue'[d], d)
    <3>1. CASE d = c
      <4>1. queue'[c] = Append(items, x)
        BY <1>a, <1>t DEF TypeOK
      <4>2. ErrorsOwn(Append(items, x), c)
        BY <1>a, ErrorsAfter
      <4> QED  BY <3>1, <4>1, <4>2
    <3>2. CASE d # c
      BY <1>a, <1>t, <3>2 DEF TypeOK
    <3> QED  BY <3>1, <3>2
  <2> QED  BY <2>1 DEF ErrorsOwn, InterfacesIn, InterfacesOf
<1>b. ASSUME NEW c \in Clients, queue[c] # <<>>, queue' = [queue EXCEPT ![c] = Tail(@)]
      PROVE  Errors'
  <2>1. ASSUME NEW d \in Clients PROVE ErrorsOwn(queue'[d], d)
    BY <1>b, <1>t, ErrorsAfter DEF TypeOK
  <2> QED  BY <2>1 DEF ErrorsOwn, InterfacesIn, InterfacesOf
<1>c. ASSUME NEW c \in Clients, queue' = [queue EXCEPT ![c] = <<>>] PROVE Errors'
  <2>1. ASSUME NEW d \in Clients PROVE ErrorsOwn(queue'[d], d)
    <3>1. ErrorsOwn(<<>>, d)
      BY DEF ErrorsOwn
    <3>2. queue'[d] = <<>> \/ queue'[d] = queue[d]
      BY <1>c, <1>t DEF TypeOK
    <3> QED  BY <1>t, <3>1, <3>2
  <2> QED  BY <2>1 DEF ErrorsOwn, InterfacesIn, InterfacesOf
<1>e. ASSUME NEW v \in Vlans, NEW bids \in Bids, NEW order, Elect(v, bids, order) PROVE Errors'
  <2>1. ASSUME NEW d \in Clients PROVE ErrorsOwn(queue'[d], d)
    <3>1. CASE queue'[d] = queue[d]
      BY <1>t, <3>1
    <3>2. CASE queue'[d] # queue[d]
      <4>1. PICK x \in Item : queue'[d] = Append(queue[d], x) /\ x.status # "ERROR"
        BY <1>e, <1>t, <3>2, Elected
      <4> QED  BY <1>t, <4>1, ErrorsAfter
    <3> QED  BY <3>1, <3>2
  <2> QED  BY <2>1 DEF ErrorsOwn, InterfacesIn, InterfacesOf
\* The election and the lock stay, and no candidate's handler does but to close.
<1>p. ASSUME UNCHANGED <<election, lock>>,
             \A c \in Clients : handler[c] \in {"running", "closing"} => handler'[c] \in {"running", "closing"}
      PROVE  Placed' /\ Own'
  BY <1>p DEF BidsAreOwn, InterfacesIn, InterfacesOf
<1>1. ASSUME NEW c \in Clients, Create(c) \/ StartListener(c) \/ SnapshotFails(c)
      PROVE  Placed' /\ Own' /\ Errors'
  BY <1>1, <1>p, <1>q, <1>t DEF Create, StartListener, SnapshotFails, TypeOK, server
<1>2. ASSUME NEW c \in Clients, Listen(c) PROVE Placed' /\ Own' /\ Errors'
  <2>1. UNCHANGED <<election, lock, handler>>
    BY <1>2 DEF Listen, ReceiveRequest, CloseStream, BreakStream, server
  <2>2. CASE UNCHANGED queue
    BY <1>p, <1>q, <2>1, <2>2
  <2>3. CASE ~UNCHANGED queue
    <3>1. PICK x \in Item : x.type # "response" /\ queue' = [queue EXCEPT ![c] = Append(@, x)]
      <4>1. CASE \E v \in Vlans \cup {AllVlans}, e \in ElectionIds : ReceiveRequest(c, v, e)
        BY <4>1, <1>t, ItemTypes DEF ReceiveRequest, ToRequest
      <4>2. CASE CloseStream(c) \/ BreakStream(c)
        BY <2>3, <4>2, <1>t, ItemTypes DEF CloseStream, BreakStream, PostExit, Exit
      <4> QED  BY <1>2, <4>1, <4>2 DEF Listen
    <3>2. queue' = [queue EXCEPT ![c] = Append(queue[c], x)]
      BY <3>1
    <3>3. Errors'
      BY <1>a, <1>t, <3>1, <3>2
    <3> QED  BY <1>p, <2>1, <3>3
  <2> QED  BY <2>2, <2>3
<1>3. ASSUME NEW c \in Clients, Yield(c) PROVE Placed' /\ Own' /\ Errors'
  BY <1>3, <1>b, <1>p DEF Yield, Received, server
<1>4. ASSUME NEW c \in Clients, Finally(c), handler[c] = "running", UNCHANGED <<server, lock>>
      PROVE  Placed' /\ Own' /\ Errors'
  BY <1>4, <1>c, <1>p, <1>t DEF Finally, server, TypeOK
<1>5. ASSUME NEW c \in Clients, YieldBroken(c) \/ RunExit(c) \/ ArbitrateAmbiguous(c)
      PROVE  Placed' /\ Own' /\ Errors'
  BY <1>5, <1>4 DEF YieldBroken, RunExit, ArbitrateAmbiguous, Received
<1>6. ASSUME NEW c \in Clients, ArbitrateNoInterface(c) PROVE Placed' /\ Own' /\ Errors'
  <2> DEFINE r == Head(queue[c])
             x == ToResponse(r.vlan, r.id, "ERROR")
  <2>1. /\ queue[c] # <<>> /\ r \in Request /\ Tail(queue[c]) \in Seq(Item)
        /\ r.vlan \in Vlans /\ r.id \in ElectionIds
    BY <1>6, <1>t, ReceivedTypes DEF ArbitrateNoInterface, Received, Request
  <2>2. x \in Item /\ InterfacesIn(c, x.vlan) = {}
    BY <1>6, <1>t, <2>1, ItemTypes DEF ArbitrateNoInterface, Statuses, ToResponse
  <2>3. queue' = [queue EXCEPT ![c] = Append(Tail(queue[c]), x)] /\ UNCHANGED <<election, lock, handler>>
    BY <1>6 DEF ArbitrateNoInterface, server
  <2>4. ErrorsOwn(Tail(queue[c]), c)
    BY <1>t, <2>1, ErrorsAfter
  <2> HIDE DEF r, x
  <2>5. Errors'
    BY <1>a, <2>1, <2>2, <2>3, <2>4
  <2> QED  BY <1>p, <2>3, <2>5
<1>7. ASSUME NEW c \in Clients, ArbitrateBegin(c) PROVE Placed' /\ Own' /\ Errors'
  <2>1. /\ queue[c] # <<>> /\ queue' = [queue EXCEPT ![c] = Tail(@)]
        /\ UNCHANGED <<election, handler>>
    BY <1>7 DEF ArbitrateBegin, Received, server
  <2>2. lock'.client = c /\ lock'.todo \subseteq InterfacesOf(c)
    BY <1>7 DEF ArbitrateBegin, Arbitration, InterfacesIn
  <2>3. Placed'
    BY <2>1 DEF BidsAreOwn, InterfacesIn, InterfacesOf
  <2>4. Own'
    BY <2>2 DEF InterfacesOf
  <2> QED  BY <1>b, <2>1, <2>3, <2>4
<1>8. ASSUME NEW i \in Interfaces, ArbitrateStep(i) PROVE Placed' /\ Own' /\ Errors'
  <2>1. PICK c, u : c = lock.client /\ u = VlanOf[i]
    OBVIOUS
  <2>2. /\ lock.op = "arbitrate" /\ lock \in Arbitrations /\ c \in Clients /\ u \in Vlans
        /\ lock.id \in ElectionIds
        /\ i \in InterfacesIn(c, u) /\ handler[c] = "running"
    BY <1>8, <1>t, <2>1, LockTypes, ClientConnectionsAssumption
    DEF ArbitrateStep, BidsAreOwn, IInv, Lifecycle, InterfacesIn, InterfacesOf
  <2>3. /\ election' = [election EXCEPT ![u][c] = lock.id] /\ UNCHANGED handler
        /\ lock'.client = c /\ lock'.todo = lock.todo \ {i}
        /\ Elect(u, election'[u], older'[u])
    BY <1>8, <2>1, <2>2 DEF ArbitrateStep, Arbitrations
  <2>4. /\ election'[u] \in Bids
        /\ \A d \in Clients, v \in Vlans : d # c \/ v # u => election'[v][d] = election[v][d]
    BY <1>t, <2>2, <2>3 DEF TypeOK, Bids
  <2>5. Placed'
    BY <2>2, <2>3, <2>4 DEF BidsAreOwn, InterfacesIn, InterfacesOf
  <2>6. Own'
    BY <2>1, <2>2, <2>3 DEF BidsAreOwn, InterfacesOf
  <2>7. Errors'
    BY <1>e, <2>2, <2>3, <2>4
  <2> QED  BY <2>5, <2>6, <2>7
<1>9. ASSUME ArbitrateEnd PROVE Placed' /\ Own' /\ Errors'
  <2>1. UNCHANGED <<election, handler, queue>> /\ lock'.op = "free"
    BY <1>9 DEF ArbitrateEnd, Free, server
  <2>2. Placed' /\ Own'
    BY <2>1 DEF BidsAreOwn, InterfacesIn, InterfacesOf
  <2> QED  BY <1>q, <2>1, <2>2
<1>10. ASSUME ArbitrateFails PROVE Placed' /\ Own' /\ Errors'
  <2>1. PICK c \in Clients : c = lock.client /\ handler[c] = "running"
    BY <1>10, <1>t, LockTypes DEF ArbitrateFails, IInv, Lifecycle
  <2>2. /\ UNCHANGED election /\ lock'.op = "free"
        /\ handler' = [handler EXCEPT ![c] = "closing"]
        /\ queue' = [queue EXCEPT ![c] = <<>>]
    BY <1>10, <2>1 DEF ArbitrateFails, Finally, Free, server
  <2>3. Placed'
    BY <2>1, <2>2, <1>t DEF BidsAreOwn, TypeOK, InterfacesIn, InterfacesOf
  <2> QED  BY <1>c, <2>2, <2>3
<1>11. ASSUME NEW c \in Clients, DestroyBegin(c) PROVE Placed' /\ Own' /\ Errors'
  <2>1. /\ election' = [v \in Vlans |-> [election[v] EXCEPT ![c] = NoBid]]
        /\ lock'.op = "destroy" /\ UNCHANGED <<handler, queue>>
    BY <1>11 DEF DestroyBegin, Withdraw, Destruction
  <2>2. \A d \in Clients, v \in Vlans : election'[v][d] # NoBid => election[v][d] # NoBid
    BY <1>t, <2>1 DEF TypeOK
  <2>3. Placed'
    BY <2>1, <2>2 DEF BidsAreOwn, InterfacesIn, InterfacesOf
  <2> QED  BY <1>q, <2>1, <2>3
<1>12. ASSUME NEW v \in Vlans, DestroyStep(v) PROVE Placed' /\ Own' /\ Errors'
  <2>1. /\ UNCHANGED <<election, handler>> /\ lock'.op = "destroy"
        /\ Elect(v, election[v], older[v]) /\ election[v] \in Bids
    BY <1>12, <1>t, LockTypes DEF DestroyStep, Destructions, TypeOK, Bids
  <2>2. Placed'
    BY <2>1 DEF BidsAreOwn, InterfacesIn, InterfacesOf
  <2> QED  BY <1>e, <2>1, <2>2
<1>13. ASSUME DestroyEnd PROVE Placed' /\ Own' /\ Errors'
  <2>1. PICK c \in Clients : c = lock.client /\ \A v \in Vlans : election[v][c] = NoBid
    BY <1>13, <1>t, LockTypes DEF DestroyEnd, IInv, Lifecycle
  <2>2. /\ UNCHANGED <<election, queue>> /\ lock'.op = "free"
        /\ handler' = [handler EXCEPT ![c] = "leaving"]
    BY <1>13, <2>1 DEF DestroyEnd, Free
  <2>3. Placed'
    BY <1>t, <2>1, <2>2 DEF BidsAreOwn, TypeOK, InterfacesIn, InterfacesOf
  <2> QED  BY <1>q, <2>2, <2>3
<1>14. ASSUME NEW c \in Clients, Unregister(c) PROVE Placed' /\ Own' /\ Errors'
  BY <1>14, <1>p, <1>q, <1>t DEF Unregister, TypeOK
<1>15. ASSUME UNCHANGED vars PROVE Placed' /\ Own' /\ Errors'
  BY <1>15, <1>p, <1>q DEF vars, server
<1>16. Placed' /\ Own' /\ Errors'
  BY <1>1, <1>2, <1>3, <1>5, <1>6, <1>7, <1>8, <1>9, <1>10, <1>11, <1>12, <1>13, <1>14, <1>15
  DEF Next, Critical, Open, Run, Arbitrate
<1> QED  BY <1>16 DEF BidsAreOwn

LEMMA ToldInit == Init => ToldInv
<1> SUFFICES ASSUME Init PROVE ToldInv
  OBVIOUS
<1>1. BidsAreOwn
  <2>1. \A c \in Clients : ErrorsOwn(queue[c], c)
    BY DEF Init, ErrorsOwn
  <2> QED  BY <2>1 DEF Init, BidsAreOwn, Free
<1>2. Told
  BY DEF Init, Told
<1> QED  BY <1>1, <1>2, InvInit DEF ToldInv

LEMMA ToldStep == ToldInv /\ [Next]_vars => ToldInv'
<1> SUFFICES ASSUME ToldInv, [Next]_vars PROVE ToldInv'
  OBVIOUS
<1>i. IInv' /\ BidsAreOwn'
  BY InvStep, OwnStep DEF ToldInv
<1>t. TypeOK /\ BidsAreOwn /\ \A c \in Clients : queue[c] \in Seq(Item)
  BY DEF ToldInv, IInv, TypeOK
<1>f. lock = Free => lock.op = "free"
  BY DEF Free
<1> SUFFICES ASSUME NEW c \in Clients, NEW v \in Vlans,
                    handler'[c] = "running", election'[v][c] # NoBid, ~Vacant(v)'
             PROVE  SaidLast(queue'[c], belief'[c][v], v, Status(c, v)')
  <2>1. \A c \in Clients, v \in Vlans :
           handler'[c] = "running" /\ election'[v][c] # NoBid /\ ~Vacant(v)' =>
               SaidLast(queue'[c], belief'[c][v], v, Status(c, v)')
    OBVIOUS
  <2>2. Told'
    BY <2>1 DEF Told, SaidLast, Tells
  <2> QED  BY <1>i, <2>2 DEF ToldInv
<1> DEFINE Goal == SaidLast(queue'[c], belief'[c][v], v, Status(c, v)')
\* What was said before, in a VLAN where nothing changed.
<1>b. ASSUME handler[c] = "running", election[v][c] # NoBid, ~Vacant(v)
      PROVE  SaidLast(queue[c], belief[c][v], v, Status(c, v))
  BY <1>b DEF ToldInv, Told
<1>o. ASSUME UNCHANGED <<election, primary>>, Vacant(v)' <=> Vacant(v), handler[c] = "running"
      PROVE  /\ election[v][c] # NoBid
             /\ Status(c, v)' = Status(c, v)
             /\ SaidLast(queue[c], belief[c][v], v, Status(c, v))
  BY <1>b, <1>o DEF Status
<1>s. ASSUME UNCHANGED <<election, primary, queue, belief>>, Vacant(v)' <=> Vacant(v), handler[c] = "running"
      PROVE  Goal
  BY <1>o, <1>s
<1>l. UNCHANGED lock => (Vacant(v)' <=> Vacant(v))
  BY DEF Vacant
\* An item that says nothing about v is posted, or taken and another posted.
<1>1. ASSUME NEW d \in Clients, Create(d) \/ StartListener(d) \/ SnapshotFails(d) PROVE Goal
  <2>1. UNCHANGED <<election, primary, queue, belief, lock>>
    BY <1>1 DEF Create, StartListener, SnapshotFails, server
  <2>2. handler[c] \in {"running", "closing"}
    BY <1>t, <2>1 DEF BidsAreOwn
  <2>3. handler[c] = "running"
    BY <1>1, <1>t, <2>2 DEF Create, StartListener, SnapshotFails, TypeOK
  <2> QED  BY <1>l, <1>s, <2>1, <2>3
<1>2. ASSUME NEW d \in Clients, Listen(d) PROVE Goal
  <2>1. UNCHANGED <<election, primary, lock, handler, belief>>
    BY <1>2 DEF Listen, ReceiveRequest, CloseStream, BreakStream, server
  <2>2. CASE queue'[c] = queue[c]
    BY <1>l, <1>o, <2>1, <2>2
  <2>3. CASE queue'[c] # queue[c]
    <3>1. PICK x \in Item : x.type # "response" /\ queue'[c] = Append(queue[c], x)
      <4>1. CASE \E u \in Vlans \cup {AllVlans}, e \in ElectionIds : ReceiveRequest(d, u, e)
        <5>1. PICK u \in Vlans \cup {AllVlans}, e \in ElectionIds : ReceiveRequest(d, u, e)
          BY <4>1
        <5>2. queue' = [queue EXCEPT ![d] = Append(@, ToRequest(u, e))] /\ d = c
          BY <2>3, <5>1, <1>t DEF ReceiveRequest, TypeOK
        <5>3. ToRequest(u, e) \in Item /\ ToRequest(u, e).type # "response"
          BY <1>t, ItemTypes DEF ToRequest
        <5>4. queue'[c] = Append(queue[c], ToRequest(u, e))
          BY <5>2, <1>t DEF TypeOK
        <5> QED  BY <5>3, <5>4
      <4>2. CASE CloseStream(d) \/ BreakStream(d)
        <5>1. queue' = [queue EXCEPT ![d] = Append(@, Exit)]
          BY <2>3, <4>2 DEF CloseStream, BreakStream, PostExit
        <5>2. queue'[c] = Append(queue[c], Exit)
          BY <1>t, <2>3, <5>1 DEF TypeOK
        <5>3. Exit \in Item /\ Exit.type # "response"
          BY DEF Item, Exit
        <5> QED  BY <5>2, <5>3
      <4> QED  BY <1>2, <4>1, <4>2 DEF Listen
    <3>2. ~Tells(x, v)
      BY <3>1 DEF Tells
    <3> QED  BY <1>l, <1>o, <1>t, <2>1, <3>1, <3>2, SaidAfterPost
  <2> QED  BY <2>2, <2>3
<1>3. ASSUME NEW d \in Clients, Yield(d) PROVE Goal
  <2> DEFINE r == Head(queue[d])
  <2>1. /\ UNCHANGED <<election, primary, lock, handler>>
        /\ queue[d] # <<>> /\ r.type = "response" /\ r \in Response
        /\ belief' = IF r.status = "ERROR" THEN belief ELSE [belief EXCEPT ![d][r.vlan] = r.status]
        /\ queue' = [queue EXCEPT ![d] = Tail(@)]
    BY <1>3, <1>t, ReceivedTypes DEF Yield, Received, server
  <2>2. /\ election[v][c] # NoBid /\ Status(c, v)' = Status(c, v)
        /\ SaidLast(queue[c], belief[c][v], v, Status(c, v))
    BY <1>l, <1>o, <2>1
  <2>3. CASE d # c
    <3>1. queue'[c] = queue[c] /\ belief'[c][v] = belief[c][v]
      BY <1>t, <2>1, <2>3 DEF TypeOK
    <3> QED  BY <2>2, <3>1
  <2>4. CASE d = c
    <3>1. queue'[c] = Tail(queue[c])
      BY <1>t, <2>1, <2>4 DEF TypeOK
    <3>2. r.status = "ERROR" => r.vlan # v
      <4>1. 1 \in DOMAIN queue[c] /\ r = queue[c][1]
        BY <1>t, <2>1, <2>4
      <4>2. r.status = "ERROR" => InterfacesIn(c, r.vlan) = {}
        BY <1>t, <2>1, <4>1 DEF BidsAreOwn, ErrorsOwn
      <4> QED  BY <1>t, <2>2, <4>2 DEF BidsAreOwn
    <3>3. belief'[c][v] = IF Tells(r, v) THEN r.status ELSE belief[c][v]
      BY <1>t, <2>1, <2>4, <3>2 DEF TypeOK, Tells, Response
    <3> QED  BY <1>t, <2>1, <2>2, <2>4, <3>1, <3>3, SaidAfterTake
  <2> QED  BY <2>3, <2>4
<1>4. ASSUME NEW d \in Clients, Finally(d), UNCHANGED <<election, primary>>, Vacant(v)' <=> Vacant(v)
      PROVE  Goal
  <2>1. c # d
    BY <1>4, <1>t DEF Finally, TypeOK
  <2>2. queue'[c] = queue[c] /\ belief'[c] = belief[c] /\ handler'[c] = handler[c]
    BY <1>4, <1>t, <2>1 DEF Finally, TypeOK
  <2> QED  BY <1>4, <1>o, <2>2
<1>5. ASSUME NEW d \in Clients, YieldBroken(d) \/ RunExit(d) \/ ArbitrateAmbiguous(d) PROVE Goal
  BY <1>5, <1>4, <1>l DEF YieldBroken, RunExit, ArbitrateAmbiguous, server
\* Taking a request.
<1>r. ASSUME NEW d \in Clients, Received(d, "request"), UNCHANGED <<election, primary>>,
             Vacant(v)' <=> Vacant(v), handler[c] = "running"
      PROVE  /\ Status(c, v)' = Status(c, v)
             /\ d = c => /\ Tail(queue[c]) \in Seq(Item)
                         /\ SaidLast(Tail(queue[c]), belief[c][v], v, Status(c, v))
             /\ d # c => SaidLast(queue[c], belief[c][v], v, Status(c, v))
  <2>1. /\ Status(c, v)' = Status(c, v)
        /\ SaidLast(queue[c], belief[c][v], v, Status(c, v))
    BY <1>o, <1>r
  <2>2. queue[d] # <<>> /\ ~Tells(Head(queue[d]), v) /\ Tail(queue[d]) \in Seq(Item)
    BY <1>r, <1>t DEF Received, Tells
  <2> QED  BY <1>t, <2>1, <2>2, SaidAfterTake
<1>6. ASSUME NEW d \in Clients, ArbitrateNoInterface(d) PROVE Goal
  <2> DEFINE r == Head(queue[d])
             x == ToResponse(r.vlan, r.id, "ERROR")
  <2>1. /\ UNCHANGED <<election, primary, lock, handler, belief>>
        /\ queue' = [queue EXCEPT ![d] = Append(Tail(@), x)]
        /\ Received(d, "request") /\ InterfacesIn(d, r.vlan) = {} /\ r.vlan # AllVlans
    BY <1>6 DEF ArbitrateNoInterface, server
  <2>2. /\ r \in Request /\ r.vlan \in Vlans /\ r.id \in ElectionIds
    BY <1>t, <2>1, ReceivedTypes DEF Received, Request
  <2>3. x \in Item /\ x.vlan = r.vlan
    BY <1>t, <2>2, ItemTypes DEF Statuses, ToResponse
  <2>4. CASE d # c
    <3>1. queue'[c] = queue[c]
      BY <1>t, <2>1, <2>4 DEF TypeOK
    <3> QED  BY <1>l, <1>r, <2>1, <2>4, <3>1
  <2>5. CASE d = c
    <3>1. queue'[c] = Append(Tail(queue[c]), x)
      BY <1>t, <2>1, <2>5 DEF TypeOK
    <3>2. ~Tells(x, v)
      BY <1>t, <2>1, <2>3, <2>5 DEF BidsAreOwn, Tells
    <3>3. /\ Status(c, v)' = Status(c, v) /\ belief'[c] = belief[c]
          /\ Tail(queue[c]) \in Seq(Item)
          /\ SaidLast(Tail(queue[c]), belief[c][v], v, Status(c, v))
      BY <1>l, <1>r, <2>1, <2>5
    <3> HIDE DEF x, r
    <3>4. SaidLast(Append(Tail(queue[c]), x), belief[c][v], v, Status(c, v))
      BY <2>3, <3>2, <3>3, SaidAfterPost
    <3> QED  BY <3>1, <3>3, <3>4
  <2> QED  BY <2>4, <2>5
<1>7. ASSUME NEW d \in Clients, ArbitrateBegin(d) PROVE Goal
  <2>1. /\ UNCHANGED <<election, primary, handler, belief>>
        /\ queue' = [queue EXCEPT ![d] = Tail(@)]
        /\ Received(d, "request")
        /\ lock.op = "free" /\ lock'.op = "arbitrate"
    BY <1>7, <1>f DEF ArbitrateBegin, Arbitration, server
  <2>2. Vacant(v)' <=> Vacant(v)
    BY <2>1 DEF Vacant
  <2>3. queue'[c] = IF d = c THEN Tail(queue[c]) ELSE queue[c]
    BY <1>t, <2>1 DEF TypeOK
  <2> QED  BY <1>r, <2>1, <2>2, <2>3
\* An election, in v or elsewhere.
<1>e. ASSUME NEW u \in Vlans, NEW bids \in Bids, NEW order, Elect(u, bids, order),
             bids = election'[u], UNCHANGED <<handler, belief>>,
             u # v => election'[v] = election[v] /\ (Vacant(v)' <=> Vacant(v))
      PROVE  Goal
  <2>e. \/ queue'[c] = queue[c] /\ ~(bids[c] # NoBid /\ handler[c] = "running")
        \/ \E x \in Item :
              /\ queue'[c] = Append(queue[c], x)
              /\ \A w : Tells(x, w) <=> w = u
              /\ x.status = IF primary'[u] = c THEN "PRIMARY" ELSE "NOT_PRIMARY"
    <3>1. TypeOK /\ Elect(u, bids, order)
      BY <1>e, <1>t
    <3> QED  BY ONLY <3>1, Elected
  <2>1. CASE u = v
    <3>0. bids[c] # NoBid /\ handler[c] = "running"
      BY <1>e, <2>1
    <3>1. PICK x \in Item : /\ queue'[c] = Append(queue[c], x)
                            /\ Tells(x, v) /\ x.status = IF primary'[v] = c THEN "PRIMARY" ELSE "NOT_PRIMARY"
      BY <2>e, <2>1, <3>0
    <3>2. x.status = Status(c, v)'
      BY <3>1 DEF Status
    <3> QED  BY <1>t, <3>1, <3>2, SaidAfterPost
  <2>2. CASE u # v
    <3>1. primary'[v] = primary[v]
      BY <1>e, <1>t, <2>2, ElectWins
    <3>2. Status(c, v)' = Status(c, v) /\ SaidLast(queue[c], belief[c][v], v, Status(c, v))
      BY <1>b, <1>e, <2>2, <3>1 DEF Status
    <3>3. \/ queue'[c] = queue[c]
          \/ \E x \in Item : queue'[c] = Append(queue[c], x) /\ ~Tells(x, v)
      BY <2>e, <2>2
    <3> QED  BY <1>e, <1>t, <3>2, <3>3, SaidAfterPost
  <2> QED  BY <2>1, <2>2
<1>8. ASSUME NEW i \in Interfaces, ArbitrateStep(i) PROVE Goal
  <2>1. PICK d, u : d = lock.client /\ u = VlanOf[i]
    OBVIOUS
  <2>2. /\ lock.op = "arbitrate" /\ lock \in Arbitrations /\ d \in Clients /\ u \in Vlans
        /\ lock.id \in ElectionIds
    BY <1>8, <1>t, <2>1, LockTypes, ClientConnectionsAssumption DEF ArbitrateStep
  <2>3. /\ election' = [election EXCEPT ![u][d] = lock.id] /\ UNCHANGED <<handler, belief>>
        /\ lock'.op = "arbitrate"
        /\ Elect(u, election'[u], older'[u])
    BY <1>8, <2>1, <2>2 DEF ArbitrateStep, Arbitrations
  <2>4. /\ election'[u] \in Bids
        /\ u # v => election'[v] = election[v]
        /\ Vacant(v)' <=> Vacant(v)
    BY <1>t, <2>2, <2>3 DEF TypeOK, Bids, Vacant
  <2> QED  BY <1>e, <2>2, <2>3, <2>4
<1>9. ASSUME ArbitrateEnd PROVE Goal
  <2>1. /\ UNCHANGED <<election, primary, handler, queue, belief>>
        /\ Vacant(v)' <=> Vacant(v)
    BY <1>9 DEF ArbitrateEnd, Free, Vacant, server
  <2> QED  BY <1>s, <2>1
<1>10. ASSUME ArbitrateFails PROVE Goal
  <2>1. PICK d \in Clients : d = lock.client
    BY <1>10, <1>t, LockTypes DEF ArbitrateFails
  <2>2. Finally(d) /\ UNCHANGED <<election, primary>> /\ (Vacant(v)' <=> Vacant(v))
    BY <1>10, <2>1 DEF ArbitrateFails, Free, Vacant, server
  <2> QED  BY <1>4, <2>2
<1>11. ASSUME NEW d \in Clients, DestroyBegin(d) PROVE Goal
  <2>1. /\ election' = [u \in Vlans |-> [election[u] EXCEPT ![d] = NoBid]]
        /\ lock.op = "free" /\ UNCHANGED <<primary, handler, queue, belief>>
    BY <1>11, <1>f DEF DestroyBegin, Withdraw
  <2>2. election[v][c] # NoBid /\ ~Vacant(v)
    BY <1>t, <2>1 DEF TypeOK, Vacant
  <2> QED  BY <1>b, <2>1, <2>2 DEF Status
<1>12. ASSUME NEW u \in Vlans, DestroyStep(u) PROVE Goal
  <2>1. /\ UNCHANGED <<election, handler, belief>>
        /\ Elect(u, election[u], older[u]) /\ election[u] \in Bids
        /\ lock \in Destructions /\ lock' = [lock EXCEPT !.todo = @ \ {u}]
    BY <1>12, <1>t, LockTypes DEF DestroyStep, TypeOK, Bids
  <2>2. u # v => (Vacant(v)' <=> Vacant(v))
    BY <2>1 DEF Vacant, Destructions
  <2> QED  BY <1>e, <2>1, <2>2
<1>13. ASSUME DestroyEnd PROVE Goal
  <2>1. /\ UNCHANGED <<election, primary, queue, belief>>
        /\ handler[c] = "running"
        /\ Vacant(v)' <=> Vacant(v)
    BY <1>13, <1>t DEF DestroyEnd, Free, Vacant, TypeOK
  <2> QED  BY <1>s, <2>1
<1>14. ASSUME NEW d \in Clients, Unregister(d) PROVE Goal
  <2>1. /\ UNCHANGED <<election, queue, belief, lock>> /\ handler[c] = "running"
        /\ connections = {} \/ UNCHANGED primary
    BY <1>14, <1>t DEF Unregister, TypeOK
  <2>2. connections # {}
    BY <2>1 DEF ToldInv, IInv, BiddersConnected
  <2> QED  BY <1>l, <1>s, <2>1, <2>2
<1>15. ASSUME UNCHANGED vars PROVE Goal
  BY <1>15, <1>l, <1>s DEF vars, server
<1> QED
  BY <1>1, <1>2, <1>3, <1>5, <1>6, <1>7, <1>8, <1>9, <1>10, <1>11, <1>12, <1>13, <1>14, <1>15
  DEF Next, Critical, Open, Run, Arbitrate

\* The last word a candidate gets about a VLAN is the truth: what other threads
\* queue for it, from elections won and lost in between, never leaves it with a
\* status the coordinator does not act on (client_connection.py:238-246).
THEOREM LastWordIsTrue == Spec => []LastWord
<1>1. ToldInv => LastWord
  <2> SUFFICES ASSUME ToldInv, NEW c \in Clients, NEW v \in Vlans,
                      handler[c] = "running", election[v][c] # NoBid, ~Vacant(v)
               PROVE  Said(c, v) = IF primary[v] = c THEN "PRIMARY" ELSE "NOT_PRIMARY"
    BY DEF LastWord
  <2>1. SaidLast(queue[c], belief[c][v], v, Status(c, v)) /\ queue[c] \in Seq(Item)
    BY DEF ToldInv, Told, IInv, TypeOK
  <2>2. Said(c, v) = Status(c, v)
    BY <2>1, SaidIsLast
  <2> QED  BY <2>2 DEF Status
<1> QED  BY <1>1, ToldInit, ToldStep, PTL DEF Spec
=============================================================================
