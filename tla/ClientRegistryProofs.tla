------------------------- MODULE ClientRegistryProofs -------------------------
(***************************************************************************)
(* Proofs about ClientRegistry, for any number of handler threads, clients *)
(* and objects, and any number of threads inside createConnection and      *)
(* destroyConnection at once (MaxBusy bounds the runs and is not used).    *)
(*                                                                         *)
(* As long as no client was connected twice, a handler's connection has    *)
(* its entry until the handler destroys it.  So every candidate has one,   *)
(* no election raises, and a handler that closes deletes its own entry.    *)
(* An object the dictionary has left is never led to again, so a handler   *)
(* that finds the dictionary's object on closing finds the one that holds  *)
(* its entry.  That an idle registry is empty says nothing of a state with *)
(* a handler at work; the invariant behind it is that an object in the     *)
(* dictionary always has somebody to remove it.                            *)
(*                                                                         *)
(* OneConnectionPerClient and EmptyWhenIdle do not hold.  The last         *)
(* theorems say that only handlers that overlap in the registry break      *)
(* them.                                                                   *)
(***************************************************************************)
EXTENDS ClientRegistry, TLAPS

\* Past the lookups a handler has an object, and between streams none; a
\* handler at work has a name, and one that serves or closes a connection.
Located ==
    \A h \in Handlers :
        /\ pc[h] # "idle" => name[h] \in Clients
        /\ pc[h] \in {"create", "finally", "drop", "destroy", "recheck", "redrop"} =>
              found[h] \in Instances
        /\ pc[h] \in {"serving", "find", "destroy"} => home[h] \in Instances
        /\ pc[h] \in {"idle", "check", "assign", "lookup", "create"} => home[h] = None

\* Somebody will look whether object i is empty, or drops the dictionary's
\* entry without looking.
Awaited(i) ==
    \E h \in Handlers :
        \/ pc[h] \in {"lookup", "drop", "redrop"}
        \/ pc[h] \in {"create", "finally", "recheck"} /\ found[h] = i

\* An object in the dictionary holds a connection, or is about to be looked at.
NoneForgotten == ases # None => Awaited(ases) \/ ~Empty(ases)

\* Two connections are never of one client, and each has its entry.
Owned ==
    ~doubled =>
        /\ \A g, h \in Handlers : Live(g) /\ Live(h) /\ name[g] = name[h] => g = h
        /\ \A h \in Handlers : Live(h) => entries[home[h]][name[h]] = h

IInv == TypeOK /\ Located /\ Owned /\ ElectedConnected /\ NoLockout /\ NoneForgotten

-----------------------------------------------------------------------------
\* Writing one entry of one object leaves all others (ClientConnections.create
\* and destroy).
LEMMA EntryWritten ==
    ASSUME TypeOK, NEW i \in Instances, NEW c \in Clients, NEW v \in Handlers \cup {None},
           entries' = [entries EXCEPT ![i][c] = v]
    PROVE  /\ entries' \in [Instances -> [Clients -> Handlers \cup {None}]]
           /\ \A j \in Instances, d \in Clients :
                 entries'[j][d] = IF j = i /\ d = c THEN v ELSE entries[j][d]
<1> DEFINE row == [entries[i] EXCEPT ![c] = v]
<1>1. entries \in [Instances -> [Clients -> Handlers \cup {None}]]
  BY DEF TypeOK
<1>2. row \in [Clients -> Handlers \cup {None}]
  BY <1>1
<1>3. \A d \in Clients : row[d] = IF d = c THEN v ELSE entries[i][d]
  BY <1>1
<1>4. entries' = [entries EXCEPT ![i] = row]
  OBVIOUS
<1> HIDE DEF row
<1>5. entries' \in [Instances -> [Clients -> Handlers \cup {None}]]
  BY <1>1, <1>2, <1>4
<1>6. \A j \in Instances : entries'[j] = IF j = i THEN row ELSE entries[j]
  BY <1>1, <1>4
<1> QED  BY <1>3, <1>5, <1>6

\* _arbitrate elects a client or nobody.
LEMMA WinnersTypes ==
    ASSUME TypeOK, NEW i \in Instances, NEW candidates \in SUBSET Clients, NEW c \in Clients
    PROVE  Winners(i, candidates, c) \subseteq Clients \cup {None}
BY DEF TypeOK, Winners

\* Every step keeps the types, and gives a handler its name and its objects
\* before it uses them.
LEMMA TypeStep ==
    ASSUME TypeOK, Located, [Next]_vars
    PROVE  TypeOK' /\ Located'
<1> USE ClientRegistryAssumption DEF objects, locals
\* The handler's stream ends, or is served from now on.
<1>a. ASSUME NEW h \in Handlers, Return(h), UNCHANGED <<entries, bids, primary, doubled>>,
             ases' \in Instances \cup {None}
      PROVE  TypeOK' /\ Located'
  <2>1. TypeOK'
    BY <1>a DEF TypeOK, Return, Goto
  <2>2. Located'
    BY <1>a DEF TypeOK, Located, Return, Goto
  <2> QED  BY <2>1, <2>2
<1>b. ASSUME NEW h \in Handlers, Goto(h, "serving"), home[h] # None, pc[h] # "idle",
             found' = [found EXCEPT ![h] = None],
             UNCHANGED <<entries, bids, primary, doubled, name, home>>,
             ases' \in Instances \cup {None}
      PROVE  TypeOK' /\ Located'
  <2>1. TypeOK'
    BY <1>b DEF TypeOK, Goto
  <2>2. Located'
    BY <1>b DEF TypeOK, Located, Goto
  <2> QED  BY <2>1, <2>2
<1>1. CASE UNCHANGED vars
  BY <1>1 DEF TypeOK, Located, vars
<1>2. ASSUME NEW h \in Handlers, NEW c \in Clients, Open(h, c)
      PROVE  TypeOK' /\ Located'
  BY <1>2 DEF TypeOK, Located, Open, Goto, InCreate, InDestroy
<1>3. ASSUME NEW h \in Handlers, Check(h) \/ Close(h)
      PROVE  TypeOK' /\ Located'
  BY <1>3 DEF TypeOK, Located, Check, Close, Goto, InCreate, InDestroy
<1>4. ASSUME NEW h \in Handlers, Assign(h)
      PROVE  TypeOK' /\ Located'
  BY <1>4 DEF TypeOK, Located, Assign, Goto, InCreate, InDestroy
<1>5. ASSUME NEW h \in Handlers, Lookup(h) \/ Find(h)
      PROVE  TypeOK' /\ Located'
  <2>1. CASE Return(h)
    BY <1>5, <1>a, <2>1 DEF TypeOK, Lookup, Find
  <2>2. CASE Lookup(h) /\ ~Return(h)
    BY <2>2 DEF TypeOK, Located, Lookup, Goto, InCreate
  <2>3. CASE Find(h) /\ ~Return(h)
    <3>1. /\ pc[h] = "find" /\ pc' = [pc EXCEPT ![h] = "destroy"] /\ ases \in Instances
          /\ found' = [found EXCEPT ![h] = ases]
          /\ UNCHANGED <<ases, entries, bids, primary, name, home, doubled>>
      BY <2>3 DEF TypeOK, Find, Goto
    <3> QED  BY <3>1 DEF TypeOK, Located, InDestroy
  <2> QED  BY <1>5, <2>1, <2>2, <2>3
<1>6. ASSUME NEW h \in Handlers, CreateEntry(h)
      PROVE  TypeOK' /\ Located'
  <2>1. found[h] \in Instances /\ name[h] \in Clients
    BY <1>6 DEF Located, CreateEntry
  <2>2. entries' \in [Instances -> [Clients -> Handlers \cup {None}]]
    BY <1>6, <2>1, EntryWritten DEF TypeOK, CreateEntry
  <2>3. doubled' \in BOOLEAN
    BY <1>6 DEF TypeOK, CreateEntry
  <2> QED  BY <1>6, <2>1, <2>2, <2>3, SMTT(30) DEF TypeOK, Located, CreateEntry, Goto, InCreate, InDestroy
<1>7. ASSUME NEW h \in Handlers, Finally(h) \/ Drop(h)
      PROVE  TypeOK' /\ Located'
  <2>1. ases' \in Instances \cup {None} /\ UNCHANGED <<entries, bids, primary, doubled>>
    BY <1>7 DEF TypeOK, Finally, Drop
  <2>2. CASE Finally(h) /\ Empty(found[h])
    <3>1. Goto(h, "drop") /\ pc[h] = "finally" /\ UNCHANGED <<ases, name, found, home>>
      BY <2>2 DEF Finally
    <3> QED  BY <2>1, <3>1 DEF TypeOK, Located, Goto, InCreate
  <2>3. CASE Return(h)
    BY <1>a, <2>1, <2>3
  <2>4. CASE /\ Goto(h, "serving") /\ home[h] # None /\ pc[h] # "idle"
             /\ found' = [found EXCEPT ![h] = None] /\ UNCHANGED <<name, home>>
    BY <1>b, <2>1, <2>4
  <2> QED  BY <1>7, <2>2, <2>3, <2>4 DEF Finally, Drop
<1>8. ASSUME NEW h \in Handlers, Bid(h)
      PROVE  TypeOK' /\ Located'
  <2> DEFINE candidates == bids[home[h]] \cup {name[h]}
  <2>1. home[h] \in Instances /\ name[h] \in Clients /\ candidates \in SUBSET Clients
    BY <1>8 DEF TypeOK, Located, Bid
  <2>2. bids' \in [Instances -> SUBSET Clients]
    BY <1>8, <2>1 DEF TypeOK, Bid
  <2>3. primary' \in [Instances -> Clients \cup {None}]
    BY <1>8, <2>1, WinnersTypes DEF TypeOK, Bid
  <2>4. pc[h] = "serving" /\ (Goto(h, "find") \/ UNCHANGED pc)
    BY <1>8 DEF Bid
  <2> QED  BY <1>8, <2>1, <2>2, <2>3, <2>4 DEF TypeOK, Located, Bid, Goto, InCreate, InDestroy
<1>9. ASSUME NEW h \in Handlers, DestroyEntry(h)
      PROVE  TypeOK' /\ Located'
  <2>1. found[h] \in Instances /\ name[h] \in Clients
    BY <1>9 DEF Located, DestroyEntry
  <2>2. entries' \in [Instances -> [Clients -> Handlers \cup {None}]]
    BY <1>9, <2>1, EntryWritten DEF TypeOK, DestroyEntry, EntryDeleted
  <2>3. Withdrawn(found[h], name[h]) \in SUBSET Clients
    BY <2>1 DEF TypeOK, Withdrawn
  <2>4. bids' \in [Instances -> SUBSET Clients]
    BY <1>9, <2>1, <2>3 DEF TypeOK, DestroyEntry
  <2>5. primary' \in [Instances -> Clients \cup {None}]
    BY <1>9, <2>1, <2>3, WinnersTypes DEF TypeOK, DestroyEntry
  <2>6. CASE Return(h)
    BY <1>9, <2>2, <2>4, <2>5, <2>6 DEF TypeOK, Located, DestroyEntry, Return, Goto, InCreate,
                                        InDestroy
  <2>7. CASE Goto(h, "recheck") /\ UNCHANGED <<name, found, home>>
    BY <1>9, <2>1, <2>2, <2>4, <2>5, <2>7 DEF TypeOK, Located, DestroyEntry, Goto, InCreate,
                                             InDestroy
  <2> QED  BY <1>9, <2>6, <2>7 DEF DestroyEntry
<1>10. ASSUME NEW h \in Handlers, Recheck(h) \/ Redrop(h)
       PROVE  TypeOK' /\ Located'
  <2>1. CASE Return(h)
    BY <1>10, <1>a, <2>1 DEF TypeOK, Recheck, Redrop
  <2>2. CASE Recheck(h) /\ ~Return(h)
    BY <2>2 DEF TypeOK, Located, Recheck, Goto, InDestroy
  <2> QED  BY <1>10, <2>1, <2>2 DEF Redrop
<1> QED
  BY <1>1, <1>2, <1>3, <1>4, <1>5, <1>6, <1>7, <1>8, <1>9, <1>10 DEF Next

\* While nobody is connected twice, every connection keeps its entry until its
\* handler deletes it, whoever else opens and closes streams.
LEMMA OwnedStep ==
    ASSUME TypeOK, Located, Owned, [Next]_vars
    PROVE  Owned'
<1> SUFFICES ASSUME ~doubled' PROVE Owned'
  BY DEF Owned
<1> USE ClientRegistryAssumption DEF TypeOK, Goto, objects, locals
\* A step that makes and deletes no entry at most ends connections.
<1>0. ASSUME UNCHANGED <<entries, doubled>>,
             \A g \in Handlers : Live(g)' => Live(g) /\ name'[g] = name[g] /\ home'[g] = home[g]
      PROVE  Owned'
  BY <1>0 DEF Owned
<1>1. CASE UNCHANGED vars
  BY <1>1 DEF Owned, Live, vars
<1>2. ASSUME NEW h \in Handlers, NEW c \in Clients, Open(h, c) PROVE Owned'
  BY <1>0, <1>2 DEF Live, Open
<1>3. ASSUME NEW h \in Handlers, Check(h) \/ Close(h) PROVE Owned'
  <2>1. \A g \in Handlers : Live(g)' => Live(g)
    BY <1>3 DEF Live, Check, Close
  <2> QED  BY <1>0, <1>3, <2>1 DEF Check, Close
\* The object made new is nobody's.
<1>4. ASSUME NEW h \in Handlers, Assign(h) PROVE Owned'
  <2>1. \A g \in Handlers : Live(g)' => Live(g) /\ entries'[home[g]] = entries[home[g]]
    BY <1>4 DEF Assign, Live, Unreachable
  <2> QED  BY <1>4, <2>1 DEF Owned, Assign
<1>5. ASSUME NEW h \in Handlers, Lookup(h) \/ Find(h) PROVE Owned'
  <2>1. \A g \in Handlers : Live(g)' => Live(g) /\ name'[g] = name[g] /\ home'[g] = home[g]
    <3>1. CASE Lookup(h)  BY <3>1 DEF Live, Lookup, Return
    <3>2. CASE Find(h)    BY <3>2 DEF Live, Find, Return
    <3> QED  BY <1>5, <3>1, <3>2
  <2> QED  BY <1>0, <1>5, <2>1 DEF Lookup, Find
\* The entry is made where there was none, for a client without a connection.
<1>6. ASSUME NEW h \in Handlers, CreateEntry(h) PROVE Owned'
  <2>1. found[h] \in Instances /\ name[h] \in Clients
    BY <1>6 DEF Located, CreateEntry
  <2>2. CASE UNCHANGED <<entries, home, doubled>>
    <3>1. pc[h] = "create" /\ pc' = [pc EXCEPT ![h] = "finally"] /\ UNCHANGED name
      BY <1>6 DEF CreateEntry
    <3>2. \A g \in Handlers \ {h} : Live(g)' => Live(g)
      BY <2>2, <3>1 DEF Live
    <3>3. ~Live(h)'
      BY <2>2, <3>1 DEF Live, Located
    <3> QED  BY <1>0, <2>2, <3>1, <3>2, <3>3
  <2>3. CASE /\ entries[found[h]][name[h]] = None
             /\ entries' = [entries EXCEPT ![found[h]][name[h]] = h]
             /\ home' = [home EXCEPT ![h] = found[h]]
             /\ doubled' = (doubled \/ \E g \in Handlers : Live(g) /\ name[g] = name[h])
    <3>1. \A j \in Instances, d \in Clients :
             entries'[j][d] = IF j = found[h] /\ d = name[h] THEN h ELSE entries[j][d]
      BY <2>1, <2>3, EntryWritten
    <3>2. \A g \in Handlers \ {h} :
             Live(g)' => /\ Live(g) /\ name[g] # name[h] /\ home'[g] = home[g]
                         /\ home[g] \in Instances /\ name[g] \in Clients
      BY <1>6, <2>3 DEF CreateEntry, Live, Located
    <3>3. \A g \in Handlers \ {h} : Live(g)' => entries'[home'[g]][name[g]] = g
      BY <2>3, <3>1, <3>2 DEF Owned
    <3>4. entries'[home'[h]][name[h]] = h
      BY <2>1, <2>3, <3>1
    <3> QED  BY <1>6, <2>3, <3>2, <3>3, <3>4 DEF Owned, CreateEntry
  <2> QED  BY <1>6, <2>2, <2>3 DEF CreateEntry
<1>7. ASSUME NEW h \in Handlers, Finally(h) \/ Drop(h) PROVE Owned'
  <2>1. \A g \in Handlers : Live(g)' => Live(g) /\ name'[g] = name[g] /\ home'[g] = home[g]
    <3>1. CASE Finally(h)  BY <3>1 DEF Live, Finally, Return
    <3>2. CASE Drop(h)     BY <3>2 DEF Live, Drop, Return
    <3> QED  BY <1>7, <3>1, <3>2
  <2> QED  BY <1>0, <1>7, <2>1 DEF Finally, Drop
<1>8. ASSUME NEW h \in Handlers, Bid(h) PROVE Owned'
  <2>1. pc[h] = "serving" /\ (pc' = [pc EXCEPT ![h] = "find"] \/ UNCHANGED pc)
    BY <1>8 DEF Bid
  <2>2. \A g \in Handlers : Live(g)' => Live(g)
    BY <1>8, <2>1 DEF Live, Bid
  <2> QED  BY <1>0, <1>8, <2>2 DEF Bid
\* Only the handler's own connection can lose its entry.
<1>9. ASSUME NEW h \in Handlers, DestroyEntry(h) PROVE Owned'
  <2>1. found[h] \in Instances /\ name[h] \in Clients /\ Live(h) /\ ~doubled
    BY <1>9 DEF Located, DestroyEntry, Live
  <2>2. \A g \in Handlers : Live(g)' => /\ Live(g) /\ g # h /\ name'[g] = name[g] /\ home'[g] = home[g]
                                        /\ home[g] \in Instances /\ name[g] \in Clients
    BY <1>9 DEF Located, DestroyEntry, Return, Live
  <2>3. \A j \in Instances, d \in Clients :
           entries'[j][d] = entries[j][d] \/ (j = found[h] /\ d = name[h])
    BY <1>9, <2>1, EntryWritten DEF DestroyEntry, EntryDeleted
  <2>4. \A g \in Handlers : Live(g)' => name[g] # name[h]
    BY <2>1, <2>2 DEF Owned
  <2> QED  BY <2>1, <2>2, <2>3, <2>4 DEF Owned
<1>10. ASSUME NEW h \in Handlers, Recheck(h) \/ Redrop(h) PROVE Owned'
  <2>1. \A g \in Handlers : Live(g)' => Live(g) /\ name'[g] = name[g] /\ home'[g] = home[g]
    <3>1. CASE Recheck(h)  BY <3>1 DEF Live, Recheck, Return
    <3>2. CASE Redrop(h)   BY <3>2 DEF Live, Redrop, Return
    <3> QED  BY <1>10, <3>1, <3>2
  <2> QED  BY <1>0, <1>10, <2>1 DEF Recheck, Redrop
<1> QED
  BY <1>1, <1>2, <1>3, <1>4, <1>5, <1>6, <1>7, <1>8, <1>9, <1>10 DEF Next

\* A bid is made with a connection, and withdrawn before its entry is deleted.
LEMMA ConnectedStep ==
    ASSUME TypeOK, Located, Owned, ElectedConnected, [Next]_vars
    PROVE  ElectedConnected'
<1> SUFFICES ASSUME ~doubled' PROVE ElectedConnected'
  BY DEF ElectedConnected
<1> USE ClientRegistryAssumption DEF TypeOK, objects, locals
<1>1. ASSUME NEW h \in Handlers, Assign(h) PROVE ElectedConnected'
  BY <1>1 DEF ElectedConnected, Assign
<1>2. ASSUME NEW h \in Handlers, CreateEntry(h) PROVE ElectedConnected'
  <2>1. found[h] \in Instances /\ name[h] \in Clients /\ ~doubled
    BY <1>2 DEF Located, CreateEntry
  <2>2. \A j \in Instances, d \in Clients : entries'[j][d] \in {entries[j][d], h}
    BY <1>2, <2>1, EntryWritten DEF CreateEntry
  <2> QED  BY <1>2, <2>1, <2>2 DEF ElectedConnected, CreateEntry
<1>3. ASSUME NEW h \in Handlers, Bid(h) PROVE ElectedConnected'
  <2>1. /\ home[h] \in Instances /\ name[h] \in Clients
        /\ entries[home[h]][name[h]] = h
    BY <1>3 DEF Located, Bid, Owned, Live
  <2>2. \A i \in Instances : bids'[i] \subseteq bids[i] \cup (IF i = home[h] THEN {name[h]} ELSE {})
    BY <1>3 DEF Bid
  <2> QED  BY <1>3, <2>1, <2>2 DEF ElectedConnected, Bid
<1>4. ASSUME NEW h \in Handlers, DestroyEntry(h) PROVE ElectedConnected'
  <2>1. found[h] \in Instances /\ name[h] \in Clients /\ ~doubled
    BY <1>4 DEF Located, DestroyEntry
  <2>2. \A j \in Instances, d \in Clients :
           entries'[j][d] = entries[j][d] \/ (j = found[h] /\ d = name[h])
    BY <1>4, <2>1, EntryWritten DEF DestroyEntry, EntryDeleted
  <2>3. \A i \in Instances : bids'[i] = IF i = found[h] THEN bids[i] \ {name[h]} ELSE bids[i]
    BY <1>4 DEF DestroyEntry, Withdrawn
  <2> SUFFICES ASSUME NEW i \in Instances, NEW d \in Clients, d \in bids'[i]
               PROVE  entries'[i][d] # None
    BY <1>4, <2>1, <2>3, ZenonT(30) DEF ElectedConnected
  <2>4. d \in bids[i] /\ ~(i = found[h] /\ d = name[h])
    <3>1. CASE i = found[h]
      <4>1. bids'[i] = bids[i] \ {name[h]}
        BY <2>3, <3>1
      <4> QED  BY <4>1
    <3>2. CASE i # found[h]
      <4>1. bids'[i] = bids[i]
        BY <2>3, <3>2
      <4> QED  BY <3>2, <4>1
    <3> QED  BY <3>1, <3>2
  <2>5. entries[i][d] # None
    BY <2>1, <2>4 DEF ElectedConnected
  <2> QED  BY <2>2, <2>4, <2>5
<1>5. CASE UNCHANGED <<entries, bids, doubled>>
  BY <1>5 DEF ElectedConnected
<1> QED
  BY <1>1, <1>2, <1>3, <1>4, <1>5
     DEF Next, vars, Open, Check, Lookup, Finally, Drop, Close, Find, Recheck, Redrop

\* No step leaves, in the object the dictionary leads to, an entry nobody
\* will remove (createConnection and destroyConnection).
LEMMA LockoutStep ==
    ASSUME TypeOK, Located, ElectedConnected, NoLockout, [Next]_vars
    PROVE  NoLockout'
<1> SUFFICES ASSUME ~doubled' PROVE NoLockout'
  BY DEF NoLockout
<1> USE ClientRegistryAssumption DEF TypeOK, Goto, objects, locals
<1>1. CASE UNCHANGED vars
  BY <1>1 DEF NoLockout, vars
<1>2. ASSUME NEW h \in Handlers, NEW c \in Clients, Open(h, c)
      PROVE  NoLockout'
  BY <1>2 DEF NoLockout, Open
<1>3. ASSUME NEW h \in Handlers, Check(h) \/ Close(h)
      PROVE  NoLockout'
  BY <1>3 DEF NoLockout, Check, Close
\* The dictionary leads to an object without entries.
<1>4. ASSUME NEW h \in Handlers, Assign(h)
      PROVE  NoLockout'
  BY <1>4 DEF NoLockout, Assign
\* A handler that closes finds the dictionary's object.
<1>5. ASSUME NEW h \in Handlers, Lookup(h) \/ Find(h)
      PROVE  NoLockout'
  BY <1>5 DEF NoLockout, Lookup, Find, Return
\* The new entry is the handler's own.
<1>6. ASSUME NEW h \in Handlers, CreateEntry(h)
      PROVE  NoLockout'
  <2>1. found[h] \in Instances /\ name[h] \in Clients /\ ~doubled
    BY <1>6 DEF Located, CreateEntry
  <2>2. CASE UNCHANGED <<entries, home>>
    BY <1>6, <2>1, <2>2 DEF NoLockout, CreateEntry
  <2>3. CASE /\ entries' = [entries EXCEPT ![found[h]][name[h]] = h]
             /\ home' = [home EXCEPT ![h] = found[h]]
    <3>1. \A j \in Instances, d \in Clients :
             entries'[j][d] = IF j = found[h] /\ d = name[h] THEN h ELSE entries[j][d]
      BY <2>1, <2>3, EntryWritten
    <3> QED  BY <1>6, <2>1, <2>3, <3>1 DEF NoLockout, CreateEntry
  <2> QED  BY <1>6, <2>2, <2>3 DEF CreateEntry
<1>7. ASSUME NEW h \in Handlers, Finally(h) \/ Drop(h)
      PROVE  NoLockout'
  BY <1>7 DEF NoLockout, Finally, Drop, Return
\* A bid that raises closes the stream.
<1>8. ASSUME NEW h \in Handlers, Bid(h)
      PROVE  NoLockout'
  BY <1>8 DEF NoLockout, Bid
\* A handler that ends with a KeyError has no entry of its name in the
\* object it found.
<1>9. ASSUME NEW h \in Handlers, DestroyEntry(h)
      PROVE  NoLockout'
  <2>1. /\ found[h] \in Instances /\ name[h] \in Clients /\ ~doubled
        /\ pc[h] = "destroy" /\ UNCHANGED ases
    BY <1>9 DEF Located, DestroyEntry
  <2>2. ~Raises(found[h], Withdrawn(found[h], name[h]))
    BY <2>1 DEF ElectedConnected, Raises, Withdrawn
  <2>3. CASE entries[found[h]][name[h]] = None
    <3>1. Return(h) /\ UNCHANGED entries
      BY <1>9, <2>3 DEF DestroyEntry
    <3> QED  BY <2>1, <2>3, <3>1 DEF NoLockout, Return
  <2>4. CASE entries[found[h]][name[h]] # None
    <3>1. /\ entries' = [entries EXCEPT ![found[h]][name[h]] = None]
          /\ Goto(h, "recheck") /\ UNCHANGED <<name, found, home>>
      BY <1>9, <2>2, <2>4 DEF DestroyEntry, EntryDeleted
    <3>2. \A j \in Instances, d \in Clients :
             entries'[j][d] = IF j = found[h] /\ d = name[h] THEN None ELSE entries[j][d]
      BY <2>1, <3>1, EntryWritten
    <3>3. SUFFICES ASSUME ases # None, NEW d \in Clients, entries'[ases][d] # None
                   PROVE  LET g == entries'[ases][d] IN
                          /\ name[g] = d
                          /\ home[g] = ases
                          /\ \/ pc'[g] \in {"finally", "drop", "serving", "find"}
                             \/ pc'[g] = "destroy" /\ found[g] = ases
      BY <2>1, <3>1 DEF NoLockout
    <3>4. entries'[ases][d] = entries[ases][d] /\ ~(ases = found[h] /\ d = name[h])
      BY <2>1, <3>2, <3>3
    <3>5. PICK g \in Handlers : g = entries[ases][d]
      BY <3>3, <3>4
    <3>6. /\ name[g] = d /\ home[g] = ases
          /\ \/ pc[g] \in {"finally", "drop", "serving", "find"}
             \/ pc[g] = "destroy" /\ found[g] = ases
      BY <2>1, <3>3, <3>4, <3>5 DEF NoLockout
    \* The entry is another handler's: this one's would have been deleted.
    <3>7. g # h
      BY <2>1, <3>4, <3>6
    <3>8. pc'[g] = pc[g]
      BY <3>1, <3>7
    <3> QED  BY <3>4, <3>5, <3>6, <3>8
  <2> QED  BY <2>3, <2>4
<1>10. ASSUME NEW h \in Handlers, Recheck(h) \/ Redrop(h)
       PROVE  NoLockout'
  BY <1>10 DEF NoLockout, Recheck, Redrop, Return
<1> QED
  BY <1>1, <1>2, <1>3, <1>4, <1>5, <1>6, <1>7, <1>8, <1>9, <1>10 DEF Next

\* No step forgets an object: whoever looks and leaves it in the dictionary
\* saw a connection, and whoever takes the last connection looks next.
LEMMA ForgottenStep ==
    ASSUME TypeOK, Located, NoneForgotten, [Next]_vars
    PROVE  NoneForgotten'
<1> USE ClientRegistryAssumption DEF TypeOK, Goto, objects, locals
<1>1. CASE UNCHANGED vars
  BY <1>1 DEF NoneForgotten, Awaited, Empty, vars
<1>2. ASSUME NEW h \in Handlers, NEW c \in Clients, Open(h, c)
      PROVE  NoneForgotten'
  BY <1>2 DEF NoneForgotten, Awaited, Empty, Open
<1>3. ASSUME NEW h \in Handlers, Check(h) \/ Close(h)
      PROVE  NoneForgotten'
  BY <1>3 DEF NoneForgotten, Awaited, Empty, Check, Close
<1>4. ASSUME NEW h \in Handlers, Assign(h)
      PROVE  NoneForgotten'
  BY <1>4 DEF NoneForgotten, Awaited, Assign
<1>5. ASSUME NEW h \in Handlers, Lookup(h) \/ Find(h)
      PROVE  NoneForgotten'
  BY <1>5 DEF NoneForgotten, Awaited, Empty, Lookup, Find, Return
<1>6. ASSUME NEW h \in Handlers, CreateEntry(h)
      PROVE  NoneForgotten'
  <2> found[h] \in Instances /\ name[h] \in Clients
    BY <1>6 DEF Located, CreateEntry
  <2> QED  BY <1>6 DEF NoneForgotten, Awaited, Empty, CreateEntry
<1>7. ASSUME NEW h \in Handlers, Finally(h)
      PROVE  NoneForgotten'
  BY <1>7 DEF NoneForgotten, Awaited, Empty, Finally, Return
<1>8. ASSUME NEW h \in Handlers, Bid(h)
      PROVE  NoneForgotten'
  BY <1>8 DEF NoneForgotten, Awaited, Empty, Bid
<1>9. ASSUME NEW h \in Handlers, DestroyEntry(h)
      PROVE  NoneForgotten'
  <2>1. found[h] \in Instances /\ name[h] \in Clients /\ pc[h] = "destroy" /\ UNCHANGED ases
    BY <1>9 DEF Located, DestroyEntry
  <2>2. CASE Return(h) /\ UNCHANGED entries
    BY <2>1, <2>2 DEF NoneForgotten, Awaited, Empty, Return
  <2>3. CASE EntryDeleted(found[h], name[h]) /\ Goto(h, "recheck") /\ UNCHANGED locals
    BY <2>1, <2>3 DEF NoneForgotten, Awaited, Empty, EntryDeleted
  <2> QED  BY <1>9, <2>2, <2>3 DEF DestroyEntry
<1>10. ASSUME NEW h \in Handlers, Recheck(h)
       PROVE  NoneForgotten'
  BY <1>10 DEF NoneForgotten, Awaited, Empty, Recheck, Return
<1>11. ASSUME NEW h \in Handlers, Drop(h) \/ Redrop(h)
       PROVE  NoneForgotten'
  BY <1>11 DEF NoneForgotten, Drop, Redrop
<1> QED
  BY <1>1, <1>2, <1>3, <1>4, <1>5, <1>6, <1>7, <1>8, <1>9, <1>10, <1>11 DEF Next

\* The inductive invariant holds in every reachable state.
THEOREM InvCorrect == Spec => []IInv
<1>1. Init => IInv
  <2> USE ClientRegistryAssumption DEF Init
  <2>1. Init => TypeOK
    <3>1. Init => /\ entries \in [Instances -> [Clients -> Handlers \cup {None}]]
                  /\ bids \in [Instances -> SUBSET Clients]
                  /\ primary \in [Instances -> Clients \cup {None}]
      OBVIOUS
    <3>2. Init => /\ pc \in [Handlers -> {"idle", "serving"} \cup InCreate \cup InDestroy]
                  /\ name \in [Handlers -> Clients \cup {None}]
                  /\ found \in [Handlers -> Instances \cup {None}]
                  /\ home \in [Handlers -> Instances \cup {None}]
      OBVIOUS
    <3> QED  BY <3>1, <3>2 DEF TypeOK
  <2>2. Init => Located
    BY DEF Located
  <2>3. Init => Owned /\ ElectedConnected /\ NoLockout /\ NoneForgotten
    BY DEF Owned, Live, ElectedConnected, NoLockout, NoneForgotten
  <2> QED  BY <2>1, <2>2, <2>3 DEF IInv
<1>2. IInv /\ [Next]_vars => IInv'
  BY TypeStep, OwnedStep, ConnectedStep, LockoutStep, ForgottenStep DEF IInv
<1> QED  BY <1>1, <1>2, PTL DEF Spec

\* The variables of the registry have their types: no handler takes a
\* missing object or name for one that is there.
THEOREM TypeCorrect == Spec => []TypeOK
<1>1. IInv => TypeOK  BY DEF IInv
<1> QED  BY <1>1, InvCorrect, PTL

\* Unless a client was connected twice, _arbitrate finds the connection of
\* every candidate, in every object and whatever closes at the same time: no
\* election ends another client's stream, and no departure fails.
THEOREM CandidatesAreConnected == Spec => []ElectedConnected
<1>1. IInv => ElectedConnected  BY DEF IInv
<1> QED  BY <1>1, InvCorrect, PTL

\* Unless a client was connected twice, and however openings, elections and
\* closings interleave, an entry a new stream could trip over belongs to a
\* stream that is open or will still remove it.
THEOREM NobodyLockedOut == Spec => []NoLockout
<1>1. IInv => NoLockout  BY DEF IInv
<1> QED  BY <1>1, InvCorrect, PTL

\* Unless a client was connected twice, the dictionary holds nothing for the AS
\* once every stream has ended: the handler that leaves last either finds its
\* object empty and drops it or finds a connection, whose handler has not ended.
LEMMA InvEmpties == IInv => EmptyUnlessDoubled
<1>1. ASSUME IInv, ~doubled, \A h \in Handlers : pc[h] = "idle", ases # None
      PROVE  FALSE
  <2> USE <1>1, ClientRegistryAssumption DEF IInv, TypeOK
  <2>1. ~Awaited(ases)
    BY DEF Awaited
  <2>2. PICK c \in Clients : entries[ases][c] # None
    BY <2>1 DEF NoneForgotten, Empty
  <2>3. entries[ases][c] \in Handlers
    BY <2>2
  <2> QED  BY <2>2, <2>3 DEF NoLockout
<1> QED  BY <1>1 DEF EmptyUnlessDoubled, EmptyWhenIdle

\* However streams open, bid and end, nothing is left in the registry for an AS
\* of which every stream has ended, unless a client was connected twice.
THEOREM RegistryEmpties == Spec => []EmptyUnlessDoubled
BY InvEmpties, InvCorrect, PTL

-----------------------------------------------------------------------------
Busy(h) == pc[h] \in InCreate \cup InDestroy

\* No two threads are in createConnection or destroyConnection at once, as if
\* the dictionary had a lock.
Serial == \A g, h \in Handlers : Busy(g) /\ Busy(h) => g = h

\* The registry leads to the handler's connection.
Attached(h) == ases # None /\ home[h] = ases /\ entries[ases][name[h]] = h

StreamsFound == \A h \in Handlers : Serving(h) => Attached(h)

\* What one thread at a time can rely on, statement by statement.
SerialAt(h) ==
    /\ pc[h] \in {"serving", "find", "destroy"} => Attached(h)
    /\ pc[h] = "finally" /\ home[h] # None => Attached(h)
    /\ pc[h] = "assign" => ases = None
    /\ pc[h] \in {"create", "finally", "drop", "destroy", "recheck", "redrop"} =>
          found[h] = ases
    /\ pc[h] \in {"drop", "redrop"} => Empty(found[h])
    /\ pc[h] \in {"idle", "check", "assign", "lookup", "create", "drop"} => home[h] = None

SerialInv == ~doubled /\ \A h \in Handlers : SerialAt(h)

\* While a handler is in the registry, of the others only the streams that are
\* served matter.
LEMMA OthersServe ==
    ASSUME TypeOK, SerialInv, Serial, NEW h \in Handlers, Busy(h), SerialAt(h)', ~doubled',
           \A g \in Handlers \ {h} :
               /\ pc'[g] = pc[g] /\ home'[g] = home[g]
               /\ pc[g] = "serving" => Attached(g)'
    PROVE  SerialInv'
<1>1. ASSUME NEW g \in Handlers, g # h PROVE SerialAt(g)'
  <2>1. pc[g] \in {"idle", "serving", "abort"}
    BY <1>1 DEF TypeOK, Serial, Busy
  <2> QED  BY <1>1, <2>1 DEF SerialInv, SerialAt
<1> QED  BY <1>1 DEF SerialInv

\* Every statement keeps what one thread at a time can rely on.
LEMMA SerialStep ==
    ASSUME TypeOK, Located, SerialInv, Serial, Serial', [Next]_vars
    PROVE  SerialInv'
<1> USE ClientRegistryAssumption DEF TypeOK, Goto, Busy, InCreate, InDestroy, objects, locals
<1>1. CASE UNCHANGED vars
  BY <1>1 DEF SerialInv, SerialAt, Attached, Empty, vars
<1>2. ASSUME NEW h \in Handlers, NEW c \in Clients, Open(h, c) PROVE SerialInv'
  BY <1>2 DEF SerialInv, SerialAt, Serial, Attached, Empty, Open
<1>3. ASSUME NEW h \in Handlers, Check(h) \/ Close(h) PROVE SerialInv'
  BY <1>3 DEF SerialInv, SerialAt, Serial, Attached, Empty, Check, Close
\* Nobody is served while the dictionary has no object.
<1>4. ASSUME NEW h \in Handlers, Assign(h) PROVE SerialInv'
  BY <1>4 DEF SerialInv, SerialAt, Serial, Attached, Empty, Assign
<1>5. ASSUME NEW h \in Handlers, Lookup(h) \/ Find(h) PROVE SerialInv'
  BY <1>5 DEF SerialInv, SerialAt, Serial, Attached, Empty, Lookup, Find, Return
<1>6. ASSUME NEW h \in Handlers, CreateEntry(h) PROVE SerialInv'
  <2>1. /\ found[h] = ases /\ ases \in Instances /\ name[h] \in Clients /\ home[h] = None
        /\ pc[h] = "create" /\ pc' = [pc EXCEPT ![h] = "finally"] /\ UNCHANGED <<ases, name, found>>
    BY <1>6 DEF SerialInv, SerialAt, Located, CreateEntry
  <2>2. ASSUME UNCHANGED <<entries, home, doubled>> PROVE SerialInv'
    BY <2>1, <2>2, OthersServe DEF SerialInv, SerialAt, Attached
  <2>3. ASSUME entries[ases][name[h]] = None,
               entries' = [entries EXCEPT ![ases][name[h]] = h],
               home' = [home EXCEPT ![h] = ases],
               doubled' = (doubled \/ \E g \in Handlers : Live(g) /\ name[g] = name[h])
        PROVE  SerialInv'
    <3>1. /\ entries'[ases][name[h]] = h
          /\ \A d \in Clients : d # name[h] => entries'[ases][d] = entries[ases][d]
      BY <2>1, <2>3, EntryWritten
    <3>2. \A g \in Handlers : pc[g] = "serving" => name[g] # name[h] /\ name[g] \in Clients
      BY <2>3 DEF SerialInv, SerialAt, Attached, Located
    <3>3. \A g \in Handlers : Live(g) => pc[g] = "serving"
      BY <2>1 DEF Serial, Live
    <3>4. ~doubled'
      BY <2>3, <3>2, <3>3 DEF SerialInv
    <3> QED  BY <2>1, <2>3, <3>1, <3>2, <3>4, OthersServe, SMTT(30) DEF SerialInv, SerialAt, Attached
  <2> QED  BY <1>6, <2>1, <2>2, <2>3 DEF CreateEntry
\* The object is dropped only if it is empty, and then serves nobody.
<1>7. ASSUME NEW h \in Handlers, Finally(h) \/ Drop(h) PROVE SerialInv'
  <2>1. \A g \in Handlers : Attached(g) => name[g] \in Clients \/ pc[g] = "idle"
    BY DEF Located
  <2>2. ASSUME NEW g \in Handlers, Attached(g), pc[g] # "idle" PROVE ~Empty(ases)
    BY <2>1, <2>2 DEF Attached, Empty
  <2>3. CASE Finally(h)
    BY <2>2, <2>3, OthersServe DEF SerialInv, SerialAt, Attached, Empty, Finally, Return
  <2>4. CASE Drop(h)
    BY <2>2, <2>4, OthersServe DEF SerialInv, SerialAt, Attached, Empty, Drop, Return
  <2> QED  BY <1>7, <2>3, <2>4
\* The entry that is deleted is the handler's own.
<1>8. ASSUME NEW h \in Handlers, DestroyEntry(h) PROVE SerialInv'
  <2>1. /\ found[h] = ases /\ ases \in Instances /\ name[h] \in Clients /\ Attached(h)
        /\ pc[h] = "destroy" /\ entries[ases][name[h]] # None
    BY <1>8 DEF SerialInv, SerialAt, Located, Attached, DestroyEntry
  <2>a. CASE Return(h) /\ UNCHANGED <<ases, entries, doubled>>
    BY <2>1, <2>a, OthersServe DEF SerialInv, SerialAt, Attached, Return
  <2>b. SUFFICES ASSUME EntryDeleted(found[h], name[h]), Goto(h, "recheck"),
                        UNCHANGED <<ases, doubled, name, found, home>>
                 PROVE  SerialInv'
    BY <1>8, <2>a DEF DestroyEntry
  <2>2. /\ entries' = [entries EXCEPT ![ases][name[h]] = None]
        /\ pc' = [pc EXCEPT ![h] = "recheck"] /\ UNCHANGED <<ases, name, found, home, doubled>>
    BY <2>1, <2>b DEF EntryDeleted
  <2>3. \A d \in Clients : d # name[h] => entries'[ases][d] = entries[ases][d]
    BY <2>1, <2>2, EntryWritten
  <2>4. \A g \in Handlers \ {h} : pc[g] = "serving" => name[g] # name[h] /\ name[g] \in Clients
    BY <2>1 DEF SerialInv, SerialAt, Attached, Located
  <2> QED  BY <2>1, <2>2, <2>3, <2>4, OthersServe DEF SerialInv, SerialAt, Attached
<1>9. ASSUME NEW h \in Handlers, Recheck(h) PROVE SerialInv'
  BY <1>9, OthersServe DEF SerialInv, SerialAt, Attached, Empty, Recheck, Return
<1>10. ASSUME NEW h \in Handlers, Redrop(h) PROVE SerialInv'
  <2>1. /\ Empty(ases) /\ pc[h] = "redrop" /\ ases' = None /\ Return(h)
        /\ UNCHANGED <<entries, doubled>>
    BY <1>10 DEF SerialInv, SerialAt, Redrop
  <2>2. \A g \in Handlers : pc[g] # "serving"
    BY <2>1 DEF SerialInv, SerialAt, Attached, Empty, Located
  <2> QED  BY <2>1, <2>2, OthersServe DEF SerialInv, SerialAt, Return
\* A bid reads the entries and writes none.
<1>11. ASSUME NEW h \in Handlers, Bid(h) PROVE SerialInv'
  <2>1. /\ pc[h] = "serving" /\ (pc' = [pc EXCEPT ![h] = "find"] \/ UNCHANGED pc)
        /\ UNCHANGED <<ases, entries, name, found, home, doubled>>
    BY <1>11 DEF Bid
  <2> QED  BY <2>1 DEF SerialInv, SerialAt, Attached, Empty
<1> QED
  BY <1>1, <1>2, <1>3, <1>4, <1>5, <1>6, <1>7, <1>8, <1>9, <1>10, <1>11 DEF Next

\* What one thread at a time can rely on is always so.
LEMMA SerialInvariant == Spec /\ []Serial => []SerialInv
<1>1. Init => SerialInv
  BY DEF Init, SerialInv, SerialAt
<1>2. IInv /\ SerialInv /\ Serial /\ Serial' /\ [Next]_vars => SerialInv'
  BY SerialStep DEF IInv
<1> QED  BY <1>1, <1>2, InvCorrect, PTL DEF Spec

\* While handlers do not overlap in the registry, the connection of every open
\* stream is found there, by elections and link updates
\* (client_connection.py:265-291).
THEOREM SerialStreamsAreFound == Spec /\ []Serial => []StreamsFound
<1>1. SerialInv => StreamsFound
  BY DEF SerialInv, SerialAt, StreamsFound, Serving
<1> QED  BY <1>1, SerialInvariant, PTL

\* So a client is connected once (client_connection.py:263): the second
\* connection, with which RegistryStuck begins, takes two handlers in the
\* registry at once.
THEOREM SerialConnectsOnce == Spec /\ []Serial => []OneConnectionPerClient
<1>1. StreamsFound => OneConnectionPerClient
  BY DEF StreamsFound, OneConnectionPerClient, Attached
<1> QED  BY <1>1, SerialStreamsAreFound, PTL

\* And the registry empties, as tests/test_api.py:485 expects: what RegistryStuck
\* leaves behind takes two handlers in the registry at once as well.
THEOREM SerialEmpties == Spec /\ []Serial => []EmptyWhenIdle
<1>1. SerialInv /\ EmptyUnlessDoubled => EmptyWhenIdle
  BY DEF SerialInv, EmptyUnlessDoubled
<1> QED  BY <1>1, SerialInvariant, RegistryEmpties, PTL
=============================================================================
