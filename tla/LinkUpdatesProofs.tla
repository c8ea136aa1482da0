--------------------------- MODULE LinkUpdatesProofs ---------------------------
(***************************************************************************)
(* Proofs about LinkUpdates, for any ASes, clients and number of           *)
(* transactions at a time: what is in the tables and dictionaries, that    *)
(* links settle and that the clients' views agree with them.               *)
(*                                                                         *)
(* One inductive invariant serves all: what each statement of a            *)
(* transaction has got right of a pair of ASes (Progress, Settled), and    *)
(* which rows a client does not know of yet and why (Pending, Views).      *)
(*                                                                         *)
(* For each action a lemma says what it does (...Effect), and another that *)
(* this keeps the invariant (...Keeps).                                    *)
(***************************************************************************)
EXTENDS LinkUpdates, FiniteSetTheorems, TLAPS

\* The statements a transaction can be at.
Step == {"collect", "delete", "tell", "create"}

\* A transaction that runs.
Tx == [step : Step, accept : SUBSET ASes, web : BOOLEAN, unlink : BOOLEAN,
       doomed : SUBSET Row, told : SUBSET Row, gone : SUBSET Row, made : SUBSET Row,
       add : SUBSET ASes, mail : Seq(Update), size : Int, seen : SUBSET Clients,
       met : SUBSET ASes]

\* What the variables hold, each record of a transaction in full.
Types ==
    /\ accepts \in [ASes -> SUBSET ASes]
    /\ links \subseteq Row
    /\ tx \in [ASes -> {Idle} \cup Tx]
    /\ connections \in [ASes -> Seq(Clients)]
    /\ stream \in [Clients -> {"off", "registered", "open"}]
    /\ fresh \in [Clients -> SUBSET Row]
    /\ view \in [Clients -> SUBSET Row]
    /\ excuses \in [Clients -> SUBSET ({"raced", "failed", "rejected", "unsent"} \X Pairs)]
    /\ unsettled \subseteq Pairs

\* The dictionary of an AS has its clients whose streams are not off, each once;
\* what is believed or still to be sent belongs to such a stream.
Registered ==
    /\ \A a \in ASes : \A n \in 1..Len(connections[a]) :
          /\ AsOf[connections[a][n]] = a
          /\ stream[connections[a][n]] # "off"
          /\ \A k \in 1..Len(connections[a]) : connections[a][k] = connections[a][n] => k = n
    /\ \A c \in Clients : stream[c] # "off" =>
          \E n \in 1..Len(connections[AsOf[c]]) : connections[AsOf[c]][n] = c
    /\ \A c \in Clients : stream[c] = "off" => view[c] = {}
    /\ \A c \in Clients : stream[c] # "open" => fresh[c] = {}

\* What a transaction has not done before it comes to its statement.
ShapeOf(t) ==
    /\ t.step \in {"collect", "delete"} => t.gone = {} /\ t.made = {} /\ t.mail = <<>>
    /\ t.step = "tell" => t.made = {} /\ \A n \in 1..Len(t.mail) : t.mail[n].type = "DESTROY"
    /\ t.step = "create" => t.told = {} /\ \A n \in 1..Len(t.mail) : t.mail[n].type = "CREATE"
    /\ t.step # "create" => t.add = {}
    /\ t.mail = <<>> => t.size = 0 /\ t.seen = {}
    /\ t.web => t.mail = <<>>

\* Each running transaction has this shape.
Shape == \A a \in Running : ShapeOf(tx[a])

\* A transaction of AS a is about links of a, and one that deletes a link in the
\* admin site makes none.
OwnOf(a, t) ==
    /\ a \notin t.accept /\ a \notin t.add
    /\ \A r \in t.doomed \cup t.told \cup t.gone \cup t.made : a \in Pair(r)
    /\ \A n \in 1..Len(t.mail) : a \in Pair(t.mail[n].row)
    /\ t.unlink => t.add = {} /\ t.made = {} /\ t.step # "collect"

\* Besides, transactions that run together have met, and their pair is unsettled:
\* each may have read what the other is about to change.
Own ==
    /\ \A a \in ASes : a \notin accepts[a]
    /\ \A a \in Running : OwnOf(a, tx[a])
    /\ \A a \in Running : tx[a].unlink => tx[a].accept = accepts[a]
    /\ \A a \in Running : \A b \in Running \ {a} : b \in tx[a].met /\ {a, b} \in unsettled

\* Among rows there is one of pair p; two sets have the same rows of p.
Some(p, rows) == \E r \in Row : Pair(r) = p /\ r \in rows
Same(p, rows, others) == \A r \in Row : Pair(r) = p => (r \in rows <=> r \in others)

\* Both sides accept each other, as a's transaction sees it.
Agreed(a, b) == b \in tx[a].accept /\ a \in accepts[b]

\* What each statement of a's transaction has got right of the pair with b.
Settles(a, b) ==
    LET t == tx[a]
        p == {a, b} IN
    /\ t.step = "delete" =>
          \A r \in Row : Pair(r) = p => (r \in t.doomed <=> r \in links /\ ~Agreed(a, b))
    /\ t.step = "tell" =>
          \A r \in Row : Pair(r) = p => (r \in t.gone <=> r \in links /\ ~Agreed(a, b))
    /\ t.step = "create" =>
          /\ Agreed(a, b) => b \in t.add \/ Some(p, Visible(a))
          /\ ~Agreed(a, b) => b \notin t.add /\ ~Some(p, Visible(a))

\* A transaction gets every pair right that nobody disturbed since it began.
Progress ==
    \A a \in Running : ~tx[a].unlink => \A b \in ASes \ {a} :
        b \notin tx[a].met \/ {a, b} \notin unsettled => Settles(a, b)

\* What LinksSettle says, also of pairs with a transaction running.
Settled == \A p \in Pairs \ unsettled : Some(p, links) <=> Mutual(p)

\* No reason is known why c should be wrong about p.
Clean(c, p) == ~ \E e \in excuses[c] : e[2] = p

\* An update about row r is on its way from a's transaction to client c.
Pending(a, c, r) ==
    \/ tx[a].step = "tell" /\ r \in tx[a].told
    \/ \E n \in 1..Len(tx[a].mail) :
          /\ tx[a].mail[n].row = r /\ tx[a].mail[n].to = AsOf[c]
          /\ ~(n = 1 /\ c \in tx[a].seen)

\* The view of c and the updates on their way are what a's transaction sees; the
\* web process sends none, and before its deletes a transaction sees what all see.
Follows(a, c, p) ==
    LET t == tx[a] IN
    /\ t.web \/ t.step \in {"collect", "delete"} => Same(p, view[c], links)
    /\ t.step = "delete" => Same(p, t.told, t.doomed)
    /\ ~t.web /\ t.step \in {"tell", "create"} =>
          \A r \in Row : Pair(r) = p =>
              /\ ~Pending(a, c, r) => (r \in view[c] <=> r \in Visible(a))
              /\ Pending(a, c, r) => /\ r \in t.gone \cup t.made
                                     /\ r \in Visible(a) <=> t.step = "create"

\* What c knows of p, before its links are read, while they are being sent, and
\* while a transaction of one of the two is running.
Tracked(c, p) ==
    /\ stream[c] = "registered" => p \cap Running = {} /\ Same(p, view[c], {})
    /\ stream[c] = "open" =>
          /\ p \cap Running = {} => Same(p, view[c] \cup fresh[c], links)
          /\ \A a \in p \cap Running :
                p \cap Running = {a} /\ Same(p, fresh[c], {}) /\ Follows(a, c, p)

\* Clients of an interface know the pairs of their AS.
Views == \A c \in Holders, p \in Pairs : AsOf[c] \in p /\ Clean(c, p) => Tracked(c, p)

\* The inductive invariant.
IInv == Types /\ Registered /\ Shape /\ Own /\ Progress /\ Settled /\ Views

-----------------------------------------------------------------------------
\* The reasons in excuses.
Reasons == {"raced", "failed", "rejected", "unsent"}

\* The idle record is none of a transaction.
LEMMA RunningTx ==
    ASSUME Types, NEW a \in ASes
    PROVE  /\ a \in Running <=> tx[a] \in Tx
           /\ a \in Running <=> tx[a].step # "idle"
           /\ a \notin Running <=> tx[a] = Idle
BY DEF Types, Running, Tx, Idle, Step

\* Two different ASes are a pair, and every pair is of two.
LEMMA PairsOf ==
    /\ \A a, b \in ASes : a # b => {a, b} \in Pairs
    /\ \A p \in Pairs : p \subseteq ASes /\ \A a \in p : \E b \in ASes \ {a} : p = {a, b}
    /\ \A r \in Row : Pair(r) \in Pairs /\ r[1] \in ASes /\ r[2] \in ASes /\ r[1] # r[2]
    /\ \A r : Pair(r) = {r[1], r[2]}
<1>1. ASSUME NEW a \in ASes, NEW b \in ASes, a # b
      PROVE  {a, b} \in Pairs
  <2>1. <<a, b>> \in Row /\ Pair(<<a, b>>) = {a, b}
    BY <1>1 DEF Row, Pair
  <2> QED  BY <2>1 DEF Pairs
<1>2. \A r \in Row : r[1] \in ASes /\ r[2] \in ASes /\ r[1] # r[2]
  BY DEF Row
<1>3. ASSUME NEW p \in Pairs
      PROVE  p \subseteq ASes /\ \A a \in p : \E b \in ASes \ {a} : p = {a, b}
  <2>1. PICK r \in Row : p = {r[1], r[2]}
    BY DEF Pairs, Pair
  <2>2. p \subseteq ASes
    BY <1>2, <2>1
  <2>3. ASSUME NEW a \in p PROVE \E b \in ASes \ {a} : p = {a, b}
    BY <1>2, <2>1
  <2> QED  BY <2>2, <2>3
<1> QED  BY <1>1, <1>2, <1>3 DEF Pairs, Pair

\* Reasons are added only.
LEMMA ExcusedOf ==
    ASSUME Types, NEW why \in Reasons, NEW cs, NEW ps \in SUBSET Pairs
    PROVE  /\ Excused(why, cs, ps) \in [Clients -> SUBSET (Reasons \X Pairs)]
           /\ \A c \in Clients, p \in Pairs :
                 ~ (\E e \in Excused(why, cs, ps)[c] : e[2] = p) =>
                    /\ Clean(c, p)
                    /\ c \in cs \cap Holders /\ p \in ps => stream[c] = "off"
<1> DEFINE New(c) ==
      IF stream[c] = "off" \/ c \notin cs \cap Holders THEN {}
      ELSE {<<why, p>> : p \in {q \in ps : ~ \E e \in excuses[c] : e[2] = q}}
<1>1. Excused(why, cs, ps) = [c \in Clients |-> excuses[c] \cup New(c)]
  BY DEF Excused
<1>2. \A c \in Clients : New(c) \subseteq Reasons \X Pairs
  OBVIOUS
<1>3. \A c \in Clients : excuses[c] \subseteq Reasons \X Pairs
  BY DEF Types, Reasons
<1>4. ASSUME NEW c \in Clients, NEW p \in Pairs, c \in cs \cap Holders, p \in ps,
             stream[c] # "off", Clean(c, p)
      PROVE  \E e \in New(c) : e[2] = p
  <2>1. <<why, p>> \in New(c)
    BY <1>4 DEF Clean
  <2> HIDE DEF New
  <2> QED  BY <2>1
<1> HIDE DEF New
<1>5. Excused(why, cs, ps) \in [Clients -> SUBSET (Reasons \X Pairs)]
  BY <1>1, <1>2, <1>3
<1>6. ASSUME NEW c \in Clients, NEW p \in Pairs, ~ \E e \in Excused(why, cs, ps)[c] : e[2] = p
      PROVE  /\ Clean(c, p)
             /\ c \in cs \cap Holders /\ p \in ps => stream[c] = "off"
  <2>1. ~ \E e \in excuses[c] \cup New(c) : e[2] = p
    BY <1>1, <1>6
  <2>2. Clean(c, p)
    BY <2>1 DEF Clean
  <2> QED  BY <1>4, <2>1, <2>2
<1> QED  BY <1>5, <1>6

-----------------------------------------------------------------------------
\* A statement of a's transaction leaves the others, and what a is doing.
Works(a) ==
    /\ a \in ASes /\ tx[a] \in Tx /\ tx'[a] \in Tx
    /\ tx' \in [ASes -> {Idle} \cup Tx]
    /\ \A b \in ASes \ {a} : tx'[b] = tx[b]
    /\ tx'[a].accept = tx[a].accept /\ tx'[a].web = tx[a].web
    /\ tx'[a].unlink = tx[a].unlink /\ tx'[a].met = tx[a].met
    /\ Running' = Running
    /\ UNCHANGED <<accepts, links, unsettled, connections, stream, fresh, excuses>>

\* It suffices to know the new record of the transaction.
LEMMA Working ==
    ASSUME Types, NEW a \in Running, NEW u \in Tx, tx' = [tx EXCEPT ![a] = u],
           u.accept = tx[a].accept, u.web = tx[a].web,
           u.unlink = tx[a].unlink, u.met = tx[a].met,
           UNCHANGED <<accepts, links, unsettled, connections, stream, fresh, excuses>>
    PROVE  Works(a) /\ tx'[a] = u
<1>1. a \in ASes /\ tx[a] \in Tx /\ tx \in [ASes -> {Idle} \cup Tx]
  BY RunningTx DEF Running, Types
<1>2. tx' \in [ASes -> {Idle} \cup Tx] /\ tx'[a] = u /\ \A b \in ASes \ {a} : tx'[b] = tx[b]
  BY <1>1
<1>3. u # Idle
  BY DEF Tx, Idle, Step
<1>4. Running' = Running
  BY <1>1, <1>2, <1>3 DEF Running
<1> QED  BY <1>1, <1>2, <1>4 DEF Works

\* What Collect changes.
LEMMA CollectEffect ==
    ASSUME Types, NEW a \in Running, Collect(a)
    PROVE  LET t == tx[a]
               u == tx'[a]
               old == {r \in LinksOf(a) : Pair(r) \cap MutuallyAccepted(a) = {}} IN
           /\ Works(a) /\ view' = view
           /\ t.step = "collect" /\ u.step = "delete" /\ u.doomed = old /\ u.told = old
           /\ <<u.gone, u.made, u.add, u.mail, u.size, u.seen>>
               = <<t.gone, t.made, t.add, t.mail, t.size, t.seen>>
<1> DEFINE old == {r \in LinksOf(a) : Pair(r) \cap MutuallyAccepted(a) = {}}
<1> DEFINE u == [tx[a] EXCEPT !.doomed = old, !.told = old, !.step = "delete"]
<1>1. tx[a] \in Tx /\ "delete" \in Step
  BY RunningTx DEF Running, Step
<1>2. old \in SUBSET Row
  BY <1>1 DEF LinksOf, Visible, Types, Tx
<1>3. tx' = [tx EXCEPT ![a] = u]
  BY DEF Collect
<1>4. /\ u \in Tx /\ u.step = "delete" /\ u.doomed = old /\ u.told = old
      /\ <<u.gone, u.made, u.add, u.mail, u.size, u.seen, u.accept, u.web, u.unlink, u.met>>
               = <<tx[a].gone, tx[a].made, tx[a].add, tx[a].mail, tx[a].size, tx[a].seen,
                   tx[a].accept, tx[a].web, tx[a].unlink, tx[a].met>>
  <2> HIDE DEF old
  <2> QED  BY <1>1, <1>2 DEF Tx
<1> HIDE DEF u, old
<1>5. Works(a) /\ tx'[a] = u
  BY <1>3, <1>4, Working DEF Collect, streams
<1> QED  BY <1>4, <1>5 DEF Collect, streams, old

\* What Delete changes.
LEMMA DeleteEffect ==
    ASSUME Types, NEW a \in Running, Delete(a)
    PROVE  LET t == tx[a]
               u == tx'[a] IN
           /\ Works(a) /\ view' = view
           /\ t.step = "delete" /\ u.step = "tell" /\ u.gone = t.gone \cup t.doomed /\ u.doomed = {}
           /\ <<u.told, u.made, u.add, u.mail, u.size, u.seen>>
               = <<t.told, t.made, t.add, t.mail, t.size, t.seen>>
<1> DEFINE u == [tx[a] EXCEPT !.gone = @ \cup tx[a].doomed, !.doomed = {}, !.step = "tell"]
<1>1. tx[a] \in Tx /\ "tell" \in Step
  BY RunningTx DEF Running, Step
<1>2. tx' = [tx EXCEPT ![a] = u]
  BY DEF Delete
<1>3. /\ u \in Tx /\ u.step = "tell" /\ u.gone = tx[a].gone \cup tx[a].doomed /\ u.doomed = {}
      /\ <<u.told, u.made, u.add, u.mail, u.size, u.seen, u.accept, u.web, u.unlink, u.met>>
               = <<tx[a].told, tx[a].made, tx[a].add, tx[a].mail, tx[a].size, tx[a].seen,
                   tx[a].accept, tx[a].web, tx[a].unlink, tx[a].met>>
  BY <1>1 DEF Tx
<1> HIDE DEF u
<1>4. Works(a) /\ tx'[a] = u
  BY <1>2, <1>3, Working DEF Delete, streams
<1> QED  BY <1>3, <1>4 DEF Delete, streams

\* The two messages about a row, or none.
LEMMA MailTypes ==
    ASSUME NEW t \in Tx, NEW type \in {"CREATE", "DESTROY"}, NEW r \in Row
    PROVE  /\ MailOf(t, type, r) \in Seq(Update)
           /\ t.web => MailOf(t, type, r) = <<>>
           /\ ~t.web =>
                 /\ Len(MailOf(t, type, r)) = 2
                 /\ MailOf(t, type, r)[1].to = r[1]
                 /\ MailOf(t, type, r)[2].to = r[2]
           /\ \A n \in 1..Len(MailOf(t, type, r)) :
                 MailOf(t, type, r)[n].row = r /\ MailOf(t, type, r)[n].type = type
<1>1. r[1] \in ASes /\ r[2] \in ASes
  BY PairsOf
<1> DEFINE x == [type |-> type, row |-> r, to |-> r[1]]
<1> DEFINE y == [type |-> type, row |-> r, to |-> r[2]]
<1>2. /\ x \in Update /\ y \in Update
      /\ x.row = r /\ x.type = type /\ x.to = r[1]
      /\ y.row = r /\ y.type = type /\ y.to = r[2]
  BY <1>1 DEF Update
<1>3. MailOf(t, type, r) = IF t.web THEN <<>> ELSE <<x, y>>
  BY DEF MailOf, Messages
<1> HIDE DEF x, y
<1>4. /\ <<x, y>> \in Seq(Update) /\ Len(<<x, y>>) = 2
      /\ <<x, y>>[1] = x /\ <<x, y>>[2] = y /\ \A n \in 1..2 : n = 1 \/ n = 2
  BY <1>2
<1>5. /\ <<>> \in Seq(Update) /\ Len(<<>>) = 0
  OBVIOUS
<1> QED  BY <1>2, <1>3, <1>4, <1>5

\* What TellDeleted changes.
LEMMA TellEffect ==
    ASSUME Types, NEW a \in Running, TellDeleted(a)
    PROVE  LET t == tx[a]
               u == tx'[a] IN
           /\ Works(a) /\ view' = view
           /\ t.step = "tell" /\ u.step = "tell" /\ t.mail = <<>>
           /\ \E r \in t.told : u.told = t.told \ {r} /\ u.mail = MailOf(t, "DESTROY", r)
           /\ <<u.doomed, u.gone, u.made, u.add, u.size, u.seen>>
               = <<t.doomed, t.gone, t.made, t.add, t.size, t.seen>>
<1>1. tx[a] \in Tx
  BY RunningTx DEF Running
<1>2. PICK r \in tx[a].told :
         tx' = [tx EXCEPT ![a].told = @ \ {r}, ![a].mail = MailOf(tx[a], "DESTROY", r)]
  BY DEF TellDeleted
<1> DEFINE mail == MailOf(tx[a], "DESTROY", r)
<1> DEFINE u == [tx[a] EXCEPT !.told = @ \ {r}, !.mail = mail]
<1>3. mail \in Seq(Update)
  BY <1>1, MailTypes DEF Tx
<1>4. tx' = [tx EXCEPT ![a] = u]
  BY <1>2
<1>5. /\ u \in Tx /\ u.told = tx[a].told \ {r} /\ u.mail = mail
      /\ <<u.step, u.doomed, u.gone, u.made, u.add, u.size, u.seen, u.accept, u.web, u.unlink, u.met>>
               = <<tx[a].step, tx[a].doomed, tx[a].gone, tx[a].made, tx[a].add, tx[a].size, tx[a].seen,
                   tx[a].accept, tx[a].web, tx[a].unlink, tx[a].met>>
  <2> HIDE DEF mail
  <2> QED  BY <1>1, <1>3 DEF Tx
<1> HIDE DEF u, mail
<1>6. Works(a) /\ tx'[a] = u
  BY <1>4, <1>5, Working DEF TellDeleted, streams
<1>7. \E q \in tx[a].told : u.told = tx[a].told \ {q} /\ u.mail = MailOf(tx[a], "DESTROY", q)
  BY <1>5 DEF mail
<1> QED  BY <1>5, <1>6, <1>7 DEF TellDeleted, streams

\* What FindPeers changes.
LEMMA FindPeersEffect ==
    ASSUME Types, NEW a \in Running, FindPeers(a)
    PROVE  LET t == tx[a]
               u == tx'[a] IN
           /\ Works(a) /\ view' = view
           /\ t.step = "tell" /\ u.step = "create" /\ t.mail = <<>> /\ t.told = {}
           /\ u.add = IF t.unlink THEN {} ELSE MutuallyAccepted(a) \ ConnectedPeers(a)
           /\ <<u.doomed, u.told, u.gone, u.made, u.mail, u.size, u.seen>>
               = <<t.doomed, t.told, t.gone, t.made, t.mail, t.size, t.seen>>
<1> DEFINE add == IF tx[a].unlink THEN {} ELSE MutuallyAccepted(a) \ ConnectedPeers(a)
<1> DEFINE u == [tx[a] EXCEPT !.step = "create", !.add = add]
<1>1. tx[a] \in Tx /\ "create" \in Step
  BY RunningTx DEF Running, Step
<1>2. add \in SUBSET ASes
  BY <1>1 DEF MutuallyAccepted, Tx
<1>3. tx' = [tx EXCEPT ![a] = u]
  BY DEF FindPeers
<1>4. /\ u \in Tx /\ u.step = "create" /\ u.add = add
      /\ <<u.doomed, u.told, u.gone, u.made, u.mail, u.size, u.seen, u.accept, u.web, u.unlink, u.met>>
               = <<tx[a].doomed, tx[a].told, tx[a].gone, tx[a].made, tx[a].mail, tx[a].size,
                   tx[a].seen, tx[a].accept, tx[a].web, tx[a].unlink, tx[a].met>>
  <2> HIDE DEF add
  <2> QED  BY <1>1, <1>2 DEF Tx
<1> HIDE DEF u, add
<1>5. Works(a) /\ tx'[a] = u
  BY <1>3, <1>4, Working DEF FindPeers, streams
<1> QED  BY <1>4, <1>5 DEF FindPeers, streams, add

\* The row chosen for two ASes is a row of their pair.
LEMMA RowOfTypes ==
    ASSUME NEW a \in ASes, NEW b \in ASes, a # b
    PROVE  RowOf(a, b) \in Row /\ Pair(RowOf(a, b)) = {a, b}
BY DEF RowOf, Row, Pair

\* What CreateLink changes.
LEMMA CreateEffect ==
    ASSUME Types, NEW a \in Running, a \notin tx[a].add, NEW b \in ASes, CreateLink(a, b)
    PROVE  LET t == tx[a]
               u == tx'[a] IN
           /\ Works(a) /\ view' = view
           /\ t.step = "create" /\ u.step = "create" /\ t.mail = <<>>
           /\ b \in t.add /\ u.add = t.add \ {b} /\ b # a
           /\ RowOf(a, b) \notin Visible(a) /\ u.made = t.made \cup {RowOf(a, b)}
           /\ u.mail = MailOf(t, "CREATE", RowOf(a, b))
           /\ <<u.doomed, u.told, u.gone, u.size, u.seen>>
               = <<t.doomed, t.told, t.gone, t.size, t.seen>>
<1>1. tx[a] \in Tx /\ a \in ASes /\ b \in tx[a].add /\ b # a
  BY RunningTx DEF Running, CreateLink
<1> DEFINE r == RowOf(a, b)
<1> DEFINE mail == MailOf(tx[a], "CREATE", r)
<1> DEFINE u == [tx[a] EXCEPT !.add = @ \ {b}, !.made = @ \cup {r}, !.mail = mail]
<1>2. r \in Row /\ mail \in Seq(Update)
  BY <1>1, RowOfTypes, MailTypes
<1>3. tx' = [tx EXCEPT ![a] = u]
  BY DEF CreateLink
<1>4. /\ u \in Tx /\ u.add = tx[a].add \ {b} /\ u.made = tx[a].made \cup {r} /\ u.mail = mail
      /\ <<u.step, u.doomed, u.told, u.gone, u.size, u.seen, u.accept, u.web, u.unlink, u.met>>
               = <<tx[a].step, tx[a].doomed, tx[a].told, tx[a].gone, tx[a].size,
                   tx[a].seen, tx[a].accept, tx[a].web, tx[a].unlink, tx[a].met>>
  <2> HIDE DEF r, mail
  <2> QED  BY <1>1, <1>2 DEF Tx
<1> HIDE DEF u, mail, r
<1>5. Works(a) /\ tx'[a] = u
  BY <1>3, <1>4, Working DEF CreateLink, streams
<1> QED  BY <1>1, <1>4, <1>5 DEF CreateLink, streams, r, mail

\* One turn of the iteration: the receivers of an update have all seen it, or
\* the next one, d, does.
SendEffect(a) ==
    LET t == tx[a]
        u == tx'[a]
        m == t.mail[1]
        receivers == connections[m.to] IN
    /\ Works(a)
    /\ t.mail # <<>> /\ m \in Update
    /\ <<u.step, u.doomed, u.told, u.gone, u.made, u.add>>
        = <<t.step, t.doomed, t.told, t.gone, t.made, t.add>>
    /\ \/ /\ \A n \in 1..Len(receivers) : receivers[n] \in t.seen
          /\ u.mail = Tail(t.mail) /\ u.size = 0 /\ u.seen = {} /\ view' = view
       \/ /\ u.mail = t.mail
          /\ \E n \in 1..Len(receivers) :
                LET d == receivers[n] IN
                /\ d \in Clients /\ d \notin t.seen /\ u.seen = t.seen \cup {d}
                /\ view' = IF d \in Holders THEN [view EXCEPT ![d] = Put(@, m)] ELSE view

\* Of the positions not yet served the iterator takes the first.
LEMMA Sending ==
    ASSUME Types, NEW a \in Running, Send(a)
    PROVE  SendEffect(a)
<1> DEFINE t == tx[a]
<1> DEFINE m == t.mail[1]
<1> DEFINE receivers == connections[m.to]
<1> DEFINE unseen == {n \in 1..Len(receivers) : receivers[n] \notin t.seen}
<1>1. t \in Tx /\ t.mail # <<>> /\ Head(t.mail) = m /\ m \in Update /\ t.mail \in Seq(Update)
  <2>1. t \in Tx /\ t.mail # <<>>
    BY RunningTx DEF Running, Send
  <2>2. t.mail \in Seq(Update)
    BY <2>1 DEF Tx
  <2> QED  BY <2>1, <2>2
<1>2. m.to \in ASes /\ receivers \in Seq(Clients)
  BY <1>1 DEF Update, Types
<1>5. UNCHANGED <<accepts, links, unsettled, connections, stream, fresh, excuses>>
  BY DEF Send
<1>3. CASE /\ unseen = {}
           /\ tx' = [tx EXCEPT ![a].mail = Tail(@), ![a].size = 0, ![a].seen = {}]
           /\ UNCHANGED view
  <2> DEFINE rest == Tail(t.mail)
  <2> DEFINE u == [t EXCEPT !.mail = rest, !.size = 0, !.seen = {}]
  <2>1. rest \in Seq(Update)
    BY <1>1
  <2>2. tx' = [tx EXCEPT ![a] = u]
    BY <1>3
  <2>3. /\ u \in Tx /\ u.mail = rest /\ u.size = 0 /\ u.seen = {}
        /\ <<u.step, u.doomed, u.told, u.gone, u.made, u.add, u.accept, u.web, u.unlink, u.met>>
              = <<t.step, t.doomed, t.told, t.gone, t.made, t.add, t.accept, t.web, t.unlink, t.met>>
    <3> HIDE DEF m, receivers, unseen, rest, t
    <3>1. t \in Tx /\ rest \in Seq(Update) /\ 0 \in Int
      BY <1>1, <2>1
    <3>2. u \in Tx
      BY ONLY <3>1 DEF Tx
    <3> QED  BY ONLY <3>1, <3>2 DEF Tx
  <2> HIDE DEF u
  <2>4. Works(a) /\ tx'[a] = u
    BY <1>5, <2>2, <2>3, Working
  <2>5. \A n \in 1..Len(receivers) : receivers[n] \in t.seen
    BY <1>3
  <2> QED  BY <1>1, <1>3, <2>3, <2>4, <2>5 DEF SendEffect
<1>4. ASSUME NEW n \in unseen,
             tx' = [tx EXCEPT ![a].seen = @ \cup {receivers[n]}, ![a].size = Len(receivers)],
             view' = IF receivers[n] \in Holders
                     THEN [view EXCEPT ![receivers[n]] = Put(@, m)] ELSE view
      PROVE  SendEffect(a)
  <2> DEFINE d == receivers[n]
  <2> DEFINE u == [t EXCEPT !.seen = @ \cup {d}, !.size = Len(receivers)]
  <2>1. n \in 1..Len(receivers) /\ d \in Clients /\ d \notin t.seen /\ Len(receivers) \in Int
    BY <1>2
  <2>2. tx' = [tx EXCEPT ![a] = u]
    BY <1>4
  <2>3. /\ u \in Tx /\ u.mail = t.mail /\ u.seen = t.seen \cup {d}
        /\ <<u.step, u.doomed, u.told, u.gone, u.made, u.add, u.accept, u.web, u.unlink, u.met>>
              = <<t.step, t.doomed, t.told, t.gone, t.made, t.add, t.accept, t.web, t.unlink, t.met>>
    <3> HIDE DEF d, receivers
    <3> QED  BY <1>1, <2>1 DEF Tx
  <2> HIDE DEF u
  <2>4. Works(a) /\ tx'[a] = u
    BY <1>5, <2>2, <2>3, Working
  <2> QED  BY <1>1, <1>4, <2>1, <2>3, <2>4 DEF SendEffect
<1> QED  BY <1>1, <1>3, <1>4 DEF Send

\* What other threads and streams leave of a transaction.
Alike(t, u) ==
    /\ t \in Tx /\ u \in Tx
    /\ <<u.step, u.accept, u.web, u.unlink, u.told, u.gone, u.made, u.add, u.mail>>
        = <<t.step, t.accept, t.web, t.unlink, t.told, t.gone, t.made, t.add, t.mail>>

\* The other transactions have met one of a.
Meets(a) ==
    /\ tx' \in [ASes -> {Idle} \cup Tx]
    /\ \A b \in Running \ {a} :
          LET t == tx[b]
              u == tx'[b] IN
          /\ Alike(t, u) /\ u.met = t.met \cup {a}
          /\ <<u.doomed, u.size, u.seen>> = <<t.doomed, t.size, t.seen>>

\* Meet adds to what the running transactions have met, and nothing else.
LEMMA Meeting ==
    ASSUME Types, NEW a \in ASes
    PROVE  /\ Meet(a) \in [ASes -> {Idle} \cup Tx]
           /\ \A b \in Running :
                 LET t == tx[b]
                     u == Meet(a)[b] IN
                 /\ Alike(t, u) /\ u.met = t.met \cup {a}
                 /\ <<u.doomed, u.size, u.seen>> = <<t.doomed, t.size, t.seen>>
           /\ \A b \in ASes \ Running : Meet(a)[b] = Idle
<1>1. ASSUME NEW b \in Running
      PROVE  LET t == tx[b]
                 u == [t EXCEPT !.met = @ \cup {a}] IN
             /\ Alike(t, u) /\ u.met = t.met \cup {a}
             /\ <<u.doomed, u.size, u.seen>> = <<t.doomed, t.size, t.seen>>
  <2>1. tx[b] \in Tx
    BY RunningTx DEF Running
  <2>2. [tx[b] EXCEPT !.met = @ \cup {a}] \in Tx
    BY <2>1 DEF Tx
  <2> QED  BY <2>1, <2>2 DEF Alike, Tx
<1>2. \A b \in ASes : Meet(a)[b] = IF b \in Running THEN [tx[b] EXCEPT !.met = @ \cup {a}] ELSE Idle
  BY DEF Meet
<1>3. \A b \in Running : b \in ASes
  BY DEF Running
<1>4. \A b \in Running : Meet(a)[b] \in Tx
  BY <1>1, <1>2, <1>3 DEF Alike
<1>5. Meet(a) \in [ASes -> {Idle} \cup Tx]
  BY <1>2, <1>4 DEF Meet
<1> QED  BY <1>1, <1>2, <1>3, <1>5

\* What Begin changes of the transactions.
LEMMA BeginEffect ==
    ASSUME Types, NEW a \in ASes, NEW t \in Tx, Begin(a, t)
    PROVE  /\ Meets(a) /\ a \notin Running /\ Running' = Running \cup {a}
           /\ tx'[a] = t
           /\ unsettled' = unsettled \cup {{a, b} : b \in Running}
           /\ UNCHANGED <<accepts, links, connections, stream, fresh, view>>
<1>1. tx[a] = Idle /\ tx' = [Meet(a) EXCEPT ![a] = t]
  BY DEF Begin
<1>2. a \notin Running
  BY <1>1 DEF Running
<1>3. tx' \in [ASes -> {Idle} \cup Tx] /\ tx'[a] = t /\ \A b \in ASes \ {a} : tx'[b] = Meet(a)[b]
  BY <1>1, Meeting
<1>4. \A u \in Tx : u # Idle
  BY DEF Tx, Idle, Step
<1>5. \A b \in Running : b \in ASes /\ b # a /\ tx'[b] \in Tx
  BY <1>2, <1>3, Meeting DEF Running, Alike
<1>6. \A b \in ASes \ (Running \cup {a}) : tx'[b] = Idle
  BY <1>3, Meeting
<1>7. Running' = Running \cup {a}
  BY <1>3, <1>4, <1>5, <1>6 DEF Running
<1>8. Meets(a)
  BY <1>3, <1>5, Meeting DEF Meets
<1> QED  BY <1>2, <1>3, <1>7, <1>8 DEF Begin

\* What AdminPolicies changes.
LEMMA AdminPoliciesEffect ==
    ASSUME Types, NEW a \in ASes, NEW accept, AdminPolicies(a, accept)
    PROVE  /\ Meets(a) /\ a \notin Running /\ Running' = Running
           /\ accepts' = [accepts EXCEPT ![a] = accept]
           /\ unsettled' = unsettled \cup {{a, b} : b \in (accept \ accepts[a]) \cup (accepts[a] \ accept)}
           /\ UNCHANGED <<links, connections, stream, fresh, view, excuses>>
<1>1. tx[a] = Idle /\ tx' = Meet(a)
  BY DEF AdminPolicies
<1>2. a \notin Running
  BY <1>1 DEF Running
<1>3. \A u \in Tx : u # Idle
  BY DEF Tx, Idle, Step
<1>4. \A b \in Running : b \in ASes /\ b # a /\ tx'[b] \in Tx
  BY <1>1, <1>2, Meeting DEF Running, Alike
<1>5. Running' = Running
  BY <1>1, <1>3, <1>4, Meeting DEF Running
<1>6. Meets(a)
  BY <1>1, <1>4, Meeting DEF Meets
<1> QED  BY <1>2, <1>5, <1>6 DEF AdminPolicies, streams

-----------------------------------------------------------------------------
\* The state a transaction begins with.
Begun(a, t) ==
    /\ t \in Tx /\ a \notin t.accept
    /\ t.gone = {} /\ t.made = {} /\ t.add = {} /\ t.mail = <<>> /\ t.size = 0 /\ t.seen = {}
    /\ t.met = Running /\ t.told = t.doomed
    /\ \/ t.step = "collect" /\ t.unlink = FALSE /\ t.doomed = {}
       \/ /\ t.step = "delete" /\ t.unlink = TRUE /\ t.web = TRUE /\ t.accept = accepts[a]
          /\ \A r \in t.doomed : a \in Pair(r)

\* A transaction for AS a begins.  Only open streams all of whose links have been
\* sent, and only pairs whose other side is not at work, can still be clean.
Opens(a) ==
    /\ Meets(a) /\ Begun(a, tx'[a])
    /\ a \in ASes /\ a \notin Running /\ Running' = Running \cup {a}
    /\ unsettled' = unsettled \cup {{a, b} : b \in Running}
    /\ excuses' \in [Clients -> SUBSET (Reasons \X Pairs)]
    /\ \A c \in Holders, p \in Pairs : Clean(c, p)' =>
          /\ Clean(c, p)
          /\ a \in p /\ stream[c] # "off" => ~Opening(c) /\ ~(p \ {a} \subseteq Running)
    /\ UNCHANGED <<accepts, links, connections, stream, fresh, view>>

\* A transaction starts with nothing done.
LEMMA StartsSo ==
    ASSUME NEW a \in ASes, NEW step \in {"collect", "delete"},
           NEW accept \in SUBSET ASes, a \notin accept, NEW web \in BOOLEAN,
           NEW doomed \in SUBSET Row,
           step = "collect" => doomed = {},
           step = "delete" => web /\ accept = accepts[a] /\ \A r \in doomed : a \in Pair(r)
    PROVE  Begun(a, Started(step, accept, web, doomed))
<1> DEFINE mail == <<>>
<1> DEFINE unlink == step = "delete"
<1> DEFINE t == [step |-> step, accept |-> accept, web |-> web, unlink |-> unlink,
                 doomed |-> doomed, told |-> doomed, gone |-> {}, made |-> {}, add |-> {},
                 mail |-> mail, size |-> 0, seen |-> {}, met |-> Running]
<1>1. /\ mail \in Seq(Update) /\ Running \in SUBSET ASes /\ 0 \in Int /\ step \in Step
      /\ unlink \in BOOLEAN
  BY DEF Running, Step
<1>2. Started(step, accept, web, doomed) = t
  BY DEF Started
<1> HIDE DEF mail, unlink
<1>3. t \in Tx
  BY <1>1 DEF Tx
<1>4. /\ t.step = step /\ t.accept = accept /\ t.web = web /\ t.unlink = unlink
      /\ t.doomed = doomed /\ t.told = doomed /\ t.gone = {} /\ t.made = {} /\ t.add = {}
      /\ t.mail = mail /\ t.size = 0 /\ t.seen = {} /\ t.met = Running
  OBVIOUS
<1> HIDE DEF t
<1>5. Begun(a, t)
  BY <1>3, <1>4 DEF Begun, mail, unlink
<1> QED  BY <1>2, <1>5

\* Begin leaves clean what does not race with it.
LEMMA BeginsOpening ==
    ASSUME Types, NEW a \in ASes, NEW t, Begun(a, t), Begin(a, t)
    PROVE  Opens(a)
<1>1. t \in Tx
  BY DEF Begun
<1>2. /\ Meets(a) /\ a \notin Running /\ Running' = Running \cup {a} /\ tx'[a] = t
      /\ unsettled' = unsettled \cup {{a, b} : b \in Running}
      /\ UNCHANGED <<accepts, links, connections, stream, fresh, view>>
  BY <1>1, BeginEffect
<1> DEFINE raced(c) == {p \in Pairs : a \in p /\ (Opening(c) \/ p \ {a} \subseteq Running)}
<1>3. \A c \in Clients : excuses'[c] = Excused("raced", {c}, raced(c))[c]
  BY DEF Begin
<1>4. ASSUME NEW c \in Clients
      PROVE  /\ excuses'[c] \in SUBSET (Reasons \X Pairs)
             /\ c \in Holders => \A p \in Pairs : Clean(c, p)' =>
                  /\ Clean(c, p)
                  /\ a \in p /\ stream[c] # "off" => ~Opening(c) /\ ~(p \ {a} \subseteq Running)
  <2> DEFINE ps == raced(c)
  <2>1. "raced" \in Reasons /\ ps \in SUBSET Pairs
    BY DEF Reasons
  <2> DEFINE E == Excused("raced", {c}, ps)
  <2>2. /\ E \in [Clients -> SUBSET (Reasons \X Pairs)]
        /\ \A d \in Clients, p \in Pairs : ~ (\E e \in E[d] : e[2] = p) =>
              Clean(d, p) /\ (d \in {c} \cap Holders /\ p \in ps => stream[d] = "off")
    <3> HIDE DEF ps
    <3> QED  BY <2>1, ExcusedOf
  <2>3. excuses'[c] = E[c]
    BY <1>3
  <2> HIDE DEF E
  <2>4. \A p \in Pairs : Clean(c, p)' <=> ~ (\E e \in E[c] : e[2] = p)
    BY <2>3 DEF Clean
  <2> QED  BY <2>2, <2>3, <2>4
<1>5. excuses' = [c \in Clients |-> excuses'[c]]
  BY DEF Begin
<1>6. excuses' \in [Clients -> SUBSET (Reasons \X Pairs)]
  BY <1>4, <1>5
<1>7. \A c \in Holders : c \in Clients
  BY LinkUpdatesAssumption
<1> QED  BY <1>2, <1>4, <1>6, <1>7 DEF Opens

\* All three ways to begin a transaction are a Begin.
LEMMA StartsOpening ==
    ASSUME Types, Own,
           \/ \E a \in ASes : AdminUpdateLinks(a)
           \/ \E a \in ASes, accept \in SUBSET ASes : a \notin accept /\ ChangePolicies(a, accept)
           \/ \E r \in Row : AdminDeleteLink(r)
    PROVE  \E a \in ASes : Opens(a)
<1>1. ASSUME NEW a \in ASes, AdminUpdateLinks(a)
      PROVE  Opens(a)
  <2> DEFINE t == Started("collect", accepts[a], TRUE, {})
  <2>1. accepts[a] \in SUBSET ASes /\ a \notin accepts[a]
    BY DEF Types, Own
  <2>2. Begun(a, t)
    BY <2>1, StartsSo
  <2>3. Begin(a, t)
    BY <1>1 DEF AdminUpdateLinks
  <2> QED  BY <2>2, <2>3, BeginsOpening
<1>2. ASSUME NEW a \in ASes, NEW accept \in SUBSET ASes, a \notin accept, ChangePolicies(a, accept)
      PROVE  Opens(a)
  <2> DEFINE t == Started("collect", accept, FALSE, {})
  <2>1. Begun(a, t)
    BY <1>2, StartsSo
  <2>2. Begin(a, t)
    BY <1>2 DEF ChangePolicies
  <2> QED  BY <2>1, <2>2, BeginsOpening
<1>3. ASSUME NEW r \in Row, AdminDeleteLink(r)
      PROVE  Opens(r[1])
  <2> DEFINE a == r[1]
  <2> DEFINE t == Started("delete", accepts[a], TRUE, {r})
  <2>1. a \in ASes /\ a \in Pair(r) /\ accepts[a] \in SUBSET ASes /\ a \notin accepts[a]
    BY PairsOf DEF Types, Own
  <2>2. Begun(a, t)
    BY <2>1, StartsSo
  <2>3. Begin(a, t)
    BY <1>3 DEF AdminDeleteLink
  <2> QED  BY <2>1, <2>2, <2>3, BeginsOpening
<1> QED  BY <1>1, <1>2, <1>3, PairsOf

-----------------------------------------------------------------------------
\* A transaction of AS a ends; the others go on.
Ends(a) ==
    /\ a \in Running /\ tx[a] \in Tx
    /\ tx' \in [ASes -> {Idle} \cup Tx] /\ Running' = Running \ {a}
    /\ \A b \in Running \ {a} :
          LET t == tx[b]
              u == tx'[b] IN
          /\ Alike(t, u)
          /\ <<u.met, u.size, u.seen>> = <<t.met, t.size, t.seen>>
          /\ \A r : r \in u.doomed => r \in t.doomed
          /\ \A r : a \notin Pair(r) => (r \in u.doomed <=> r \in t.doomed)
    /\ excuses' \in [Clients -> SUBSET (Reasons \X Pairs)]
    /\ UNCHANGED <<connections, stream, fresh, view>>

\* Without effect: open streams can be clean where nothing was done, or told.
Undone(a) ==
    /\ Ends(a) /\ \A b \in Running \ {a} : tx'[b] = tx[b]
    /\ \A c \in Holders, p \in Pairs : Clean(c, p)' =>
          /\ Clean(c, p)
          /\ stream[c] # "off" /\ ~tx[a].web =>
                \A r \in tx[a].gone \cup tx[a].made : Pair(r) # p
    /\ UNCHANGED <<accepts, links, unsettled>>

\* What Rollback changes.
LEMMA RollbackEffect ==
    ASSUME Types, NEW a \in Running, NEW why \in Reasons, Rollback(a, why)
    PROVE  Undone(a)
<1>1. a \in ASes /\ tx[a] \in Tx /\ tx \in [ASes -> {Idle} \cup Tx]
  BY RunningTx DEF Running, Types
<1>2. tx' = [tx EXCEPT ![a] = Idle]
  BY DEF Rollback
<1>3. tx' \in [ASes -> {Idle} \cup Tx] /\ Running' = Running \ {a}
  BY <1>1, <1>2 DEF Running
<1>4. ASSUME NEW b \in Running \ {a}
      PROVE  tx'[b] = tx[b] /\ tx[b] \in Tx
  BY <1>1, <1>2, RunningTx DEF Running
<1> DEFINE ps == {Pair(r) : r \in tx[a].gone \cup tx[a].made}
<1>5. ps \in SUBSET Pairs
  BY <1>1 DEF Tx, Pairs
<1> DEFINE E == Excused(why, Clients, ps)
<1>6. /\ E \in [Clients -> SUBSET (Reasons \X Pairs)]
      /\ \A d \in Clients, p \in Pairs : ~ (\E e \in E[d] : e[2] = p) =>
            Clean(d, p) /\ (d \in Clients \cap Holders /\ p \in ps => stream[d] = "off")
  <2> HIDE DEF ps
  <2> QED  BY <1>5, ExcusedOf
<1>7. excuses' = IF tx[a].web THEN excuses ELSE E
  BY DEF Rollback
<1> HIDE DEF E
<1>8. excuses' \in [Clients -> SUBSET (Reasons \X Pairs)]
  BY <1>6, <1>7 DEF Types, Reasons
<1>9. ASSUME NEW c \in Holders, NEW p \in Pairs, Clean(c, p)'
      PROVE  /\ Clean(c, p)
             /\ stream[c] # "off" /\ ~tx[a].web =>
                   \A r \in tx[a].gone \cup tx[a].made : Pair(r) # p
  <2>1. c \in Clients
    BY LinkUpdatesAssumption
  <2>2. CASE tx[a].web
    BY <1>7, <1>9, <2>2 DEF Clean
  <2>3. CASE ~tx[a].web
    <3>1. ~ (\E e \in E[c] : e[2] = p)
      BY <1>7, <1>9, <2>3 DEF Clean
    <3> QED  BY <1>6, <2>1, <2>3, <3>1
  <2> QED  BY <2>2, <2>3
<1>10. Ends(a)
  BY <1>1, <1>3, <1>4, <1>8 DEF Ends, Alike, Rollback
<1> QED  BY <1>4, <1>9, <1>10 DEF Undone, Rollback

\* Committed: what it read is what all read.
Committed(a) ==
    LET t == tx[a] IN
    /\ Ends(a)
    /\ t.step = "create" /\ t.mail = <<>> /\ t.add = {}
    /\ accepts' = [accepts EXCEPT ![a] = t.accept] /\ links' = Visible(a)
    /\ t.unlink => unsettled' = unsettled \cup {Pair(r) : r \in t.gone}
    /\ ~t.unlink => unsettled' = unsettled \ {{a, b} : b \in ASes \ t.met}
    /\ \A c \in Holders, p \in Pairs : Clean(c, p)' =>
          /\ Clean(c, p)
          /\ stream[c] # "off" /\ t.web => \A r \in t.gone \cup t.made : Pair(r) # p

\* What Commit changes.
LEMMA CommitEffect ==
    ASSUME Types, Own, NEW a \in Running, Commit(a)
    PROVE  Committed(a)
<1>1. a \in ASes /\ tx[a] \in Tx
  BY RunningTx DEF Running
<1>2. tx' = [b \in ASes |-> IF b \in Others(a) THEN [tx[b] EXCEPT !.doomed = @ \ tx[a].gone]
                            ELSE Idle]
  BY DEF Commit
<1>3. ASSUME NEW b \in Running \ {a}
      PROVE  LET t == tx[b]
                 u == tx'[b] IN
             /\ b \in ASes /\ Alike(t, u)
             /\ <<u.met, u.size, u.seen>> = <<t.met, t.size, t.seen>>
             /\ u.doomed = t.doomed \ tx[a].gone
  <2>1. b \in ASes /\ tx[b] \in Tx
    BY RunningTx DEF Running
  <2> DEFINE left == tx[b].doomed \ tx[a].gone
  <2> DEFINE u == [tx[b] EXCEPT !.doomed = left]
  <2>2. tx'[b] = u
    BY <1>2, <2>1 DEF Others
  <2>3. left \in SUBSET Row
    BY <2>1 DEF Tx
  <2> HIDE DEF left
  <2>4. u \in Tx
    BY <2>1, <2>3 DEF Tx
  <2>5. /\ u.doomed = left
        /\ <<u.step, u.accept, u.web, u.unlink, u.told, u.gone, u.made, u.add, u.mail,
             u.met, u.size, u.seen>>
            = <<tx[b].step, tx[b].accept, tx[b].web, tx[b].unlink, tx[b].told, tx[b].gone,
                tx[b].made, tx[b].add, tx[b].mail, tx[b].met, tx[b].size, tx[b].seen>>
    BY <2>1 DEF Tx
  <2> HIDE DEF u
  <2> QED  BY <2>1, <2>2, <2>4, <2>5 DEF Alike, left
<1>4. \A b \in ASes \ (Running \ {a}) : tx'[b] = Idle
  BY <1>2 DEF Others
<1>5. \A u \in Tx : u # Idle
  BY DEF Tx, Idle, Step
<1>6. \A b \in Running \ {a} : b \in ASes /\ tx'[b] \in Tx
  BY <1>3 DEF Alike
<1>7. tx' \in [ASes -> {Idle} \cup Tx]
  <2>1. DOMAIN tx' = ASes /\ tx' = [b \in ASes |-> tx'[b]]
    BY <1>2
  <2>2. \A b \in ASes : tx'[b] \in {Idle} \cup Tx
    BY <1>4, <1>6
  <2> HIDE <1>2
  <2> QED  BY <2>1, <2>2
<1>8. Running' = Running \ {a}
  BY <1>4, <1>5, <1>6 DEF Running
<1>9. \A r \in tx[a].gone : a \in Pair(r)
  BY DEF Own, OwnOf
<1> DEFINE ps == {Pair(r) : r \in tx[a].gone \cup tx[a].made}
<1>10. ps \in SUBSET Pairs
  BY <1>1 DEF Tx, Pairs
<1> DEFINE E == Excused("unsent", Clients, ps)
<1>11. /\ E \in [Clients -> SUBSET (Reasons \X Pairs)]
       /\ \A d \in Clients, p \in Pairs : ~ (\E e \in E[d] : e[2] = p) =>
             Clean(d, p) /\ (d \in Clients \cap Holders /\ p \in ps => stream[d] = "off")
  <2> HIDE DEF ps
  <2>1. "unsent" \in Reasons
    BY DEF Reasons
  <2> QED  BY <1>10, <2>1, ExcusedOf
<1>12. excuses' = IF tx[a].web THEN E ELSE excuses
  BY DEF Commit
<1> HIDE DEF E
<1>13. excuses' \in [Clients -> SUBSET (Reasons \X Pairs)]
  BY <1>11, <1>12 DEF Types, Reasons
<1>14. ASSUME NEW c \in Holders, NEW p \in Pairs, Clean(c, p)'
       PROVE  /\ Clean(c, p)
              /\ stream[c] # "off" /\ tx[a].web =>
                    \A r \in tx[a].gone \cup tx[a].made : Pair(r) # p
  <2>1. c \in Clients
    BY LinkUpdatesAssumption
  <2>2. CASE ~tx[a].web
    BY <1>12, <1>14, <2>2 DEF Clean
  <2>3. CASE tx[a].web
    <3>1. ~ (\E e \in E[c] : e[2] = p)
      BY <1>12, <1>14, <2>3 DEF Clean
    <3> QED  BY <1>11, <2>1, <2>3, <3>1
  <2> QED  BY <2>2, <2>3
<1>15. Ends(a)
  <2>1. \A b \in Running \ {a} :
          LET t == tx[b]
              u == tx'[b] IN
          /\ Alike(t, u)
          /\ <<u.met, u.size, u.seen>> = <<t.met, t.size, t.seen>>
          /\ \A r : r \in u.doomed => r \in t.doomed
          /\ \A r : a \notin Pair(r) => (r \in u.doomed <=> r \in t.doomed)
    BY <1>3, <1>9
  <2> HIDE <1>2, <1>3
  <2> QED  BY <1>1, <1>7, <1>8, <1>13, <2>1 DEF Ends, Commit
<1>16. /\ tx[a].step = "create" /\ tx[a].mail = <<>> /\ tx[a].add = {}
       /\ accepts' = [accepts EXCEPT ![a] = tx[a].accept] /\ links' = Visible(a)
       /\ unsettled' = IF tx[a].unlink THEN unsettled \cup {Pair(r) : r \in tx[a].gone}
                       ELSE unsettled \ {{a, b} : b \in ASes \ tx[a].met}
  BY DEF Commit, Finished
<1> QED  BY <1>14, <1>15, <1>16 DEF Committed

-----------------------------------------------------------------------------
\* A sequence without its n-th element.
LEMMA Removed ==
    ASSUME NEW S, NEW s \in Seq(S), NEW n \in 1..Len(s)
    PROVE  LET left == SubSeq(s, 1, n - 1) \o SubSeq(s, n + 1, Len(s)) IN
           /\ left \in Seq(S) /\ Len(left) = Len(s) - 1
           /\ \A k \in 1..Len(left) : left[k] = IF k < n THEN s[k] ELSE s[k + 1]
<1> DEFINE front == SubSeq(s, 1, n - 1)
<1> DEFINE back == SubSeq(s, n + 1, Len(s))
<1>1. Len(s) \in Nat /\ n \in Nat /\ 1 <= n /\ n <= Len(s)
  OBVIOUS
<1>2. /\ front \in Seq(S) /\ Len(front) = n - 1
      /\ \A k \in 1..n - 1 : front[k] = s[k]
  <2>1. front \in Seq(S)
    BY <1>1
  <2>2. Len(front) = n - 1
    BY <1>1
  <2>3. \A k \in 1..n - 1 : front[k] = s[k]
    BY <1>1
  <2> QED  BY <2>1, <2>2, <2>3
<1>3. /\ back \in Seq(S) /\ Len(back) = Len(s) - n
      /\ \A k \in 1..Len(s) - n : back[k] = s[k + n]
  <2>1. back \in Seq(S)
    BY <1>1
  <2>2. Len(back) = Len(s) - n
    BY <1>1
  <2>3. \A k \in 1..Len(s) - n : back[k] = s[k + n]
    BY <1>1
  <2> QED  BY <2>1, <2>2, <2>3
<1> HIDE DEF front, back
<1>4. /\ front \o back \in Seq(S) /\ Len(front \o back) = Len(s) - 1
      /\ \A k \in 1..Len(s) - 1 :
            (front \o back)[k] = IF k <= n - 1 THEN front[k] ELSE back[k - (n - 1)]
  <2>0. front \in Seq(S) /\ back \in Seq(S)
    BY <1>2, <1>3
  <2>1. front \o back \in Seq(S)
    BY <1>2, <1>3
  <2>2. Len(front \o back) = Len(front) + Len(back)
    BY ONLY <2>0
  <2>3. \A k \in 1..Len(front) + Len(back) :
            (front \o back)[k] = IF k <= Len(front) THEN front[k] ELSE back[k - Len(front)]
    BY ONLY <2>0
  <2>4. n - 1 + (Len(s) - n) = Len(s) - 1
    BY <1>1
  <2> QED  BY <1>2, <1>3, <2>1, <2>2, <2>3, <2>4
<1>5. \A k \in 1..Len(s) - 1 : (front \o back)[k] = IF k < n THEN s[k] ELSE s[k + 1]
  <2> SUFFICES ASSUME NEW k \in 1..Len(s) - 1
               PROVE  (front \o back)[k] = IF k < n THEN s[k] ELSE s[k + 1]
    OBVIOUS
  <2>1. CASE k < n
    BY <1>1, <1>2, <1>4, <2>1
  <2>2. CASE ~(k < n)
    <3>1. k - (n - 1) \in 1..Len(s) - n /\ ~(k <= n - 1)
      BY <1>1, <2>2
    <3>2. k - (n - 1) + n = k + 1
      BY <1>1
    <3> QED  BY <1>3, <1>4, <2>2, <3>1, <3>2
  <2> QED  BY <2>1, <2>2
<1> QED  BY <1>4, <1>5 DEF front, back

\* A step of client c's stream: the transactions go on, and the other streams.
Streams(c) ==
    /\ tx' \in [ASes -> {Idle} \cup Tx] /\ Running' = Running
    /\ \A b \in Running :
          LET t == tx[b]
              u == tx'[b] IN
          /\ Alike(t, u) /\ u.met = t.met /\ u.doomed = t.doomed
          /\ u.seen \subseteq t.seen /\ \A d \in t.seen \ {c} : d \in u.seen
          /\ t.mail = <<>> /\ t.size = 0 => u.size = 0
    /\ \A d \in Clients \ {c} :
          /\ stream'[d] = stream[d] /\ fresh'[d] = fresh[d]
          /\ view'[d] = view[d] /\ excuses'[d] = excuses[d]
    /\ \A b \in ASes \ {AsOf[c]} : connections'[b] = connections[b]
    /\ UNCHANGED <<accepts, links, unsettled>>

\* The types of what a client's thread changes.
StreamTypes ==
    /\ connections' \in [ASes -> Seq(Clients)]
    /\ stream' \in [Clients -> {"off", "registered", "open"}]
    /\ fresh' \in [Clients -> SUBSET Row]
    /\ view' \in [Clients -> SUBSET Row]
    /\ excuses' \in [Clients -> SUBSET (Reasons \X Pairs)]

\* What is known of the transactions does not change with the streams.
LEMMA SameTransactions ==
    ASSUME Types, tx' = tx
    PROVE  /\ tx' \in [ASes -> {Idle} \cup Tx] /\ Running' = Running
           /\ \A b \in Running : b \in ASes /\ tx[b] \in Tx /\ Alike(tx[b], tx'[b])
<1>1. \A b \in Running : b \in ASes /\ tx[b] \in Tx
  BY RunningTx DEF Running
<1>2. \A b \in Running : Alike(tx[b], tx'[b])
  BY <1>1 DEF Alike
<1>3. tx' \in [ASes -> {Idle} \cup Tx] /\ Running' = Running
  BY DEF Types, Running
<1> QED  BY <1>1, <1>2, <1>3

\* What Register changes.
LEMMA RegisterEffect ==
    ASSUME Types, NEW c \in Clients, Register(c)
    PROVE  /\ Streams(c) /\ StreamTypes
           /\ stream[c] = "off" /\ stream'[c] = "registered" /\ fresh'[c] = fresh[c] /\ view'[c] = view[c]
           /\ connections'[AsOf[c]] = Append(connections[AsOf[c]], c)
           /\ \A p \in Pairs : c \in Holders /\ Clean(c, p)' => p \cap Running = {}
<1> DEFINE a == AsOf[c]
<1> DEFINE why == {<<"raced", p>> : p \in {q \in Pairs : c \in Holders /\ q \cap Running # {}}}
<1>1. a \in ASes /\ connections[a] \in Seq(Clients)
  BY LinkUpdatesAssumption DEF Types
<1>2. Append(connections[a], c) \in Seq(Clients)
  BY <1>1
<1>3. why \in SUBSET (Reasons \X Pairs)
  BY DEF Reasons
<1>4. /\ connections' = [connections EXCEPT ![a] = Append(connections[a], c)]
      /\ stream[c] = "off" /\ stream' = [stream EXCEPT ![c] = "registered"]
      /\ excuses' = [excuses EXCEPT ![c] = why]
      /\ UNCHANGED <<server, fresh, view>>
  BY DEF Register
<1>5. ASSUME NEW p \in Pairs, c \in Holders, p \cap Running # {}
      PROVE  \E e \in why : e[2] = p
  <2>1. <<"raced", p>> \in why
    BY <1>5
  <2> HIDE DEF why
  <2> QED  BY <2>1
<1> DEFINE more == Append(connections[a], c)
<1> HIDE DEF why, more
<1>6. StreamTypes
  <2>1. connections' \in [ASes -> Seq(Clients)]
    BY <1>2, <1>4 DEF Types
  <2>2. excuses' \in [Clients -> SUBSET (Reasons \X Pairs)]
    BY <1>3, <1>4 DEF Types, Reasons
  <2> QED  BY <1>4, <2>1, <2>2 DEF Types, StreamTypes
<1>7. Streams(c)
  BY <1>1, <1>4, SameTransactions DEF Streams, Types, server
<1>8. excuses'[c] = why /\ stream'[c] = "registered"
  BY <1>4 DEF Types
<1>9. connections'[a] = Append(connections[a], c)
  BY <1>1, <1>4 DEF Types
<1> QED  BY <1>4, <1>5, <1>6, <1>7, <1>8, <1>9 DEF Clean

\* What ReadLinks changes.
LEMMA ReadLinksEffect ==
    ASSUME Types, NEW c \in Clients, ReadLinks(c)
    PROVE  /\ Streams(c) /\ StreamTypes
           /\ stream[c] = "registered" /\ stream'[c] = "open"
           /\ fresh'[c] = {r \in links : c \in Holders /\ AsOf[c] \in Pair(r)}
           /\ UNCHANGED <<connections, view, excuses>>
<1> DEFINE own == {r \in links : c \in Holders /\ AsOf[c] \in Pair(r)}
<1>1. own \in SUBSET Row
  BY DEF Types
<1>2. /\ stream[c] = "registered" /\ stream' = [stream EXCEPT ![c] = "open"]
      /\ fresh' = [fresh EXCEPT ![c] = own]
      /\ UNCHANGED <<server, connections, view, excuses>>
  BY DEF ReadLinks
<1> HIDE DEF own
<1>3. StreamTypes
  BY <1>1, <1>2 DEF Types, StreamTypes, Reasons
<1>4. Streams(c)
  BY <1>2, SameTransactions DEF Streams, Types, server
<1> QED  BY <1>2, <1>3, <1>4 DEF Types, own

\* What SendExisting changes.
LEMMA SendExistingEffect ==
    ASSUME Types, NEW c \in Clients, SendExisting(c)
    PROVE  /\ Streams(c) /\ StreamTypes
           /\ \E r \in fresh[c] : fresh'[c] = fresh[c] \ {r} /\ view'[c] = view[c] \cup {r}
           /\ UNCHANGED <<connections, stream, excuses>>
<1>1. PICK r \in fresh[c] :
          /\ fresh' = [fresh EXCEPT ![c] = @ \ {r}]
          /\ view' = [view EXCEPT ![c] = @ \cup {r}]
          /\ UNCHANGED <<server, connections, stream, excuses>>
  BY DEF SendExisting
<1>2. fresh[c] \in SUBSET Row /\ view[c] \in SUBSET Row
  BY DEF Types
<1>3. StreamTypes
  BY <1>1, <1>2 DEF Types, StreamTypes, Reasons
<1>4. Streams(c)
  BY <1>1, SameTransactions DEF Streams, Types, server
<1> QED  BY <1>1, <1>3, <1>4 DEF Types

\* What Close changes.
LEMMA CloseEffect ==
    ASSUME Types, NEW c \in Clients, Close(c)
    PROVE  /\ Streams(c) /\ StreamTypes
           /\ stream'[c] = "off" /\ fresh'[c] = {} /\ view'[c] = {}
           /\ LET s == connections[AsOf[c]]
                  left == connections'[AsOf[c]] IN
              \E n \in 1..Len(s) :
                 /\ s[n] = c /\ Len(left) = Len(s) - 1
                 /\ \A k \in 1..Len(left) : left[k] = IF k < n THEN s[k] ELSE s[k + 1]
<1> DEFINE a == AsOf[c]
<1> DEFINE s == connections[a]
<1>1. a \in ASes /\ s \in Seq(Clients)
  BY LinkUpdatesAssumption DEF Types
<1>2. PICK n \in {k \in 1..Len(s) : s[k] = c} :
          LET left == SubSeq(s, 1, n - 1) \o SubSeq(s, n + 1, Len(s)) IN
          /\ connections' = [connections EXCEPT ![a] = left]
          /\ tx' = [b \in ASes |->
                IF b \in Running /\ tx[b].size > 0 /\ Head(tx[b].mail).to = a
                THEN [tx[b] EXCEPT !.seen = @ \ {c}, !.size = IF left = <<>> THEN -1 ELSE @]
                ELSE tx[b]]
  BY DEF Close
<1> DEFINE left == SubSeq(s, 1, n - 1) \o SubSeq(s, n + 1, Len(s))
<1>3. /\ left \in Seq(Clients) /\ Len(left) = Len(s) - 1
      /\ \A k \in 1..Len(left) : left[k] = IF k < n THEN s[k] ELSE s[k + 1]
  BY <1>1, Removed
<1> HIDE DEF left
<1>4. /\ connections' = [connections EXCEPT ![a] = left]
      /\ tx' = [b \in ASes |->
             IF b \in Running /\ tx[b].size > 0 /\ Head(tx[b].mail).to = a
             THEN [tx[b] EXCEPT !.seen = @ \ {c}, !.size = IF left = <<>> THEN -1 ELSE @]
             ELSE tx[b]]
  BY <1>2 DEF left
<1>5. ASSUME NEW b \in Running
      PROVE  LET t == tx[b]
                 u == tx'[b] IN
             /\ b \in ASes /\ Alike(t, u) /\ u.met = t.met /\ u.doomed = t.doomed
             /\ u.seen \subseteq t.seen /\ \A d \in t.seen \ {c} : d \in u.seen
             /\ t.mail = <<>> /\ t.size = 0 => u.size = 0
  <2> DEFINE t == tx[b]
  <2>1. b \in ASes /\ t \in Tx
    BY RunningTx DEF Running
  <2>2. CASE t.size > 0 /\ Head(t.mail).to = a
    <3> DEFINE size == IF left = <<>> THEN -1 ELSE t.size
    <3> DEFINE seen == t.seen \ {c}
    <3> DEFINE u == [t EXCEPT !.seen = seen, !.size = size]
    <3>1. size \in Int /\ seen \in SUBSET Clients
      BY <2>1 DEF Tx
    <3>2. tx'[b] = u
      BY <1>4, <2>1, <2>2
    <3> HIDE DEF size, seen, t
    <3>3. u \in Tx
      BY ONLY <2>1, <3>1 DEF Tx
    <3>4. /\ u.seen = seen
          /\ <<u.step, u.accept, u.web, u.unlink, u.doomed, u.told, u.gone, u.made, u.add,
               u.mail, u.met>>
              = <<t.step, t.accept, t.web, t.unlink, t.doomed, t.told, t.gone, t.made, t.add,
                  t.mail, t.met>>
      BY ONLY <2>1, <3>1, <3>3 DEF Tx
    <3> HIDE DEF u
    <3> QED  BY <2>1, <2>2, <3>2, <3>3, <3>4 DEF Alike, seen, t
  <2>3. CASE ~(t.size > 0 /\ Head(t.mail).to = a)
    <3>1. tx'[b] = t
      BY <1>4, <2>1, <2>3
    <3> QED  BY <2>1, <3>1 DEF Alike
  <2> QED  BY <2>2, <2>3
<1>6. \A b \in ASes \ Running : tx'[b] = Idle
  BY <1>4 DEF Running
<1>7. \A u \in Tx : u # Idle
  BY DEF Tx, Idle, Step
<1>8. \A b \in Running : b \in ASes /\ tx'[b] \in Tx
  BY <1>5 DEF Alike
<1>9. tx' \in [ASes -> {Idle} \cup Tx]
  <2>1. DOMAIN tx' = ASes /\ tx' = [b \in ASes |-> tx'[b]]
    BY <1>4
  <2>2. \A b \in ASes : tx'[b] \in {Idle} \cup Tx
    BY <1>6, <1>8
  <2> HIDE <1>4
  <2> QED  BY <2>1, <2>2
<1>10. Running' = Running
  BY <1>6, <1>7, <1>8 DEF Running
<1>11. /\ stream' = [stream EXCEPT ![c] = "off"] /\ fresh' = [fresh EXCEPT ![c] = {}]
       /\ view' = [view EXCEPT ![c] = {}] /\ excuses' = [excuses EXCEPT ![c] = {}]
       /\ UNCHANGED <<accepts, links, unsettled>>
  BY DEF Close
<1>12. StreamTypes
  BY <1>3, <1>4, <1>11 DEF Types, StreamTypes, Reasons
<1>13. connections'[a] = left /\ \A b \in ASes \ {a} : connections'[b] = connections[b]
  BY <1>1, <1>4 DEF Types
<1>14. \A d \in Clients \ {c} :
          /\ stream'[d] = stream[d] /\ fresh'[d] = fresh[d]
          /\ view'[d] = view[d] /\ excuses'[d] = excuses[d]
  BY <1>11 DEF Types
<1>15. Streams(c)
  BY <1>5, <1>9, <1>10, <1>11, <1>13, <1>14 DEF Streams
<1> QED  BY <1>2, <1>3, <1>11, <1>12, <1>13, <1>15 DEF Types

-----------------------------------------------------------------------------
\* A statement of a's transaction keeps the invariant if it does for a.
WorkKept(a) ==
    /\ ShapeOf(tx'[a]) /\ OwnOf(a, tx'[a])
    /\ ~tx[a].unlink => \A b \in ASes \ {a} : Settles(a, b) => Settles(a, b)'
    /\ \A c \in Holders, p \in Pairs :
          AsOf[c] \in p /\ a \in p /\ stream[c] = "open" /\ Follows(a, c, p) => Follows(a, c, p)'

\* It is heard by registered clients, and of links of a.
Heard(a) ==
    /\ view' \in [Clients -> SUBSET Row]
    /\ \A c \in Clients :
          /\ stream[c] = "off" => view'[c] = view[c]
          /\ \A r \in Row : a \notin Pair(r) => (r \in view'[c] <=> r \in view[c])

\* For the other transactions and the clients they tell nothing changes.
LEMMA WorkKeeps ==
    ASSUME IInv, NEW a \in Running, Works(a), WorkKept(a), Heard(a)
    PROVE  IInv'
<1> USE DEF Works
<1>1. /\ Types /\ Registered /\ Shape /\ Own /\ Progress /\ Settled /\ Views
      /\ \A b \in Running : b \in ASes
  BY DEF IInv, Running
<1>2. Types'
  BY <1>1 DEF Types, Heard
<1>3. Registered'
  BY <1>1 DEF Registered, Heard
<1>4. Shape'
  BY <1>1 DEF Shape, WorkKept
<1>5. Own'
  <2>1. \A b \in Running : OwnOf(b, tx'[b])
    BY <1>1 DEF Own, WorkKept
  <2>2. \A b \in Running : tx'[b].unlink = tx[b].unlink /\ tx'[b].accept = tx[b].accept
                           /\ tx'[b].met = tx[b].met
    BY <1>1
  <2> QED  BY <1>1, <2>1, <2>2 DEF Own
<1>6. ASSUME NEW b \in Running \ {a}, NEW d
      PROVE  Settles(b, d)' <=> Settles(b, d)
  <2>1. tx'[b] = tx[b]
    BY <1>1
  <2>2. Visible(b)' = Visible(b)
    BY <2>1 DEF Visible
  <2> QED  BY <2>1, <2>2 DEF Settles, Agreed
<1>7. Progress'
  BY <1>1, <1>6 DEF Progress, WorkKept
<1>8. Settled'
  BY <1>1 DEF Settled, Mutual
<1>9. ASSUME NEW c \in Holders, NEW p \in Pairs, NEW b \in Running \ {a}, a \notin p
      PROVE  Follows(b, c, p)' <=> Follows(b, c, p)
  <2>1. tx'[b] = tx[b] /\ c \in Clients
    BY <1>1, LinkUpdatesAssumption
  <2>2. Visible(b)' = Visible(b)
    BY <2>1 DEF Visible
  <2>3. \A r : Pending(b, c, r)' <=> Pending(b, c, r)
    BY <2>1 DEF Pending
  <2>4. \A r \in Row : Pair(r) = p => (r \in view'[c] <=> r \in view[c])
    BY <1>9, <2>1 DEF Heard
  <2> QED  BY <2>1, <2>2, <2>3, <2>4 DEF Follows, Same
<1>10. ASSUME NEW c \in Holders, NEW p \in Pairs, AsOf[c] \in p, Clean(c, p)'
       PROVE  Tracked(c, p)'
  <2>1. Clean(c, p) /\ c \in Clients
    BY <1>10, LinkUpdatesAssumption DEF Clean
  <2>2. Tracked(c, p)
    BY <1>1, <1>10, <2>1 DEF Views
  <2>3. CASE a \in p
    BY <2>2, <2>3, <1>10 DEF Tracked, WorkKept
  <2>4. CASE a \notin p
    <3>1. \A r \in Row : Pair(r) = p => (r \in view'[c] <=> r \in view[c])
      BY <2>1, <2>4 DEF Heard
    <3>2. \A b \in p \cap Running : Follows(b, c, p)' <=> Follows(b, c, p)
      BY <1>9, <2>4
    <3> QED  BY <2>2, <3>1, <3>2 DEF Tracked, Same
  <2> QED  BY <2>3, <2>4
<1>11. Views'
  BY <1>10 DEF Views
<1> QED  BY <1>2, <1>3, <1>4, <1>5, <1>7, <1>8, <1>11 DEF IInv

\* A statement that sends nothing is not heard.
LEMMA HeardNothing == ASSUME Types, NEW a, view' = view PROVE Heard(a)
BY DEF Heard, Types

\* What the invariant says of the transaction at work.
LEMMA AtWork ==
    ASSUME IInv, NEW a \in Running
    PROVE  /\ Types /\ a \in ASes /\ tx[a] \in Tx /\ ShapeOf(tx[a]) /\ OwnOf(a, tx[a])
           /\ \A c \in Holders : c \in Clients
BY RunningTx, LinkUpdatesAssumption DEF IInv, Shape, Own, Running

\* The rows selected are those of the peers that do not agree.
LEMMA CollectKeeps ==
    ASSUME IInv, NEW a \in Running, Collect(a)
    PROVE  IInv'
<1> DEFINE t == tx[a]
           u == tx'[a]
           old == {r \in LinksOf(a) : Pair(r) \cap MutuallyAccepted(a) = {}}
<1>1. /\ Types /\ a \in ASes /\ t \in Tx /\ ShapeOf(t) /\ OwnOf(a, t)
  BY AtWork
<1>2. /\ Works(a) /\ view' = view
      /\ t.step = "collect" /\ u.step = "delete" /\ u.doomed = old /\ u.told = old
      /\ <<u.gone, u.made, u.add, u.mail, u.size, u.seen>>
               = <<t.gone, t.made, t.add, t.mail, t.size, t.seen>>
  BY <1>1, CollectEffect
<1>3. ShapeOf(u)
  BY <1>1, <1>2 DEF ShapeOf
<1>4. \A r \in old : a \in Pair(r)
  BY DEF LinksOf
<1>5. OwnOf(a, u)
  BY <1>1, <1>2, <1>4 DEF OwnOf, Works
<1>6. ASSUME NEW b \in ASes \ {a}
      PROVE  Settles(a, b)'
  <2>1. Visible(a) = links
    BY <1>1, <1>2 DEF Visible, ShapeOf
  <2>2. b \in MutuallyAccepted(a) <=> Agreed(a, b)
    BY DEF MutuallyAccepted, Agreed
  <2>3. a \notin MutuallyAccepted(a)
    BY <1>1 DEF MutuallyAccepted, OwnOf
  <2>4. \A r \in Row : Pair(r) = {a, b} => (r \in old <=> r \in links /\ ~Agreed(a, b))
    BY <2>1, <2>2, <2>3 DEF LinksOf
  <2>5. Agreed(a, b)' <=> Agreed(a, b)
    BY <1>2 DEF Agreed, Works
  <2>6. links' = links
    BY <1>2 DEF Works
  <2> QED  BY <1>2, <2>4, <2>5, <2>6 DEF Settles
<1>7. ASSUME NEW c \in Holders, NEW p \in Pairs, Follows(a, c, p)
      PROVE  Follows(a, c, p)'
  BY <1>2, <1>7 DEF Follows, Same, Works
<1>8. WorkKept(a)
  BY <1>3, <1>5, <1>6, <1>7 DEF WorkKept
<1> QED  BY <1>1, <1>2, <1>8, HeardNothing, WorkKeeps

\* The rows deleted are those announced from now on.
LEMMA DeleteKeeps ==
    ASSUME IInv, NEW a \in Running, Delete(a)
    PROVE  IInv'
<1> DEFINE t == tx[a]
           u == tx'[a]
<1>1. /\ Types /\ a \in ASes /\ t \in Tx /\ ShapeOf(t) /\ OwnOf(a, t)
  BY AtWork
<1>2. /\ Works(a) /\ view' = view
      /\ t.step = "delete" /\ u.step = "tell" /\ u.gone = t.gone \cup t.doomed /\ u.doomed = {}
      /\ <<u.told, u.made, u.add, u.mail, u.size, u.seen>>
               = <<t.told, t.made, t.add, t.mail, t.size, t.seen>>
  BY <1>1, DeleteEffect
<1>3. t.gone = {} /\ t.made = {} /\ t.mail = <<>> /\ t.add = {}
  BY <1>1, <1>2 DEF ShapeOf
<1>4. ShapeOf(u)
  <2>1. \A n \in 1..Len(u.mail) : u.mail[n].type = "DESTROY"
    BY <1>2, <1>3
  <2> QED  BY <1>1, <1>2, <1>3, <2>1 DEF ShapeOf, Works
<1>5. OwnOf(a, u)
  BY <1>1, <1>2 DEF OwnOf, Works
<1>6. ASSUME NEW b \in ASes \ {a}, Settles(a, b)
      PROVE  Settles(a, b)'
  <2>1. (Agreed(a, b)' <=> Agreed(a, b)) /\ links' = links
    BY <1>2 DEF Agreed, Works
  <2> QED  BY <1>2, <1>3, <1>6, <2>1 DEF Settles
<1>7. ASSUME NEW c \in Holders, NEW p \in Pairs, Follows(a, c, p)
      PROVE  Follows(a, c, p)'
  <2>1. links' = links /\ u.web = t.web /\ view' = view
    BY <1>2 DEF Works
  <2>2. Same(p, view[c], links) /\ Same(p, t.told, t.doomed)
    BY <1>2, <1>7 DEF Follows
  <2>3. \A r : Pending(a, c, r)' <=> r \in t.told
    BY <1>2, <1>3 DEF Pending
  <2>4. Visible(a)' = links \ t.doomed
    BY <1>2, <1>3, <2>1 DEF Visible
  <2>5. Same(p, view'[c], links')
    BY <2>1, <2>2
  <2> QED  BY <1>2, <1>3, <2>2, <2>3, <2>4, <2>5 DEF Follows, Same
<1>8. WorkKept(a)
  BY <1>4, <1>5, <1>6, <1>7 DEF WorkKept
<1> QED  BY <1>1, <1>2, <1>8, HeardNothing, WorkKeeps

\* There is an update about row q for x.
Names(mail, q, x) == \E n \in 1..Len(mail) : mail[n].row = q /\ mail[n].to = x

\* Each side of a link is told of it, and of nothing else.
LEMMA Mailed ==
    ASSUME NEW t \in Tx, ~t.web, NEW type \in {"CREATE", "DESTROY"}, NEW r \in Row,
           NEW x \in Pair(r), NEW q
    PROVE  Names(MailOf(t, type, r), q, x) <=> q = r
<1> DEFINE mail == MailOf(t, type, r)
<1>1. /\ Len(mail) = 2 /\ mail[1].to = r[1] /\ mail[2].to = r[2]
      /\ \A n \in 1..Len(mail) : mail[n].row = r
  BY MailTypes
<1>2. x = r[1] \/ x = r[2]
  BY PairsOf
<1>3. 1 \in 1..2 /\ 2 \in 1..2
  OBVIOUS
<1> HIDE DEF mail
<1>4. Names(mail, q, x) <=> q = r
  BY <1>1, <1>2, <1>3 DEF Names
<1> QED  BY <1>4 DEF mail

\* A row leaves the rows to tell of and enters the queue.
LEMMA TellKeeps ==
    ASSUME IInv, NEW a \in Running, TellDeleted(a)
    PROVE  IInv'
<1> DEFINE t == tx[a]
           u == tx'[a]
<1>1. /\ Types /\ a \in ASes /\ t \in Tx /\ ShapeOf(t) /\ OwnOf(a, t)
      /\ \A c \in Holders : c \in Clients
  BY AtWork
<1>2. /\ Works(a) /\ view' = view
      /\ t.step = "tell" /\ u.step = "tell" /\ t.mail = <<>>
      /\ \E r \in t.told : u.told = t.told \ {r} /\ u.mail = MailOf(t, "DESTROY", r)
      /\ <<u.doomed, u.gone, u.made, u.add, u.size, u.seen>>
               = <<t.doomed, t.gone, t.made, t.add, t.size, t.seen>>
  BY <1>1, TellEffect
<1>3. PICK r0 \in t.told : u.told = t.told \ {r0} /\ u.mail = MailOf(t, "DESTROY", r0)
  BY <1>2
<1>4. r0 \in Row /\ a \in Pair(r0) /\ "DESTROY" \in {"CREATE", "DESTROY"}
  BY <1>1 DEF Tx, OwnOf
<1>5. /\ u.mail \in Seq(Update) /\ (t.web => u.mail = <<>>)
      /\ \A n \in 1..Len(u.mail) : u.mail[n].row = r0 /\ u.mail[n].type = "DESTROY"
  <2> DEFINE mail == MailOf(t, "DESTROY", r0)
  <2>1. /\ mail \in Seq(Update) /\ (t.web => mail = <<>>)
        /\ \A n \in 1..Len(mail) : mail[n].row = r0 /\ mail[n].type = "DESTROY"
    <3>1. t \in Tx /\ "DESTROY" \in {"CREATE", "DESTROY"} /\ r0 \in Row
      BY <1>1, <1>4
    <3>2. /\ MailOf(t, "DESTROY", r0) \in Seq(Update)
          /\ t.web => MailOf(t, "DESTROY", r0) = <<>>
          /\ \A n \in 1..Len(MailOf(t, "DESTROY", r0)) :
                /\ MailOf(t, "DESTROY", r0)[n].row = r0
                /\ MailOf(t, "DESTROY", r0)[n].type = "DESTROY"
      BY ONLY <3>1, MailTypes
    <3> QED  BY ONLY <3>2
  <2>2. u.mail = mail
    BY <1>3
  <2> HIDE DEF mail
  <2> QED  BY <2>1, <2>2
<1>6. t.size = 0 /\ t.seen = {}
  BY <1>1, <1>2 DEF ShapeOf
<1>7. ShapeOf(u)
  BY <1>1, <1>2, <1>5, <1>6 DEF ShapeOf, Works
<1>8. OwnOf(a, u)
  BY <1>1, <1>2, <1>3, <1>4, <1>5 DEF OwnOf, Works
<1>9. ASSUME NEW b \in ASes \ {a}, Settles(a, b)
      PROVE  Settles(a, b)'
  <2>1. (Agreed(a, b)' <=> Agreed(a, b)) /\ links' = links
    BY <1>2 DEF Agreed, Works
  <2> QED  BY <1>2, <1>9, <2>1 DEF Settles
<1>10. ASSUME NEW c \in Holders, NEW p \in Pairs, AsOf[c] \in p, Follows(a, c, p)
       PROVE  Follows(a, c, p)'
  <2>1. links' = links /\ u.web = t.web /\ view' = view /\ Visible(a)' = Visible(a) /\ c \in Clients
        /\ u \in Tx
    BY <1>1, <1>2 DEF Works, Visible
  <2>2. CASE t.web
    BY <1>2, <1>10, <2>1, <2>2 DEF Follows, Same
  <2>3. CASE ~t.web
    <3>1. ASSUME NEW r \in Row, Pair(r) = p
          PROVE  Pending(a, c, r)' <=> Pending(a, c, r)
      <4>1. Pending(a, c, r) <=> r \in t.told
        BY <1>2 DEF Pending
      <4>2. Pending(a, c, r)' <=> r \in t.told \ {r0} \/
                  \E n \in 1..Len(u.mail) :
                     /\ u.mail[n].row = r /\ u.mail[n].to = AsOf[c]
                     /\ ~(n = 1 /\ c \in u.seen)
        BY <1>2, <1>3 DEF Pending
      <4>3. CASE Pair(r0) = p
        <5>1. (\E n \in 1..Len(u.mail) :
                  /\ u.mail[n].row = r /\ u.mail[n].to = AsOf[c]
                  /\ ~(n = 1 /\ c \in u.seen)) <=> r = r0
          <6>1. /\ t \in Tx /\ ~t.web /\ r0 \in Row /\ AsOf[c] \in Pair(r0)
                /\ "DESTROY" \in {"CREATE", "DESTROY"}
            BY <1>1, <1>4, <1>10, <2>3, <4>3
          <6>2. Names(MailOf(t, "DESTROY", r0), r, AsOf[c]) <=> r = r0
            BY ONLY <6>1, Mailed
          <6>3. u.seen = {} /\ u.mail = MailOf(t, "DESTROY", r0)
            BY <1>2, <1>3, <1>6
          <6> QED  BY <6>2, <6>3 DEF Names
        <5> QED  BY <4>1, <4>2, <5>1
      <4>4. CASE Pair(r0) # p
        BY <1>5, <3>1, <4>1, <4>2, <4>4
      <4> QED  BY <4>3, <4>4
    <3> QED  BY <1>2, <1>10, <2>1, <2>3, <3>1 DEF Follows, Same
  <2> QED  BY <2>2, <2>3
<1>11. WorkKept(a)
  BY <1>7, <1>8, <1>9, <1>10 DEF WorkKept
<1> QED  BY <1>1, <1>2, <1>11, HeardNothing, WorkKeeps

\* A transaction sees rows.
LEMMA VisibleRows ==
    ASSUME Types, NEW a \in Running
    PROVE  Visible(a) \subseteq Row
<1>1. tx[a] \in Tx /\ links \subseteq Row
  BY RunningTx DEF Running, Types
<1> QED  BY <1>1 DEF Visible, Tx

\* A peer is connected if a row of the pair is visible.
LEMMA PeerLinks ==
    ASSUME Types, NEW a \in Running, NEW b \in ASes \ {a}
    PROVE  b \in ConnectedPeers(a) <=> Some({a, b}, Visible(a))
<1>1. \A r \in Visible(a) : a \in Pair(r) /\ b \in Pair(r) <=> Pair(r) = {a, b}
  <2>1. \A r \in Visible(a) : Pair(r) = {r[1], r[2]}
    BY DEF Pair
  <2> QED  BY <2>1
<1>2. b \in ConnectedPeers(a) <=> \E r \in Visible(a) : a \in Pair(r) /\ b \in Pair(r)
  <2>1. b \in ConnectedPeers(a) <=> \E q \in {Pair(r) : r \in LinksOf(a)} : b \in q
    <3> DEFINE pairs == {Pair(r) : r \in LinksOf(a)}
    <3>1. ConnectedPeers(a) = (UNION pairs) \ {a}
      BY DEF ConnectedPeers
    <3> HIDE DEF pairs
    <3>2. b \in UNION pairs <=> \E q \in pairs : b \in q
      OBVIOUS
    <3>3. b \in ConnectedPeers(a) <=> \E q \in pairs : b \in q
      BY <3>1, <3>2
    <3> QED  BY <3>3 DEF pairs
  <2>2. (\E q \in {Pair(r) : r \in LinksOf(a)} : b \in q) <=> \E r \in LinksOf(a) : b \in Pair(r)
    OBVIOUS
  <2>3. \A r : r \in LinksOf(a) <=> r \in Visible(a) /\ a \in Pair(r)
    BY DEF LinksOf
  <2> QED  BY <2>1, <2>2, <2>3
<1> QED  BY <1>1, <1>2, VisibleRows DEF Some

\* The peers found are those that agree and have no link.
LEMMA FindPeersKeeps ==
    ASSUME IInv, NEW a \in Running, FindPeers(a)
    PROVE  IInv'
<1> DEFINE t == tx[a]
           u == tx'[a]
<1>1. /\ Types /\ a \in ASes /\ t \in Tx /\ ShapeOf(t) /\ OwnOf(a, t)
  BY AtWork
<1>2. /\ Works(a) /\ view' = view
      /\ t.step = "tell" /\ u.step = "create" /\ t.mail = <<>> /\ t.told = {}
      /\ u.add = IF t.unlink THEN {} ELSE MutuallyAccepted(a) \ ConnectedPeers(a)
      /\ <<u.doomed, u.told, u.gone, u.made, u.mail, u.size, u.seen>>
               = <<t.doomed, t.told, t.gone, t.made, t.mail, t.size, t.seen>>
  BY <1>1, FindPeersEffect
<1>3. t.made = {} /\ t.size = 0 /\ t.seen = {}
  BY <1>1, <1>2 DEF ShapeOf
<1>4. ShapeOf(u)
  <2>1. \A n \in 1..Len(u.mail) : u.mail[n].type = "CREATE"
    BY <1>2
  <2> QED  BY <1>1, <1>2, <1>3, <2>1 DEF ShapeOf, Works
<1>5. OwnOf(a, u)
  BY <1>1, <1>2, <1>3 DEF OwnOf, Works, MutuallyAccepted
<1>6. ASSUME ~t.unlink, NEW b \in ASes \ {a}, Settles(a, b)
      PROVE  Settles(a, b)'
  <2>1. (Agreed(a, b)' <=> Agreed(a, b)) /\ links' = links /\ Visible(a)' = Visible(a)
    BY <1>2 DEF Agreed, Works, Visible
  <2>2. b \in u.add <=> Agreed(a, b) /\ ~Some({a, b}, Visible(a))
    BY <1>1, <1>2, <1>6, PeerLinks DEF MutuallyAccepted, Agreed
  <2>3. \A r \in Row : Pair(r) = {a, b} => (r \in t.gone <=> r \in links /\ ~Agreed(a, b))
    BY <1>2, <1>6 DEF Settles
  <2>4. ~Agreed(a, b) => ~Some({a, b}, Visible(a))
    BY <1>3, <2>3 DEF Some, Visible
  <2> QED  BY <1>2, <2>1, <2>2, <2>4 DEF Settles
<1>7. ASSUME NEW c \in Holders, NEW p \in Pairs, Follows(a, c, p)
      PROVE  Follows(a, c, p)'
  <2>1. links' = links /\ u.web = t.web /\ view' = view /\ Visible(a)' = Visible(a)
    BY <1>2 DEF Works, Visible
  <2>2. \A r : ~Pending(a, c, r) /\ ~Pending(a, c, r)'
    BY <1>2 DEF Pending
  <2> QED  BY <1>2, <1>7, <2>1, <2>2 DEF Follows, Same
<1>8. WorkKept(a)
  BY <1>4, <1>5, <1>6, <1>7 DEF WorkKept
<1> QED  BY <1>1, <1>2, <1>8, HeardNothing, WorkKeeps

\* A row that is made enters the queue.
LEMMA CreateKeeps ==
    ASSUME IInv, NEW a \in Running, NEW b \in ASes, CreateLink(a, b)
    PROVE  IInv'
<1> DEFINE t == tx[a]
           u == tx'[a]
           r0 == RowOf(a, b)
<1>1. /\ Types /\ a \in ASes /\ t \in Tx /\ ShapeOf(t) /\ OwnOf(a, t)
      /\ \A c \in Holders : c \in Clients
  BY AtWork
<1>2. /\ Works(a) /\ view' = view
      /\ t.step = "create" /\ u.step = "create" /\ t.mail = <<>>
      /\ b \in t.add /\ u.add = t.add \ {b} /\ b # a
      /\ r0 \notin Visible(a) /\ u.made = t.made \cup {r0}
      /\ u.mail = MailOf(t, "CREATE", r0)
      /\ <<u.doomed, u.told, u.gone, u.size, u.seen>>
               = <<t.doomed, t.told, t.gone, t.size, t.seen>>
  BY <1>1, CreateEffect DEF OwnOf
<1>3. /\ r0 \in Row /\ Pair(r0) = {a, b} /\ "CREATE" \in {"CREATE", "DESTROY"}
  BY <1>1, <1>2, RowOfTypes
<1> HIDE DEF r0
<1>4. /\ u.mail \in Seq(Update) /\ (t.web => u.mail = <<>>)
      /\ \A n \in 1..Len(u.mail) : u.mail[n].row = r0 /\ u.mail[n].type = "CREATE"
  <2> DEFINE mail == MailOf(t, "CREATE", r0)
  <2>1. /\ mail \in Seq(Update) /\ (t.web => mail = <<>>)
        /\ \A n \in 1..Len(mail) : mail[n].row = r0 /\ mail[n].type = "CREATE"
    BY <1>1, <1>3, MailTypes
  <2>2. u.mail = mail
    BY <1>2
  <2> HIDE DEF mail
  <2> QED  BY <2>1, <2>2
<1>5. t.size = 0 /\ t.seen = {} /\ t.told = {}
  BY <1>1, <1>2 DEF ShapeOf
<1>6. ShapeOf(u)
  BY <1>1, <1>2, <1>4, <1>5 DEF ShapeOf, Works
<1>7. OwnOf(a, u)
  BY <1>1, <1>2, <1>3, <1>4 DEF OwnOf, Works
<1>8. Visible(a)' = Visible(a) \cup {r0}
  BY <1>2 DEF Visible, Works
<1>9. ASSUME NEW d \in ASes \ {a}, Settles(a, d)
      PROVE  Settles(a, d)'
  <2>1. Agreed(a, d)' <=> Agreed(a, d)
    BY <1>2 DEF Agreed, Works
  <2>2. /\ Agreed(a, d) => d \in t.add \/ Some({a, d}, Visible(a))
        /\ ~Agreed(a, d) => d \notin t.add /\ ~Some({a, d}, Visible(a))
    BY <1>2, <1>9 DEF Settles
  <2>3. Some({a, d}, Visible(a)') <=> Some({a, d}, Visible(a)) \/ d = b
    <3>1. {a, d} = {a, b} <=> d = b
      BY <1>2
    <3> QED  BY <1>3, <1>8, <3>1 DEF Some
  <2> QED  BY <1>2, <2>1, <2>2, <2>3 DEF Settles
<1>10. ASSUME NEW c \in Holders, NEW p \in Pairs, AsOf[c] \in p, Follows(a, c, p)
       PROVE  Follows(a, c, p)'
  <2>1. links' = links /\ u.web = t.web /\ view' = view /\ c \in Clients
    BY <1>1, <1>2 DEF Works
  <2>2. CASE t.web
    BY <1>2, <1>10, <2>1, <2>2 DEF Follows, Same
  <2>3. CASE ~t.web
    <3>1. ASSUME NEW r \in Row, Pair(r) = p
          PROVE  ~Pending(a, c, r) /\ (Pending(a, c, r)' <=> r = r0)
      <4>1. ~Pending(a, c, r)
        BY <1>2 DEF Pending
      <4>2. Pending(a, c, r)' <=> \E n \in 1..Len(u.mail) :
                     /\ u.mail[n].row = r /\ u.mail[n].to = AsOf[c]
                     /\ ~(n = 1 /\ c \in u.seen)
        BY <1>2 DEF Pending
      <4>3. CASE Pair(r0) = p
        <5>1. t \in Tx /\ ~t.web /\ r0 \in Row /\ AsOf[c] \in Pair(r0)
              /\ "CREATE" \in {"CREATE", "DESTROY"}
          BY <1>1, <1>3, <1>10, <2>3, <4>3
        <5>2. Names(MailOf(t, "CREATE", r0), r, AsOf[c]) <=> r = r0
          BY ONLY <5>1, Mailed
        <5>3. u.seen = {} /\ u.mail = MailOf(t, "CREATE", r0)
          BY <1>2, <1>5
        <5> QED  BY <4>1, <4>2, <5>2, <5>3 DEF Names
      <4>4. CASE Pair(r0) # p
        BY <1>4, <3>1, <4>1, <4>2, <4>4
      <4> QED  BY <4>3, <4>4
    <3> QED  BY <1>2, <1>8, <1>10, <2>1, <2>3, <3>1 DEF Follows, Same
  <2> QED  BY <2>2, <2>3
<1>11. WorkKept(a)
  BY <1>6, <1>7, <1>9, <1>10 DEF WorkKept
<1> QED  BY <1>1, <1>2, <1>11, HeardNothing, WorkKeeps

\* An update that is handed on is the first of the queue, and what the
\* transaction did.
LEMMA SendKeeps ==
    ASSUME IInv, NEW a \in Running, Send(a)
    PROVE  IInv'
<1> DEFINE t == tx[a]
           u == tx'[a]
           m == t.mail[1]
           receivers == connections[m.to]
<1>1. /\ Types /\ Registered /\ a \in ASes /\ t \in Tx /\ ShapeOf(t) /\ OwnOf(a, t)
      /\ \A c \in Holders : c \in Clients
  BY AtWork DEF IInv
<1>2. SendEffect(a)
  BY <1>1, Sending
<1>3. /\ Works(a) /\ t.mail # <<>> /\ m \in Update
      /\ <<u.step, u.doomed, u.told, u.gone, u.made, u.add>>
            = <<t.step, t.doomed, t.told, t.gone, t.made, t.add>>
      /\ links' = links /\ u.web = t.web /\ u.unlink = t.unlink /\ u.accept = t.accept
  BY <1>2 DEF SendEffect, Works
<1>4. ~t.web /\ t.step \in {"tell", "create"}
  BY <1>1, <1>3 DEF ShapeOf, Tx, Step
<1>5. Visible(a)' = Visible(a)
  BY <1>3 DEF Visible
<1>6. t.mail \in Seq(Update) /\ Len(t.mail) \in Nat /\ 1 \in 1..Len(t.mail)
  BY <1>1, <1>3 DEF Tx
<1>7. /\ m.row \in Row /\ a \in Pair(m.row) /\ m.to \in ASes
      /\ m.type = IF t.step = "create" THEN "CREATE" ELSE "DESTROY"
  BY <1>1, <1>3, <1>4, <1>6 DEF ShapeOf, OwnOf, Update
<1>8. ASSUME NEW b \in ASes \ {a}, Settles(a, b)
      PROVE  Settles(a, b)'
  <2>1. Agreed(a, b)' <=> Agreed(a, b)
    BY <1>3 DEF Agreed, Works
  <2> QED  BY <1>3, <1>5, <1>8, <2>1 DEF Settles
<1>9. CASE /\ \A n \in 1..Len(receivers) : receivers[n] \in t.seen
           /\ u.mail = Tail(t.mail) /\ u.size = 0 /\ u.seen = {} /\ view' = view
  <2>1. Len(u.mail) = Len(t.mail) - 1 /\ \A n \in 1..Len(u.mail) : u.mail[n] = t.mail[n + 1]
    BY <1>6, <1>9
  <2>2. \A n \in 1..Len(u.mail) : n + 1 \in 1..Len(t.mail)
    BY <1>6, <2>1
  <2>3. ShapeOf(u)
    BY <1>1, <1>3, <1>4, <1>9, <2>1, <2>2 DEF ShapeOf
  <2>4. OwnOf(a, u)
    BY <1>1, <1>3, <2>1, <2>2 DEF OwnOf
  <2>5. ASSUME NEW c \in Holders, NEW p \in Pairs, stream[c] = "open", Follows(a, c, p)
        PROVE  Follows(a, c, p)'
    <3>1. m.to = AsOf[c] => c \in t.seen
      BY <1>1, <1>9, <2>5 DEF Registered
    <3>2. ASSUME NEW r
          PROVE  Pending(a, c, r)' <=> Pending(a, c, r)
      <4>1. Pending(a, c, r) <=>
              \/ t.step = "tell" /\ r \in t.told
              \/ \E n \in 1..Len(t.mail) \ {1} : t.mail[n].row = r /\ t.mail[n].to = AsOf[c]
        BY <1>6, <3>1 DEF Pending
      <4>2. Pending(a, c, r)' <=>
              \/ t.step = "tell" /\ r \in t.told
              \/ \E n \in 1..Len(u.mail) : u.mail[n].row = r /\ u.mail[n].to = AsOf[c]
        BY <1>3, <1>9 DEF Pending
      <4>3. \A n \in 1..Len(t.mail) \ {1} : n - 1 \in 1..Len(u.mail) /\ u.mail[n - 1] = t.mail[n]
        BY <1>6, <2>1
      <4>4. \A n \in 1..Len(u.mail) : n + 1 \in 1..Len(t.mail) \ {1} /\ u.mail[n] = t.mail[n + 1]
        BY <2>1, <2>2
      <4>5. ASSUME NEW n \in 1..Len(t.mail) \ {1}, t.mail[n].row = r, t.mail[n].to = AsOf[c]
            PROVE  Pending(a, c, r)'
        <5>1. n - 1 \in 1..Len(u.mail) /\ u.mail[n - 1] = t.mail[n]
          BY <4>3
        <5> QED  BY ONLY <4>2, <4>5, <5>1
      <4>6. ASSUME NEW n \in 1..Len(u.mail), u.mail[n].row = r, u.mail[n].to = AsOf[c]
            PROVE  Pending(a, c, r)
        <5>1. n + 1 \in 1..Len(t.mail) \ {1} /\ u.mail[n] = t.mail[n + 1]
          BY <4>4
        <5> QED  BY ONLY <4>1, <4>6, <5>1
      <4> QED  BY ONLY <4>1, <4>2, <4>5, <4>6
    <3> QED  BY <1>3, <1>5, <1>9, <2>5, <3>2 DEF Follows, Same
  <2>6. WorkKept(a)
    BY <1>8, <2>3, <2>4, <2>5 DEF WorkKept
  <2> QED  BY <1>1, <1>3, <1>9, <2>6, HeardNothing, WorkKeeps
<1>10. ASSUME NEW n0 \in 1..Len(receivers), u.mail = t.mail,
              receivers[n0] \in Clients, receivers[n0] \notin t.seen,
              u.seen = t.seen \cup {receivers[n0]},
              view' = IF receivers[n0] \in Holders
                      THEN [view EXCEPT ![receivers[n0]] = Put(@, m)] ELSE view
       PROVE  IInv'
  <2> DEFINE d == receivers[n0]
  <2>1. AsOf[d] = m.to /\ stream[d] # "off"
    <3>1. m.to \in ASes /\ n0 \in 1..Len(connections[m.to]) /\ d = connections[m.to][n0]
      BY <1>7, <1>10
    <3> HIDE DEF m, d, receivers
    <3> QED  BY <1>1, <3>1 DEF Registered
  <2>2. ShapeOf(u)
    BY <1>1, <1>3, <1>4, <1>10 DEF ShapeOf
  <2>3. OwnOf(a, u)
    BY <1>1, <1>3, <1>10 DEF OwnOf
  <2>4. view \in [Clients -> SUBSET Row]
    BY <1>1 DEF Types
  <2>5. \A r \in Row : (r \in Put(view[d], m) <=>
                          IF r = m.row THEN m.type = "CREATE" ELSE r \in view[d])
    BY DEF Put
  <2>6. /\ view' \in [Clients -> SUBSET Row]
        /\ \A c \in Clients \ {d} : view'[c] = view[c]
        /\ d \in Holders => view'[d] = Put(view[d], m)
        /\ d \notin Holders => view' = view
    <3>1. Put(view[d], m) \in SUBSET Row
      BY <1>7, <1>10, <2>4 DEF Put
    <3> QED  BY <1>10, <2>4, <3>1
  <2>7. Heard(a)
    <3>1. ASSUME NEW c \in Clients
          PROVE  /\ stream[c] = "off" => view'[c] = view[c]
                 /\ \A r \in Row : a \notin Pair(r) => (r \in view'[c] <=> r \in view[c])
      <4>1. CASE c = d /\ d \in Holders
        BY <1>7, <2>1, <2>5, <2>6, <4>1
      <4>2. CASE ~(c = d /\ d \in Holders)
        BY <2>6, <4>2, <3>1
      <4> QED  BY <4>1, <4>2
    <3> QED  BY <2>6, <3>1 DEF Heard
  <2>8. ASSUME NEW c \in Holders, NEW p \in Pairs, Follows(a, c, p)
        PROVE  Follows(a, c, p)'
    <3>1. c \in Clients
      BY <1>1
    <3>2. ASSUME NEW r \in Row, Pair(r) = p
          PROVE  /\ ~Pending(a, c, r) => (r \in view[c] <=> r \in Visible(a))
                 /\ Pending(a, c, r) => /\ r \in t.gone \cup t.made
                                        /\ r \in Visible(a) <=> t.step = "create"
      BY <1>4, <2>8, <3>2 DEF Follows
    <3>3. CASE c # d
      <4>1. view'[c] = view[c] /\ (c \in u.seen <=> c \in t.seen)
        BY <1>10, <2>6, <3>1, <3>3
      <4>2. \A r : Pending(a, c, r)' <=> Pending(a, c, r)
        BY <1>3, <1>10, <4>1 DEF Pending
      <4> QED  BY <1>3, <1>4, <1>5, <3>2, <4>1, <4>2 DEF Follows, Same
    <3>4. CASE c = d
      <4>1. \A r \in Row : r \in view'[c] <=> IF r = m.row THEN t.step = "create" ELSE r \in view[c]
        BY <1>7, <2>5, <2>6, <3>4
      <4>6. u.step = t.step /\ u.told = t.told /\ u.mail = t.mail /\ t.seen \subseteq u.seen
        BY <1>3, <1>10
      <4>2. \A r : Pending(a, c, r)' => Pending(a, c, r)
        BY <4>6 DEF Pending
      <4>3. ASSUME NEW r, r # m.row, Pending(a, c, r)
            PROVE  Pending(a, c, r)'
        <5>1. CASE t.step = "tell" /\ r \in t.told
          BY <4>6, <5>1 DEF Pending
        <5>2. ASSUME NEW n \in 1..Len(t.mail), t.mail[n].row = r, t.mail[n].to = AsOf[c]
              PROVE  Pending(a, c, r)'
          <6>1. n # 1
            BY <4>3, <5>2
          <6> QED  BY <4>6, <5>2, <6>1 DEF Pending
        <5> QED  BY <4>3, <5>1, <5>2 DEF Pending
      <4>4. Pending(a, c, m.row)
        BY <1>6, <1>10, <2>1, <3>4 DEF Pending
      <4>5. ASSUME NEW r \in Row, Pair(r) = p
            PROVE  /\ ~Pending(a, c, r)' => (r \in view'[c] <=> r \in Visible(a))
                   /\ Pending(a, c, r)' => /\ r \in t.gone \cup t.made
                                           /\ r \in Visible(a) <=> t.step = "create"
        BY <3>2, <4>1, <4>2, <4>3, <4>4, <4>5
      <4> QED  BY <1>3, <1>4, <1>5, <4>5 DEF Follows
    <3> QED  BY <3>3, <3>4
  <2>9. WorkKept(a)
    BY <1>8, <2>2, <2>3, <2>8 DEF WorkKept
  <2> QED  BY <1>3, <2>7, <2>9, WorkKeeps
<1> QED  BY <1>2, <1>9, <1>10 DEF SendEffect

-----------------------------------------------------------------------------
\* A transaction alike and no further has the same shape and rows.
LEMMA AlikeShape ==
    ASSUME NEW a, NEW t \in Tx, NEW u \in Tx, Alike(t, u), ShapeOf(t), OwnOf(a, t),
           t.mail = <<>> => u.size = 0 /\ u.seen = {},
           \A r : r \in u.doomed => r \in t.doomed
    PROVE  ShapeOf(u) /\ OwnOf(a, u)
BY DEF Alike, ShapeOf, OwnOf

\* The end of a's transaction leaves the streams and the other transactions.
LEMMA EndsKeeps ==
    ASSUME IInv, NEW a \in ASes, Ends(a),
           accepts' \in [ASes -> SUBSET ASes], links' \subseteq Row, unsettled' \subseteq Pairs
    PROVE  /\ Types' /\ Registered' /\ Shape'
           /\ \A b \in Running' : b \in Running /\ b # a /\ b \in ASes /\ OwnOf(b, tx'[b])
<1>1. Types /\ Registered /\ Shape /\ Own
  BY DEF IInv
<1>2. Types'
  BY <1>1 DEF Types, Ends, Reasons
<1>3. Registered'
  BY <1>1 DEF Registered, Ends
<1>4. ASSUME NEW b \in Running'
      PROVE  b \in Running /\ b # a /\ b \in ASes /\ ShapeOf(tx'[b]) /\ OwnOf(b, tx'[b])
  <2>1. b \in Running \ {a} /\ b \in ASes
    BY DEF Ends, Running
  <2>2. /\ Alike(tx[b], tx'[b]) /\ tx'[b].size = tx[b].size /\ tx'[b].seen = tx[b].seen
        /\ \A r : r \in tx'[b].doomed => r \in tx[b].doomed
    BY <2>1 DEF Ends
  <2>3. ShapeOf(tx[b]) /\ OwnOf(b, tx[b]) /\ tx[b] \in Tx /\ tx'[b] \in Tx
    BY <1>1, <2>1, <2>2 DEF Shape, Own, Alike
  <2>4. tx[b].mail = <<>> => tx'[b].size = 0 /\ tx'[b].seen = {}
    BY <2>2, <2>3 DEF ShapeOf
  <2> QED  BY <2>1, <2>2, <2>3, <2>4, AlikeShape
<1>5. Shape'
  BY <1>4 DEF Shape
<1> QED  BY <1>2, <1>3, <1>4, <1>5

\* What a client knows of a pair without a does not change.
LEMMA EndsFollows ==
    ASSUME IInv, NEW a \in ASes, Ends(a), NEW p \in Pairs, a \notin p, Same(p, links', links),
           NEW c \in Holders, NEW b \in Running \ {a}, Follows(b, c, p)
    PROVE  Follows(b, c, p)'
<1> DEFINE t == tx[b]
           u == tx'[b]
<1>1. /\ Alike(t, u) /\ u.seen = t.seen /\ view' = view
      /\ \A r : a \notin Pair(r) => (r \in u.doomed <=> r \in t.doomed)
  BY DEF Ends
<1>2. /\ u.step = t.step /\ u.web = t.web /\ u.told = t.told /\ u.gone = t.gone /\ u.made = t.made
      /\ u.mail = t.mail
  BY <1>1 DEF Alike
<1>3. \A r : Pending(b, c, r)' <=> Pending(b, c, r)
  BY <1>1, <1>2 DEF Pending
<1>4. \A r \in Row : Pair(r) = p => (r \in Visible(b)' <=> r \in Visible(b))
  BY <1>2 DEF Visible, Same
<1>5. Same(p, u.doomed, t.doomed)
  BY <1>1 DEF Same
<1> QED  BY <1>1, <1>2, <1>3, <1>4, <1>5 DEF Follows, Same

\* The work on a pair without a does not change.
LEMMA EndsSettles ==
    ASSUME IInv, NEW a \in ASes, Ends(a), NEW b \in Running \ {a}, NEW d \in ASes \ {a},
           accepts'[d] = accepts[d], Same({b, d}, links', links), Settles(b, d)
    PROVE  Settles(b, d)'
<1> DEFINE t == tx[b]
           u == tx'[b]
<1>1. /\ Alike(t, u) /\ \A r : a \notin Pair(r) => (r \in u.doomed <=> r \in t.doomed)
  BY DEF Ends
<1>2. /\ u.step = t.step /\ u.gone = t.gone /\ u.made = t.made /\ u.add = t.add
      /\ u.accept = t.accept
  BY <1>1 DEF Alike
<1>3. Agreed(b, d)' <=> Agreed(b, d)
  BY <1>2 DEF Agreed
<1>4. \A r \in Row : Pair(r) = {b, d} => (r \in Visible(b)' <=> r \in Visible(b))
  BY <1>2 DEF Visible, Same
<1>5. Same({b, d}, u.doomed, t.doomed)
  BY <1>1 DEF Same
<1> QED  BY <1>2, <1>3, <1>4, <1>5 DEF Settles, Same, Some

\* An open stream that is clean follows the transaction that ends.
LEMMA EndsTracked ==
    ASSUME IInv, NEW a \in ASes, Ends(a), NEW c \in Holders, NEW p \in Pairs, Tracked(c, p),
           a \notin p => Same(p, links', links),
           a \in p /\ stream[c] = "open" /\ Follows(a, c, p) => Same(p, view[c], links')
    PROVE  Tracked(c, p)'
<1>1. /\ a \in Running /\ Running' = Running \ {a} /\ UNCHANGED <<stream, fresh, view>>
  BY DEF Ends
<1>2. CASE a \in p
  <2>1. stream[c] = "registered" => FALSE
    BY <1>1, <1>2 DEF Tracked
  <2>2. stream[c] = "open" => p \cap Running = {a} /\ Same(p, fresh[c], {}) /\ Follows(a, c, p)
    BY <1>1, <1>2 DEF Tracked
  <2>3. stream[c] = "open" => Same(p, view[c] \cup fresh[c], links') /\ p \cap Running' = {}
    BY <1>1, <1>2, <2>2 DEF Same
  <2> QED  BY <1>1, <2>1, <2>3 DEF Tracked
<1>3. CASE a \notin p
  <2>1. p \cap Running' = p \cap Running
    BY <1>1, <1>3
  <2>2. \A b \in p \cap Running : Follows(b, c, p) => Follows(b, c, p)'
    BY <1>3, EndsFollows
  <2> QED  BY <1>1, <1>3, <2>1, <2>2 DEF Tracked, Same
<1> QED  BY <1>2, <1>3

\* A row that awaits no update is in a client's view if the transaction sees it.
LEMMA FollowsNone ==
    ASSUME Types, NEW a \in Running, ShapeOf(tx[a]), NEW c, NEW p, Follows(a, c, p), ~tx[a].web,
           tx[a].step \in {"tell", "create"},
           NEW r \in Row, Pair(r) = p, r \notin tx[a].gone \cup tx[a].made
    PROVE  r \in view[c] <=> r \in links
BY DEF Follows, Visible

\* A rollback keeps the invariant: who was told is excused.
LEMMA UndoneKeeps ==
    ASSUME IInv, NEW a \in ASes, Undone(a)
    PROVE  IInv'
<1>1. /\ Ends(a) /\ a \in Running /\ Running' = Running \ {a}
      /\ UNCHANGED <<accepts, links, unsettled, stream>>
  BY DEF Undone, Ends
<1>2. /\ Types /\ Own /\ Progress /\ Settled /\ Views /\ tx[a] \in Tx /\ ShapeOf(tx[a])
      /\ \A c \in Holders : c \in Clients
  BY <1>1, AtWork DEF IInv
<1>3. accepts' \in [ASes -> SUBSET ASes] /\ links' \subseteq Row /\ unsettled' \subseteq Pairs
  BY <1>1, <1>2 DEF Types
<1>4. /\ Types' /\ Registered' /\ Shape'
      /\ \A b \in Running' : b \in Running /\ b # a /\ b \in ASes /\ OwnOf(b, tx'[b])
  BY <1>1, <1>3, EndsKeeps
<1>5. \A b \in Running' : /\ tx'[b].unlink = tx[b].unlink /\ tx'[b].accept = tx[b].accept
                          /\ tx'[b].met = tx[b].met
  BY <1>1 DEF Ends, Alike
<1>6. Own'
  BY <1>1, <1>2, <1>4, <1>5 DEF Own
<1>7. ASSUME NEW b \in Running', NEW d
      PROVE  Settles(b, d)' <=> Settles(b, d)
  <2>1. tx'[b] = tx[b]
    BY <1>4 DEF Undone
  <2> QED  BY <1>1, <2>1 DEF Settles, Agreed, Visible
<1>8. Progress'
  BY <1>1, <1>2, <1>4, <1>5, <1>7 DEF Progress
<1>9. Settled'
  BY <1>1, <1>2 DEF Settled, Mutual
<1>10. ASSUME NEW c \in Holders, NEW p \in Pairs, AsOf[c] \in p, Clean(c, p)'
       PROVE  Tracked(c, p)'
  <2>1. Clean(c, p) /\ (stream[c] # "off" /\ ~tx[a].web =>
                             \A r \in tx[a].gone \cup tx[a].made : Pair(r) # p)
    BY <1>10 DEF Undone
  <2>2. Tracked(c, p)
    BY <1>2, <1>10, <2>1 DEF Views
  <2>3. ASSUME stream[c] = "open", Follows(a, c, p)
        PROVE  Same(p, view[c], links')
    <3>1. CASE tx[a].web \/ tx[a].step \in {"collect", "delete"}
      BY <1>1, <2>3, <3>1 DEF Follows
    <3>2. CASE ~tx[a].web /\ tx[a].step \in {"tell", "create"}
      <4>1. \A r \in Row : Pair(r) = p => (r \in view[c] <=> r \in links)
        BY <1>1, <1>2, <2>1, <2>3, <3>2, FollowsNone
      <4> QED  BY <1>1, <4>1 DEF Same
    <3> QED  BY <1>2, <3>1, <3>2 DEF Tx, Step
  <2> QED  BY <1>1, <2>2, <2>3, EndsTracked DEF Same
<1>11. Views'
  BY <1>10 DEF Views
<1> QED  BY <1>4, <1>6, <1>8, <1>9, <1>11 DEF IInv

\* A commit does: what it saw is now what all see, and its updates are sent.
LEMMA CommittedKeeps ==
    ASSUME IInv, NEW a \in ASes, Committed(a)
    PROVE  IInv'
<1> DEFINE t == tx[a]
<1>1. /\ Ends(a) /\ a \in Running /\ Running' = Running \ {a}
      /\ t.step = "create" /\ t.mail = <<>> /\ t.add = {}
      /\ accepts' = [accepts EXCEPT ![a] = t.accept] /\ links' = Visible(a)
      /\ UNCHANGED stream
  BY DEF Committed, Ends
<1>2. /\ Types /\ Own /\ Progress /\ Settled /\ Views /\ t \in Tx /\ ShapeOf(t) /\ OwnOf(a, t)
      /\ \A c \in Holders : c \in Clients
  BY <1>1, AtWork DEF IInv
<1>3. /\ t.unlink => unsettled' = unsettled \cup {Pair(r) : r \in t.gone}
      /\ ~t.unlink => unsettled' = unsettled \ {{a, b} : b \in ASes \ t.met}
  BY DEF Committed
<1>4. accepts' \in [ASes -> SUBSET ASes] /\ links' \subseteq Row /\ unsettled' \subseteq Pairs
  <2>1. \A r \in t.gone : Pair(r) \in Pairs
    BY <1>2 DEF Tx, Pairs
  <2>2. unsettled' \subseteq Pairs
    BY <1>2, <1>3, <2>1 DEF Types
  <2>3. accepts' \in [ASes -> SUBSET ASes]
    BY <1>1, <1>2 DEF Types, Tx
  <2> QED  BY <1>1, <1>2, <2>2, <2>3, VisibleRows
<1>5. /\ Types' /\ Registered' /\ Shape'
      /\ \A b \in Running' : b \in Running /\ b # a /\ b \in ASes /\ OwnOf(b, tx'[b])
  BY <1>1, <1>4, EndsKeeps
<1>6. \A b \in Running' : /\ tx'[b].unlink = tx[b].unlink /\ tx'[b].accept = tx[b].accept
                          /\ tx'[b].met = tx[b].met
  BY <1>1 DEF Ends, Alike
<1>7. \A b \in ASes \ {a} : accepts'[b] = accepts[b]
  BY <1>1, <1>2 DEF Types
<1>8. accepts'[a] = t.accept /\ a \notin t.accept
  BY <1>1, <1>2 DEF Types, OwnOf
\* Only links of a change, and what the transaction leaves unsettled.
<1>9. \A r \in Row : a \notin Pair(r) => (r \in links' <=> r \in links)
  BY <1>1, <1>2 DEF Visible, OwnOf
<1>10. ASSUME NEW p, p \notin unsettled', p \in unsettled
       PROVE  ~t.unlink /\ \E b \in ASes \ t.met : p = {a, b}
  BY <1>3, <1>10
<1>11. ASSUME NEW b \in Running', NEW d \in Running', {b, d} \in unsettled
       PROVE  {b, d} \in unsettled'
  BY <1>5, <1>10, <1>11
<1>12. Own'
  <2>1. \A b \in ASes : a \notin t.accept /\ b \notin accepts'[b]
    BY <1>2, <1>7, <1>8 DEF Own
  <2>2. \A b \in Running' : tx'[b].unlink => tx'[b].accept = accepts'[b]
    BY <1>2, <1>5, <1>6, <1>7 DEF Own
  <2>3. \A b \in Running' : \A d \in Running' \ {b} : d \in tx'[b].met /\ {b, d} \in unsettled'
    BY <1>2, <1>5, <1>6, <1>11 DEF Own
  <2> QED  BY <1>5, <2>1, <2>2, <2>3 DEF Own
<1>13. ASSUME NEW b \in Running', ~tx'[b].unlink, NEW d \in ASes \ {b},
              d \notin tx'[b].met \/ {b, d} \notin unsettled'
       PROVE  Settles(b, d)'
  <2>1. b \in Running \ {a} /\ b \in ASes
    BY <1>5
  <2>2. a \in tx[b].met /\ b \in t.met /\ {a, b} \in unsettled
    BY <1>1, <1>2, <2>1 DEF Own
  <2>3. {b, a} \in unsettled'
    <3>1. {b, a} = {a, b}
      OBVIOUS
    <3>2. \A x \in ASes \ t.met : {a, b} # {a, x}
      BY <2>1, <2>2
    <3>3. {a, b} \in unsettled'
      BY <1>10, <2>2, <3>2
    <3> QED  BY <3>1, <3>3
  <2>4. d # a
    BY <1>6, <1>13, <2>2, <2>3
  <2>5. d \notin tx[b].met \/ {b, d} \notin unsettled
    BY <1>6, <1>10, <1>13, <2>1, <2>4
  <2>6. Settles(b, d)
    BY <1>2, <1>6, <1>13, <2>1, <2>5 DEF Progress
  <2>7. Same({b, d}, links', links)
    BY <1>9, <2>1, <2>4 DEF Same
  <2> QED  BY <1>1, <1>7, <2>1, <2>4, <2>6, <2>7, EndsSettles
<1>14. Progress'
  BY <1>13 DEF Progress
<1>15. ASSUME NEW p \in Pairs \ unsettled', a \notin p
       PROVE  Some(p, links') <=> Mutual(p)'
  <2>1. p \notin unsettled
    BY <1>10, <1>15
  <2>2. Some(p, links) <=> Mutual(p)
    BY <1>2, <2>1 DEF Settled
  <2>3. p \subseteq ASes
    BY PairsOf
  <2>4. Mutual(p)' <=> Mutual(p)
    BY <1>7, <1>15, <2>3 DEF Mutual
  <2>5. Some(p, links') <=> Some(p, links)
    BY <1>9, <1>15 DEF Some
  <2> QED  BY <2>2, <2>4, <2>5
<1>16. ASSUME NEW p \in Pairs \ unsettled', a \in p, t.unlink
       PROVE  Some(p, links') <=> Mutual(p)'
  <2>1. p \notin unsettled /\ \A r \in t.gone : Pair(r) # p
    BY <1>3, <1>16
  <2>2. accepts' = accepts
    BY <1>1, <1>2, <1>16 DEF Own, Types
  <2>3. \A r \in Row : Pair(r) = p => (r \in links' <=> r \in links)
    BY <1>1, <1>2, <1>16, <2>1 DEF Visible, OwnOf
  <2> QED  BY <1>2, <2>1, <2>2, <2>3 DEF Settled, Some, Mutual
<1>17. ASSUME NEW p \in Pairs \ unsettled', a \in p, ~t.unlink
       PROVE  Some(p, links') <=> Mutual(p)'
  <2>1. PICK b \in ASes \ {a} : p = {a, b}
    BY <1>17, PairsOf
  <2>2. b \notin t.met \/ {a, b} \notin unsettled
    BY <1>3, <1>17, <2>1
  <2>3. Settles(a, b)
    BY <1>1, <1>2, <1>17, <2>2 DEF Progress
  <2>4. Some(p, links') <=> Agreed(a, b)
    BY <1>1, <2>1, <2>3 DEF Settles
  <2>5. Mutual(p)' <=> b \in accepts'[a] /\ a \in accepts'[b]
    BY <2>1 DEF Mutual
  <2> QED  BY <1>7, <1>8, <2>4, <2>5 DEF Agreed
<1>18. Settled'
  BY <1>15, <1>16, <1>17 DEF Settled
<1>19. ASSUME NEW c \in Holders, NEW p \in Pairs, AsOf[c] \in p, Clean(c, p)'
       PROVE  Tracked(c, p)'
  <2>1. Clean(c, p) /\ (stream[c] # "off" /\ t.web => \A r \in t.gone \cup t.made : Pair(r) # p)
    BY <1>19 DEF Committed
  <2>2. Tracked(c, p)
    BY <1>2, <1>19, <2>1 DEF Views
  <2>3. ASSUME stream[c] = "open", Follows(a, c, p)
        PROVE  Same(p, view[c], links')
    <3>1. CASE t.web
      BY <1>1, <2>1, <2>3, <3>1 DEF Follows, Same, Visible
    <3>2. CASE ~t.web
      <4>1. \A r : ~Pending(a, c, r)
        BY <1>1 DEF Pending
      <4> QED  BY <1>1, <2>3, <3>2, <4>1 DEF Follows, Same
    <3> QED  BY <3>1, <3>2
  <2>4. a \notin p => Same(p, links', links)
    BY <1>9 DEF Same
  <2> QED  BY <1>1, <2>2, <2>3, <2>4, EndsTracked
<1>20. Views'
  BY <1>19 DEF Views
<1> QED  BY <1>5, <1>12, <1>14, <1>18, <1>20 DEF IInv

-----------------------------------------------------------------------------
\* What the other transactions know of their links and clients does not change
\* when one of AS a begins, or its policies change.
LEMMA MeetsKeeps ==
    ASSUME IInv, NEW a \in ASes, Meets(a), UNCHANGED <<links, view>>,
           \A b \in ASes \ {a} : accepts'[b] = accepts[b], NEW b \in Running \ {a}
    PROVE  /\ ShapeOf(tx'[b]) /\ OwnOf(b, tx'[b])
           /\ tx'[b].unlink = tx[b].unlink /\ tx'[b].accept = tx[b].accept
           /\ tx'[b].met = tx[b].met \cup {a}
           /\ \A d : (Agreed(b, d)' <=> Agreed(b, d)) => (Settles(b, d)' <=> Settles(b, d))
           /\ \A d \in ASes \ {a} : Settles(b, d)' <=> Settles(b, d)
           /\ \A c, p : Follows(b, c, p)' <=> Follows(b, c, p)
<1> DEFINE t == tx[b]
           u == tx'[b]
<1>1. /\ Types /\ t \in Tx /\ ShapeOf(t) /\ OwnOf(b, t)
  BY AtWork
<1>2. /\ Alike(t, u) /\ u.met = t.met \cup {a}
      /\ u.doomed = t.doomed /\ u.size = t.size /\ u.seen = t.seen
  BY DEF Meets
<1>3. /\ u \in Tx /\ u.step = t.step /\ u.accept = t.accept /\ u.web = t.web
      /\ u.unlink = t.unlink /\ u.told = t.told /\ u.gone = t.gone /\ u.made = t.made
      /\ u.add = t.add /\ u.mail = t.mail
  BY <1>2 DEF Alike
<1>4. t.mail = <<>> => u.size = 0 /\ u.seen = {}
  BY <1>1, <1>2 DEF ShapeOf
<1>5. ShapeOf(u) /\ OwnOf(b, u)
  BY <1>1, <1>2, <1>3, <1>4, AlikeShape
<1>6. Visible(b)' = Visible(b)
  BY <1>3 DEF Visible
<1>7. \A d : (Agreed(b, d)' <=> Agreed(b, d)) => (Settles(b, d)' <=> Settles(b, d))
  BY <1>2, <1>3, <1>6 DEF Settles
<1>8. \A d \in ASes \ {a} : Agreed(b, d)' <=> Agreed(b, d)
  BY <1>3 DEF Agreed
<1>9. \A c, r : Pending(b, c, r)' <=> Pending(b, c, r)
  BY <1>2, <1>3 DEF Pending
<1>10. \A c, p : Follows(b, c, p)' <=> Follows(b, c, p)
  BY <1>2, <1>3, <1>6, <1>9 DEF Follows
<1> QED  BY <1>2, <1>3, <1>5, <1>7, <1>8, <1>10

\* The start of a transaction does: whoever may miss its rows is excused.
LEMMA OpensKeeps ==
    ASSUME IInv, NEW a \in ASes, Opens(a)
    PROVE  IInv'
<1> DEFINE t == tx'[a]
<1>1. /\ Meets(a) /\ a \notin Running /\ Running' = Running \cup {a}
      /\ unsettled' = unsettled \cup {{a, b} : b \in Running}
      /\ UNCHANGED <<accepts, links, connections, stream, fresh, view>>
      /\ tx' \in [ASes -> {Idle} \cup Tx]
  BY DEF Opens, Meets
<1>2. /\ t \in Tx /\ a \notin t.accept
      /\ t.gone = {} /\ t.made = {} /\ t.add = {} /\ t.mail = <<>> /\ t.size = 0 /\ t.seen = {}
      /\ t.met = Running /\ t.told = t.doomed
      /\ \/ t.step = "collect" /\ t.unlink = FALSE /\ t.doomed = {}
         \/ /\ t.step = "delete" /\ t.unlink = TRUE /\ t.web = TRUE /\ t.accept = accepts[a]
            /\ \A r \in t.doomed : a \in Pair(r)
  BY DEF Opens, Begun
<1>3. /\ Types /\ Registered /\ Shape /\ Own /\ Progress /\ Settled /\ Views
      /\ \A b \in Running : b \in ASes /\ b # a
  BY <1>1 DEF IInv, Running
<1>4. \A b \in Running :
           /\ ShapeOf(tx'[b]) /\ OwnOf(b, tx'[b])
           /\ tx'[b].unlink = tx[b].unlink /\ tx'[b].accept = tx[b].accept
           /\ tx'[b].met = tx[b].met \cup {a}
           /\ \A d \in ASes \ {a} : Settles(b, d)' <=> Settles(b, d)
           /\ \A c, p : Follows(b, c, p)' <=> Follows(b, c, p)
  BY <1>1, <1>3, MeetsKeeps
<1>5. \A b \in Running : {a, b} \in Pairs /\ {a, b} = {b, a} /\ {a, b} \in unsettled'
  BY <1>1, <1>3, PairsOf
<1>6. Types'
  <2>1. unsettled' \subseteq Pairs
    BY <1>1, <1>3, <1>5 DEF Types
  <2>2. excuses' \in [Clients -> SUBSET (Reasons \X Pairs)]
    BY DEF Opens
  <2> QED  BY <1>1, <1>3, <2>1, <2>2 DEF Types, Reasons
<1>7. Registered'
  BY <1>1, <1>3 DEF Registered
<1>8. ShapeOf(t) /\ OwnOf(a, t)
  <2>1. Len(t.mail) = 0
    BY <1>2
  <2>2. \A n \in 1..Len(t.mail) : FALSE
    BY <2>1
  <2> QED  BY <1>2, <2>2 DEF ShapeOf, OwnOf
<1>9. Shape'
  BY <1>1, <1>4, <1>8 DEF Shape
<1>10. Own'
  <2>1. \A b \in Running' : OwnOf(b, tx'[b]) /\ (tx'[b].unlink => tx'[b].accept = accepts'[b])
    BY <1>1, <1>2, <1>3, <1>4, <1>8 DEF Own
  <2>2. ASSUME NEW b \in Running', NEW d \in Running' \ {b}
        PROVE  d \in tx'[b].met /\ {b, d} \in unsettled'
    <3>1. CASE b = a
      BY <1>1, <1>2, <1>5, <2>2, <3>1
    <3>2. CASE b # a /\ d = a
      BY <1>1, <1>4, <1>5, <2>2, <3>2
    <3>3. CASE b # a /\ d # a
      BY <1>1, <1>3, <1>4, <2>2, <3>3 DEF Own
    <3> QED  BY <3>1, <3>2, <3>3
  <2> QED  BY <1>1, <1>3, <2>1, <2>2 DEF Own
<1>11. ASSUME NEW b \in Running', ~tx'[b].unlink, NEW d \in ASes \ {b},
              d \notin tx'[b].met \/ {b, d} \notin unsettled'
       PROVE  Settles(b, d)'
  <2>1. CASE b = a
    BY <1>2, <1>11, <2>1 DEF Settles
  <2>2. CASE b # a
    <3>1. b \in Running /\ d # a
      BY <1>1, <1>4, <1>5, <1>11, <2>2
    <3>2. Settles(b, d)
      BY <1>1, <1>3, <1>4, <1>11, <3>1 DEF Progress
    <3> QED  BY <1>4, <3>1, <3>2
  <2> QED  BY <2>1, <2>2
<1>12. Progress'
  BY <1>11 DEF Progress
<1>13. Settled'
  BY <1>1, <1>3 DEF Settled, Mutual
<1>14. ASSUME NEW c \in Holders, NEW p \in Pairs, AsOf[c] \in p, Clean(c, p)'
       PROVE  Tracked(c, p)'
  <2>1. Clean(c, p) /\ (a \in p /\ stream[c] # "off" => ~Opening(c) /\ ~(p \ {a} \subseteq Running))
    BY <1>14 DEF Opens
  <2>2. Tracked(c, p)
    BY <1>3, <1>14, <2>1 DEF Views
  <2>3. CASE a \notin p
    <3>1. p \cap Running' = p \cap Running
      BY <1>1, <2>3
    <3> QED  BY <1>1, <1>4, <2>2, <3>1 DEF Tracked
  <2>4. CASE a \in p /\ stream[c] # "off"
    <3>1. stream[c] # "registered" /\ fresh[c] = {}
      BY <2>1, <2>4 DEF Opening
    <3>2. p \cap Running = {} /\ p \cap Running' = {a}
      <4>1. PICK b \in ASes \ {a} : p = {a, b}
        BY <2>4, PairsOf
      <4>2. b \notin Running
        BY <2>1, <2>4, <4>1
      <4> QED  BY <1>1, <4>1, <4>2
    <3>3. stream[c] = "open" => Same(p, view[c], links)
      BY <2>2, <3>1, <3>2 DEF Tracked, Same
    <3>4. stream[c] = "open" => Follows(a, c, p)'
      BY <1>1, <1>2, <3>3 DEF Follows, Same
    <3> QED  BY <1>1, <3>1, <3>2, <3>4 DEF Tracked, Same
  <2>5. CASE stream[c] = "off"
    BY <1>1, <2>5 DEF Tracked
  <2> QED  BY <2>3, <2>4, <2>5
<1>15. Views'
  BY <1>14 DEF Views
<1> QED  BY <1>6, <1>7, <1>9, <1>10, <1>12, <1>13, <1>15 DEF IInv

\* A change of policies in the admin site does: its pairs are not settled.
LEMMA AdminPoliciesKeeps ==
    ASSUME IInv, NEW a \in ASes, NEW accept \in SUBSET ASes, a \notin accept,
           AdminPolicies(a, accept)
    PROVE  IInv'
<1> DEFINE changed == (accept \ accepts[a]) \cup (accepts[a] \ accept)
<1>1. /\ Types /\ Registered /\ Shape /\ Own /\ Progress /\ Settled /\ Views
  BY DEF IInv
<1>2. /\ Meets(a) /\ a \notin Running /\ Running' = Running
      /\ accepts' = [accepts EXCEPT ![a] = accept]
      /\ unsettled' = unsettled \cup {{a, b} : b \in changed}
      /\ UNCHANGED <<links, connections, stream, fresh, view, excuses>>
      /\ tx' \in [ASes -> {Idle} \cup Tx]
  BY <1>1, AdminPoliciesEffect DEF Meets
<1>3. /\ accepts' \in [ASes -> SUBSET ASes] /\ accepts'[a] = accept
      /\ \A b \in ASes \ {a} : accepts'[b] = accepts[b]
  BY <1>1, <1>2 DEF Types
<1>4. changed \subseteq ASes \ {a}
  BY <1>1 DEF Types, Own
<1>5. \A b \in Running :
           /\ b \in ASes /\ b # a
           /\ ShapeOf(tx'[b]) /\ OwnOf(b, tx'[b])
           /\ tx'[b].unlink = tx[b].unlink /\ tx'[b].accept = tx[b].accept
           /\ tx'[b].met = tx[b].met \cup {a}
           /\ \A d : (Agreed(b, d)' <=> Agreed(b, d)) => (Settles(b, d)' <=> Settles(b, d))
           /\ \A d \in ASes \ {a} : Settles(b, d)' <=> Settles(b, d)
           /\ \A c, p : Follows(b, c, p)' <=> Follows(b, c, p)
  <2>1. \A b \in Running : b \in ASes /\ b # a
    BY <1>2 DEF Running
  <2> QED  BY <1>2, <1>3, <2>1, MeetsKeeps
<1>6. Types'
  <2>1. \A b \in changed : {a, b} \in Pairs
    BY <1>4, PairsOf
  <2>2. unsettled' \subseteq Pairs
    BY <1>1, <1>2, <2>1 DEF Types
  <2> QED  BY <1>1, <1>2, <1>3, <2>2 DEF Types
<1>7. Registered'
  BY <1>1, <1>2 DEF Registered
<1>8. Shape'
  BY <1>2, <1>5 DEF Shape
<1>9. Own'
  <2>1. \A b \in ASes : b \notin accepts'[b]
    BY <1>1, <1>3 DEF Own
  <2>2. \A b \in Running : tx'[b].unlink => tx'[b].accept = accepts'[b]
    BY <1>1, <1>3, <1>5 DEF Own
  <2>3. \A b \in Running : \A d \in Running \ {b} : d \in tx'[b].met /\ {b, d} \in unsettled'
    BY <1>1, <1>2, <1>5 DEF Own
  <2> QED  BY <1>2, <1>5, <2>1, <2>2, <2>3 DEF Own
\* A pair whose policies changed is unsettled.
<1>10. ASSUME NEW b \in ASes \ {a}, {a, b} \notin unsettled'
       PROVE  b \in accept <=> b \in accepts[a]
  <2>1. b \notin changed
    BY <1>2, <1>10
  <2> QED  BY <2>1
<1>11. ASSUME NEW b \in Running, ~tx'[b].unlink, NEW d \in ASes \ {b},
              d \notin tx'[b].met \/ {b, d} \notin unsettled'
       PROVE  Settles(b, d)'
  <2>1. d \notin tx[b].met \/ {b, d} \notin unsettled
    BY <1>2, <1>5, <1>11
  <2>2. Settles(b, d)
    BY <1>1, <1>5, <1>11, <2>1 DEF Progress
  <2>3. CASE d # a
    BY <1>5, <2>2, <2>3
  <2>4. CASE d = a
    <3>1. {a, b} \notin unsettled'
      <4>1. {a, b} = {b, a}
        OBVIOUS
      <4> QED  BY <1>5, <1>11, <2>4, <4>1
    <3>2. Agreed(b, d)' <=> Agreed(b, d)
      BY <1>3, <1>5, <1>10, <2>4, <3>1 DEF Agreed
    <3> QED  BY <1>5, <2>2, <3>2
  <2> QED  BY <2>3, <2>4
<1>12. Progress'
  BY <1>2, <1>11 DEF Progress
<1>13. ASSUME NEW p \in Pairs \ unsettled'
       PROVE  Some(p, links') <=> Mutual(p)'
  <2>1. p \notin unsettled /\ (Some(p, links) <=> Mutual(p))
    BY <1>1, <1>2 DEF Settled
  <2>2. p \subseteq ASes
    BY PairsOf
  <2>3. CASE a \notin p
    <3>1. Mutual(p)' <=> Mutual(p)
      BY <1>3, <2>2, <2>3 DEF Mutual
    <3> QED  BY <1>2, <2>1, <3>1
  <2>4. CASE a \in p
    <3>1. PICK b \in ASes \ {a} : p = {a, b}
      BY <2>4, PairsOf
    <3>2. b \in accept <=> b \in accepts[a]
      BY <1>10, <3>1
    <3>3. Mutual(p)' <=> b \in accepts'[a] /\ a \in accepts'[b]
      BY <3>1 DEF Mutual
    <3>4. Mutual(p) <=> b \in accepts[a] /\ a \in accepts[b]
      BY <3>1 DEF Mutual
    <3> QED  BY <1>2, <1>3, <2>1, <3>2, <3>3, <3>4
  <2> QED  BY <2>3, <2>4
<1>14. Settled'
  BY <1>13 DEF Settled
<1>15. Views'
  <2>1. \A c \in Holders, p \in Pairs : Tracked(c, p) => Tracked(c, p)'
    BY <1>2, <1>5 DEF Tracked
  <2> QED  BY <1>1, <1>2, <2>1 DEF Views, Clean
<1> QED  BY <1>6, <1>7, <1>8, <1>9, <1>12, <1>14, <1>15 DEF IInv

-----------------------------------------------------------------------------
\* A step of client c's stream keeps what concerns the transactions, and the
\* other clients.
LEMMA StreamsKeeps ==
    ASSUME IInv, NEW c \in Clients, Streams(c), StreamTypes
    PROVE  /\ Types' /\ Shape' /\ Own' /\ Progress' /\ Settled'
           /\ \A p \in Pairs, d \in Holders \ {c} : AsOf[d] \in p /\ Clean(d, p)' => Tracked(d, p)'
<1>1. /\ Types /\ Shape /\ Own /\ Progress /\ Settled /\ Views
      /\ \A b \in Running : b \in ASes
      /\ Running' = Running /\ accepts' = accepts /\ links' = links /\ unsettled' = unsettled
  BY DEF IInv, Streams, Running
<1>2. Types'
  BY <1>1 DEF Types, Streams, StreamTypes, Reasons
<1>3. ASSUME NEW b \in Running
      PROVE  LET t == tx[b]
                 u == tx'[b] IN
             /\ ShapeOf(u) /\ OwnOf(b, u) /\ u.unlink = t.unlink /\ u.accept = t.accept /\ u.met = t.met
             /\ \A d : Settles(b, d)' <=> Settles(b, d)
             /\ \A d \in Clients \ {c} : \A p : Follows(b, d, p)' <=> Follows(b, d, p)
  <2> DEFINE t == tx[b]
             u == tx'[b]
  <2>1. /\ t \in Tx /\ ShapeOf(t) /\ OwnOf(b, t)
    BY AtWork
  <2>2. /\ Alike(t, u) /\ u.met = t.met /\ u.doomed = t.doomed
        /\ u.seen \subseteq t.seen /\ \A d \in t.seen \ {c} : d \in u.seen
        /\ t.mail = <<>> /\ t.size = 0 => u.size = 0
    BY DEF Streams
  <2>3. /\ u \in Tx /\ u.step = t.step /\ u.accept = t.accept /\ u.web = t.web
        /\ u.unlink = t.unlink /\ u.told = t.told /\ u.gone = t.gone /\ u.made = t.made
        /\ u.add = t.add /\ u.mail = t.mail
    BY <2>2 DEF Alike
  <2>4. t.mail = <<>> => u.size = 0 /\ u.seen = {}
    BY <2>1, <2>2 DEF ShapeOf
  <2>5. ShapeOf(u) /\ OwnOf(b, u)
    BY <2>1, <2>2, <2>3, <2>4, AlikeShape
  <2>6. Visible(b)' = Visible(b)
    BY <1>1, <2>3 DEF Visible
  <2>7. \A d : Settles(b, d)' <=> Settles(b, d)
    BY <1>1, <2>2, <2>3, <2>6 DEF Settles, Agreed
  <2>8. ASSUME NEW d \in Clients \ {c}, NEW p
        PROVE  Follows(b, d, p)' <=> Follows(b, d, p)
    <3>1. view'[d] = view[d] /\ (d \in u.seen <=> d \in t.seen)
      BY <2>2 DEF Streams
    <3>2. \A r : Pending(b, d, r)' <=> Pending(b, d, r)
      BY <2>3, <3>1 DEF Pending
    <3> QED  BY <1>1, <2>2, <2>3, <2>6, <3>1, <3>2 DEF Follows
  <2> QED  BY <2>2, <2>3, <2>5, <2>7, <2>8
<1>4. Shape'
  BY <1>1, <1>3 DEF Shape
<1>5. Own'
  BY <1>1, <1>3 DEF Own
<1>6. Progress'
  BY <1>1, <1>3 DEF Progress
<1>7. Settled'
  BY <1>1 DEF Settled, Mutual
<1>8. ASSUME NEW p \in Pairs, NEW d \in Holders \ {c}, AsOf[d] \in p, Clean(d, p)'
      PROVE  Tracked(d, p)'
  <2>1. d \in Clients \ {c}
    BY LinkUpdatesAssumption
  <2>2. stream'[d] = stream[d] /\ fresh'[d] = fresh[d] /\ view'[d] = view[d]
        /\ excuses'[d] = excuses[d]
    BY <2>1 DEF Streams
  <2>3. Tracked(d, p)
    BY <1>1, <1>8, <2>2 DEF Views, Clean
  <2>4. \A b \in Running : Follows(b, d, p)' <=> Follows(b, d, p)
    BY <1>3, <2>1
  <2> QED  BY <1>1, <2>2, <2>3, <2>4 DEF Tracked
<1> QED  BY <1>2, <1>4, <1>5, <1>6, <1>7, <1>8

\* The dictionaries hold the clients with a stream, once each.
LEMMA RegisterKeeps ==
    ASSUME IInv, NEW c \in Clients, Register(c)
    PROVE  IInv'
<1> DEFINE a == AsOf[c]
           s == connections[a]
<1>1. /\ Types /\ Registered /\ Views /\ a \in ASes /\ s \in Seq(Clients)
  BY LinkUpdatesAssumption DEF IInv, Types
<1>2. /\ Streams(c) /\ StreamTypes
      /\ stream[c] = "off" /\ stream'[c] = "registered" /\ fresh'[c] = fresh[c] /\ view'[c] = view[c]
      /\ connections'[a] = Append(s, c)
      /\ \A p \in Pairs : c \in Holders /\ Clean(c, p)' => p \cap Running = {}
  BY <1>1, RegisterEffect
<1>3. /\ \A b \in ASes \ {a} : connections'[b] = connections[b]
      /\ \A d \in Clients \ {c} : /\ stream'[d] = stream[d] /\ fresh'[d] = fresh[d]
                                  /\ view'[d] = view[d]
      /\ Running' = Running /\ links' = links
  BY <1>2 DEF Streams
<1>4. /\ Len(Append(s, c)) = Len(s) + 1 /\ Len(s) \in Nat
      /\ Append(s, c)[Len(s) + 1] = c
      /\ \A n \in 1..Len(s) : Append(s, c)[n] = s[n]
  BY <1>1
<1>5. \A n \in 1..Len(s) : s[n] # c /\ s[n] \in Clients
  BY <1>1, <1>2 DEF Registered
<1>6. ASSUME NEW b \in ASes, NEW n \in 1..Len(connections'[b])
      PROVE  /\ AsOf[connections'[b][n]] = b
             /\ stream'[connections'[b][n]] # "off"
             /\ \A k \in 1..Len(connections'[b]) : connections'[b][k] = connections'[b][n] => k = n
  <2>1. CASE b # a
    <3>1. connections'[b] = connections[b] /\ connections[b] \in Seq(Clients)
      BY <1>1, <1>3, <2>1 DEF Types
    <3>2. connections[b][n] \in Clients /\ connections[b][n] # c
      BY <1>1, <1>6, <2>1, <3>1 DEF Registered
    <3> QED  BY <1>1, <1>3, <1>6, <3>1, <3>2 DEF Registered
  <2>2. CASE b = a
    <3>1. n \in 1..Len(s) \/ n = Len(s) + 1
      BY <1>2, <1>4, <1>6, <2>2
    <3>2. \A k \in 1..Len(connections'[a]) : k \in 1..Len(s) \/ k = Len(s) + 1
      BY <1>2, <1>4
    <3>3. CASE n \in 1..Len(s)
      <4>1. connections'[b][n] = s[n] /\ s[n] # c /\ s[n] \in Clients
        BY <1>2, <1>4, <1>5, <2>2, <3>3
      <4>2. AsOf[s[n]] = b /\ stream[s[n]] # "off" /\ \A k \in 1..Len(s) : s[k] = s[n] => k = n
        BY <1>1, <2>2, <3>3 DEF Registered
      <4>3. connections'[b] = Append(s, c) /\ Append(s, c)[n] = s[n]
        BY <1>2, <1>4, <2>2, <3>3
      <4>4. ASSUME NEW k \in 1..Len(connections'[b]), connections'[b][k] = connections'[b][n]
            PROVE  k = n
        <5>1. CASE k \in 1..Len(s)
          BY <1>4, <4>1, <4>2, <4>3, <4>4, <5>1
        <5>2. CASE k = Len(s) + 1
          BY <1>4, <4>1, <4>3, <4>4, <5>2
        <5> QED  BY <2>2, <3>2, <5>1, <5>2
      <4> QED  BY <1>3, <4>1, <4>2, <4>4
    <3>4. CASE n = Len(s) + 1
      <4>1. connections'[b][n] = c
        BY <1>2, <1>4, <2>2, <3>4
      <4> QED  BY <1>2, <1>4, <1>5, <2>2, <3>2, <3>4, <4>1
    <3> QED  BY <3>1, <3>3, <3>4
  <2> QED  BY <2>1, <2>2
<1>7. ASSUME NEW d \in Clients, stream'[d] # "off"
      PROVE  \E n \in 1..Len(connections'[AsOf[d]]) : connections'[AsOf[d]][n] = d
  <2>1. AsOf[d] \in ASes
    BY LinkUpdatesAssumption
  <2>2. CASE d = c
    <3>1. Len(s) + 1 \in 1..Len(connections'[a])
      BY <1>2, <1>4
    <3> QED  BY <1>2, <1>4, <2>2, <3>1
  <2>3. CASE d # c
    <3>1. PICK n \in 1..Len(connections[AsOf[d]]) : connections[AsOf[d]][n] = d
      BY <1>1, <1>3, <1>7, <2>3 DEF Registered
    <3>2. CASE AsOf[d] = a
      <4>1. n \in 1..Len(connections'[a]) /\ connections'[a][n] = d
        BY <1>2, <1>4, <3>1, <3>2
      <4> QED  BY <3>2, <4>1
    <3>3. CASE AsOf[d] # a
      BY <1>3, <2>1, <3>1, <3>3
    <3> QED  BY <3>2, <3>3
  <2> QED  BY <2>2, <2>3
<1>8. Registered'
  <2>1. \A d \in Clients : stream'[d] = "off" => view'[d] = {}
    BY <1>1, <1>2, <1>3 DEF Registered
  <2>2. \A d \in Clients : stream'[d] # "open" => fresh'[d] = {}
    BY <1>1, <1>2, <1>3 DEF Registered
  <2> QED  BY <1>6, <1>7, <2>1, <2>2 DEF Registered
<1>9. ASSUME NEW p \in Pairs, c \in Holders, Clean(c, p)'
      PROVE  Tracked(c, p)'
  <2>1. view[c] = {}
    BY <1>1, <1>2 DEF Registered
  <2> QED  BY <1>2, <1>3, <1>9, <2>1 DEF Tracked, Same
<1>10. /\ Types' /\ Shape' /\ Own' /\ Progress' /\ Settled'
       /\ \A p \in Pairs, d \in Holders \ {c} : AsOf[d] \in p /\ Clean(d, p)' => Tracked(d, p)'
  BY <1>2, StreamsKeeps
<1>11. Views'
  BY <1>9, <1>10 DEF Views
<1> QED  BY <1>8, <1>10, <1>11 DEF IInv

\* Reading the links does: the client will believe in what is committed.
LEMMA ReadLinksKeeps ==
    ASSUME IInv, NEW c \in Clients, ReadLinks(c)
    PROVE  IInv'
<1>1. /\ Types /\ Registered /\ Views
  BY DEF IInv
<1>2. /\ Streams(c) /\ StreamTypes
      /\ stream[c] = "registered" /\ stream'[c] = "open"
      /\ fresh'[c] = {r \in links : c \in Holders /\ AsOf[c] \in Pair(r)}
      /\ UNCHANGED <<connections, view, excuses>>
  BY <1>1, ReadLinksEffect
<1>3. /\ \A d \in Clients \ {c} : stream'[d] = stream[d] /\ fresh'[d] = fresh[d]
      /\ Running' = Running /\ links' = links
  BY <1>2 DEF Streams
<1>4. Registered'
  <2>1. \A d \in Clients : (stream'[d] = "off") <=> (stream[d] = "off")
    BY <1>2, <1>3
  <2>2. \A d \in Clients : stream'[d] # "open" => fresh'[d] = {}
    BY <1>1, <1>2, <1>3 DEF Registered
  <2>3. \A b \in ASes : \A n \in 1..Len(connections[b]) : connections[b][n] \in Clients
    BY <1>1 DEF Types
  <2> QED  BY <1>1, <1>2, <2>1, <2>2, <2>3 DEF Registered
<1>5. ASSUME NEW p \in Pairs, c \in Holders, AsOf[c] \in p, Clean(c, p)'
      PROVE  Tracked(c, p)'
  <2>1. p \cap Running = {} /\ Same(p, view[c], {})
    BY <1>1, <1>2, <1>5 DEF Views, Tracked, Clean
  <2> QED  BY <1>2, <1>3, <1>5, <2>1 DEF Tracked, Same
<1>6. /\ Types' /\ Shape' /\ Own' /\ Progress' /\ Settled'
      /\ \A p \in Pairs, d \in Holders \ {c} : AsOf[d] \in p /\ Clean(d, p)' => Tracked(d, p)'
  BY <1>2, StreamsKeeps
<1>7. Views'
  BY <1>5, <1>6 DEF Views
<1> QED  BY <1>4, <1>6, <1>7 DEF IInv

\* Sending them does: they move from fresh to the view.
LEMMA SendExistingKeeps ==
    ASSUME IInv, NEW c \in Clients, SendExisting(c)
    PROVE  IInv'
<1>1. /\ Types /\ Registered /\ Views
  BY DEF IInv
<1>2. /\ Streams(c) /\ StreamTypes
      /\ \E r \in fresh[c] : fresh'[c] = fresh[c] \ {r} /\ view'[c] = view[c] \cup {r}
      /\ UNCHANGED <<connections, stream, excuses>>
  BY <1>1, SendExistingEffect
<1>3. PICK r \in fresh[c] : fresh'[c] = fresh[c] \ {r} /\ view'[c] = view[c] \cup {r}
  BY <1>2
<1>4. /\ \A d \in Clients \ {c} : fresh'[d] = fresh[d] /\ view'[d] = view[d]
      /\ Running' = Running /\ links' = links
  BY <1>2 DEF Streams
<1>5. stream[c] = "open"
  BY <1>1, <1>3 DEF Registered
<1>6. Registered'
  <2>1. \A d \in Clients : stream[d] = "off" => view'[d] = {}
    BY <1>1, <1>4, <1>5 DEF Registered
  <2>2. \A d \in Clients : stream[d] # "open" => fresh'[d] = {}
    BY <1>1, <1>4, <1>5 DEF Registered
  <2> QED  BY <1>1, <1>2, <2>1, <2>2 DEF Registered
<1>7. ASSUME NEW p \in Pairs, c \in Holders, AsOf[c] \in p, Clean(c, p)'
      PROVE  Tracked(c, p)'
  <2>1. Tracked(c, p)
    BY <1>1, <1>2, <1>7 DEF Views, Clean
  <2>2. \A q : q \in view'[c] \cup fresh'[c] <=> q \in view[c] \cup fresh[c]
    BY <1>3
  <2>3. CASE p \cap Running = {}
    BY <1>2, <1>4, <1>5, <2>1, <2>2, <2>3 DEF Tracked, Same
  <2>4. ASSUME NEW a \in p \cap Running
        PROVE  p \cap Running = {a} /\ Same(p, fresh'[c], {}) /\ Follows(a, c, p)'
    <3>1. p \cap Running = {a} /\ Same(p, fresh[c], {}) /\ Follows(a, c, p)
      BY <1>5, <2>1, <2>4 DEF Tracked
    <3>2. Same(p, fresh'[c], {}) /\ \A q \in Row : Pair(q) = p => (q \in view'[c] <=> q \in view[c])
      BY <1>3, <3>1 DEF Same
    <3>3. tx' = tx
      BY DEF SendExisting, server
    <3>4. \A q : Pending(a, c, q)' <=> Pending(a, c, q)
      BY <3>3 DEF Pending
    <3>5. Visible(a)' = Visible(a)
      BY <1>4, <3>3 DEF Visible
    <3> QED  BY <1>4, <3>1, <3>2, <3>3, <3>4, <3>5 DEF Follows, Same
  <2> QED  BY <1>2, <1>4, <1>5, <2>3, <2>4 DEF Tracked
<1>8. /\ Types' /\ Shape' /\ Own' /\ Progress' /\ Settled'
      /\ \A p \in Pairs, d \in Holders \ {c} : AsOf[d] \in p /\ Clean(d, p)' => Tracked(d, p)'
  BY <1>2, StreamsKeeps
<1>9. Views'
  BY <1>7, <1>8 DEF Views
<1> QED  BY <1>6, <1>8, <1>9 DEF IInv

\* Closing a stream does: an iteration begins anew or will raise.
LEMMA CloseKeeps ==
    ASSUME IInv, NEW c \in Clients, Close(c)
    PROVE  IInv'
<1> DEFINE a == AsOf[c]
           s == connections[a]
           left == connections'[a]
<1>1. /\ Types /\ Registered /\ a \in ASes /\ s \in Seq(Clients) /\ Len(s) \in Nat
  BY LinkUpdatesAssumption DEF IInv, Types
<1>2. /\ Streams(c) /\ StreamTypes
      /\ stream'[c] = "off" /\ fresh'[c] = {} /\ view'[c] = {}
      /\ \E n \in 1..Len(s) :
            /\ s[n] = c /\ Len(left) = Len(s) - 1
            /\ \A k \in 1..Len(left) : left[k] = IF k < n THEN s[k] ELSE s[k + 1]
  BY <1>1, CloseEffect
<1>3. /\ \A b \in ASes \ {a} : connections'[b] = connections[b]
      /\ \A d \in Clients \ {c} : /\ stream'[d] = stream[d] /\ fresh'[d] = fresh[d]
                                  /\ view'[d] = view[d]
  BY <1>2 DEF Streams
<1>4. PICK n0 \in 1..Len(s) :
            /\ s[n0] = c /\ Len(left) = Len(s) - 1
            /\ \A k \in 1..Len(left) : left[k] = IF k < n0 THEN s[k] ELSE s[k + 1]
  BY <1>2
\* Where the remaining clients were.
<1> DEFINE was(k) == IF k < n0 THEN k ELSE k + 1
<1>5. \A k \in 1..Len(left) : was(k) \in 1..Len(s) /\ was(k) # n0 /\ left[k] = s[was(k)]
  BY <1>1, <1>4
<1>6. \A k, n \in 1..Len(left) : was(k) = was(n) => k = n
  BY <1>1, <1>4
<1>7. \A n \in 1..Len(s) : n # n0 => \E k \in 1..Len(left) : was(k) = n
  <2> SUFFICES ASSUME NEW n \in 1..Len(s), n # n0
               PROVE  \E k \in 1..Len(left) : was(k) = n
    OBVIOUS
  <2>1. CASE n < n0
    <3>1. n \in 1..Len(left) /\ was(n) = n
      BY <1>1, <1>4, <2>1
    <3> QED  BY <3>1
  <2>2. CASE ~(n < n0)
    <3>1. n - 1 \in 1..Len(left) /\ was(n - 1) = n
      BY <1>1, <1>4, <2>2
    <3> QED  BY <3>1
  <2> QED  BY <2>1, <2>2
<1> HIDE DEF was
<1>8. /\ \A n \in 1..Len(s) : /\ AsOf[s[n]] = a /\ stream[s[n]] # "off" /\ s[n] \in Clients
                              /\ \A k \in 1..Len(s) : s[k] = s[n] => k = n
  BY <1>1 DEF Registered
<1>9. ASSUME NEW b \in ASes, NEW n \in 1..Len(connections'[b])
      PROVE  /\ AsOf[connections'[b][n]] = b
             /\ stream'[connections'[b][n]] # "off"
             /\ \A k \in 1..Len(connections'[b]) : connections'[b][k] = connections'[b][n] => k = n
  <2>1. CASE b # a
    <3>1. connections'[b] = connections[b] /\ connections[b] \in Seq(Clients)
      BY <1>1, <1>3, <2>1 DEF Types
    <3>2. connections[b][n] \in Clients /\ connections[b][n] # c
      BY <1>1, <1>9, <2>1, <3>1 DEF Registered
    <3> QED  BY <1>1, <1>3, <1>9, <3>1, <3>2 DEF Registered
  <2>2. CASE b = a
    <3>1. left[n] = s[was(n)] /\ was(n) \in 1..Len(s) /\ was(n) # n0
      BY <1>5, <1>9, <2>2
    <3>2. left[n] # c /\ left[n] \in Clients /\ AsOf[left[n]] = a /\ stream[left[n]] # "off"
      BY <1>4, <1>8, <3>1
    <3>3. ASSUME NEW k \in 1..Len(left), left[k] = left[n]
          PROVE  k = n
      <4>1. left[k] = s[was(k)] /\ was(k) \in 1..Len(s)
        BY <1>5
      <4>2. was(k) = was(n)
        BY <1>8, <3>1, <3>3, <4>1
      <4> QED  BY <1>6, <1>9, <2>2, <4>2
    <3> QED  BY <1>3, <2>2, <3>2, <3>3
  <2> QED  BY <2>1, <2>2
<1>10. ASSUME NEW d \in Clients, stream'[d] # "off"
       PROVE  \E n \in 1..Len(connections'[AsOf[d]]) : connections'[AsOf[d]][n] = d
  <2>1. AsOf[d] \in ASes /\ d # c
    BY <1>2, <1>10, LinkUpdatesAssumption
  <2>2. PICK n \in 1..Len(connections[AsOf[d]]) : connections[AsOf[d]][n] = d
    BY <1>1, <1>3, <1>10, <2>1 DEF Registered
  <2>3. CASE AsOf[d] # a
    BY <1>3, <2>1, <2>2, <2>3
  <2>4. CASE AsOf[d] = a
    <3>1. n \in 1..Len(s) /\ n # n0
      BY <1>4, <2>1, <2>2, <2>4
    <3>2. PICK k \in 1..Len(left) : was(k) = n
      BY <1>7, <3>1
    <3>3. left[k] = d
      BY <1>5, <2>2, <2>4, <3>2
    <3> QED  BY <2>4, <3>3
  <2> QED  BY <2>3, <2>4
<1>11. Registered'
  <2>1. \A d \in Clients : stream'[d] = "off" => view'[d] = {}
    BY <1>1, <1>2, <1>3 DEF Registered
  <2>2. \A d \in Clients : stream'[d] # "open" => fresh'[d] = {}
    BY <1>1, <1>2, <1>3 DEF Registered
  <2> QED  BY <1>9, <1>10, <2>1, <2>2 DEF Registered
<1>12. \A p : Tracked(c, p)'
  BY <1>2 DEF Tracked
<1>13. /\ Types' /\ Shape' /\ Own' /\ Progress' /\ Settled'
       /\ \A p \in Pairs, d \in Holders \ {c} : AsOf[d] \in p /\ Clean(d, p)' => Tracked(d, p)'
  BY <1>2, StreamsKeeps
<1>14. Views'
  BY <1>12, <1>13 DEF Views
<1> QED  BY <1>11, <1>13, <1>14 DEF IInv

-----------------------------------------------------------------------------
\* No transaction, no link and no stream is there at first.
LEMMA InvInit == Init => IInv
<1> SUFFICES ASSUME Init PROVE IInv
  OBVIOUS
<1>1. /\ Running = {}
      /\ \A c \in Clients : stream[c] = "off" /\ fresh[c] = {} /\ view[c] = {}
      /\ \A a \in ASes : accepts[a] = {} /\ connections[a] = <<>>
      /\ links = {}
  BY DEF Init, Running
<1>2. Types
  <2>1. <<>> \in Seq(Clients)
    OBVIOUS
  <2>2. connections \in [ASes -> Seq(Clients)]
    BY <2>1 DEF Init
  <2> QED  BY <2>2 DEF Init, Types
<1>3. Registered
  <2>1. \A a \in ASes : Len(connections[a]) = 0
    BY <1>1
  <2>2. \A a \in ASes : \A n \in 1..Len(connections[a]) : FALSE
    BY <2>1
  <2> QED  BY <1>1, <2>2 DEF Registered
<1>4. Shape /\ Own /\ Progress
  BY <1>1 DEF Shape, Own, Progress
<1>5. Settled
  <2>1. ASSUME NEW p \in Pairs
        PROVE  ~Some(p, links) /\ ~Mutual(p)
    <3>1. ~Some(p, links)
      BY <1>1 DEF Some
    <3>2. PICK r \in Row : p = {r[1], r[2]}
      BY DEF Pairs, Pair
    <3>3. r[1] \in ASes /\ r[2] \in ASes /\ r[1] # r[2]
      BY PairsOf
    <3>4. r[1] \in p /\ r[2] \in p \ {r[1]} /\ accepts[r[1]] = {}
      BY <1>1, <3>2, <3>3
    <3> QED  BY <3>1, <3>4 DEF Mutual
  <2> QED  BY <2>1 DEF Settled
<1>6. Views
  <2>1. \A c \in Holders : stream[c] = "off"
    BY <1>1, LinkUpdatesAssumption
  <2> QED  BY <2>1 DEF Views, Tracked
<1> QED  BY <1>2, <1>3, <1>4, <1>5, <1>6 DEF IInv

\* Each statement of a transaction keeps the invariant.
LEMMA TransactionKeeps ==
    ASSUME IInv, NEW a \in ASes, a \in Running, Transaction(a)
    PROVE  IInv'
<1>1. Types /\ Own
  BY DEF IInv
<1>2. CASE Collect(a)
  BY <1>2, CollectKeeps
<1>3. CASE Delete(a)
  BY <1>3, DeleteKeeps
<1>4. CASE TellDeleted(a)
  BY <1>4, TellKeeps
<1>5. CASE FindPeers(a)
  BY <1>5, FindPeersKeeps
<1>6. CASE Send(a)
  BY <1>6, SendKeeps
<1>7. "failed" \in Reasons /\ "rejected" \in Reasons
  BY DEF Reasons
<1>8. CASE SendFails(a)
  <2>1. Rollback(a, "failed")
    BY <1>8 DEF SendFails
  <2> QED  BY <1>1, <1>7, <2>1, RollbackEffect, UndoneKeeps
<1>9. CASE Reject(a)
  <2>1. Rollback(a, "rejected")
    BY <1>9 DEF Reject
  <2> QED  BY <1>1, <1>7, <2>1, RollbackEffect, UndoneKeeps
<1>10. CASE Commit(a)
  BY <1>1, <1>10, CommitEffect, CommittedKeeps
<1>11. ASSUME NEW b \in ASes, CreateLink(a, b)
       PROVE  IInv'
  BY <1>11, CreateKeeps
<1>12. ASSUME NEW b \in ASes, CreateFails(a, b)
       PROVE  IInv'
  <2>1. Rollback(a, "failed")
    BY <1>12 DEF CreateFails
  <2> QED  BY <1>1, <1>7, <2>1, RollbackEffect, UndoneKeeps
<1> QED
  BY <1>2, <1>3, <1>4, <1>5, <1>6, <1>8, <1>9, <1>10, <1>11, <1>12 DEF Transaction

\* So does the start of one.
LEMMA StartKeeps ==
    ASSUME IInv, Start
    PROVE  IInv'
<1>1. Types /\ Own
  BY DEF IInv
<1>2. CASE \/ \E a \in ASes : AdminUpdateLinks(a)
           \/ \E a \in ASes, accept \in SUBSET ASes : a \notin accept /\ ChangePolicies(a, accept)
           \/ \E r \in Row : AdminDeleteLink(r)
  BY <1>1, <1>2, StartsOpening, OpensKeeps
<1>3. CASE \E a \in ASes, accept \in SUBSET ASes : a \notin accept /\ AdminPolicies(a, accept)
  BY <1>3, AdminPoliciesKeeps
<1> QED  BY <1>2, <1>3 DEF Start

\* So does every step.
LEMMA InvStep == IInv /\ [Next]_vars => IInv'
<1> SUFFICES ASSUME IInv, [Next]_vars PROVE IInv'
  OBVIOUS
<1>1. CASE Start
  BY <1>1, StartKeeps
<1>2. ASSUME NEW a \in ASes, a \in Running, Transaction(a)
      PROVE  IInv'
  BY <1>2, TransactionKeeps
<1>3. ASSUME NEW c \in Clients, StreamChannel(c)
      PROVE  IInv'
  BY <1>3, RegisterKeeps, ReadLinksKeeps, SendExistingKeeps, CloseKeeps DEF StreamChannel
<1>4. CASE UNCHANGED vars
  <2>1. Running' = Running
    BY <1>4 DEF vars, Running
  <2>10. Types' /\ Registered'
    BY <1>4 DEF IInv, vars, Types, Registered
  <2>11. Shape' /\ Own'
    BY <1>4, <2>1 DEF IInv, vars, Shape, Own
  <2>12. Settled'
    BY <1>4 DEF IInv, vars, Settled, Mutual
  <2>2. Types' /\ Registered' /\ Shape' /\ Own' /\ Settled'
    BY <2>10, <2>11, <2>12
  <2>3. \A a : Visible(a)' = Visible(a)
    BY <1>4 DEF vars, Visible
  <2>4. \A a, b : Settles(a, b)' <=> Settles(a, b)
    BY <1>4, <2>3 DEF vars, Settles, Agreed
  <2>5. Progress'
    BY <1>4, <2>1, <2>4 DEF IInv, vars, Progress
  <2>6. \A a, c, r : Pending(a, c, r)' <=> Pending(a, c, r)
    BY <1>4 DEF vars, Pending
  <2>7. \A a, c, p : Follows(a, c, p)' <=> Follows(a, c, p)
    BY <1>4, <2>3, <2>6 DEF vars, Follows
  <2>8. \A c, p : Tracked(c, p)' <=> Tracked(c, p)
    BY <1>4, <2>1, <2>7 DEF vars, Tracked
  <2>9. Views'
    BY <1>4, <2>8 DEF IInv, vars, Views, Clean
  <2> QED  BY <2>2, <2>5, <2>9 DEF IInv
<1> QED  BY <1>1, <1>2, <1>3, <1>4 DEF Next

\* The invariant holds of every behaviour: pairs that nobody disturbed settle, and
\* clients that nobody mentioned in an excuse know the links of their AS.
THEOREM InvCorrect == Spec => []IInv
BY InvInit, InvStep, PTL DEF Spec

\* Every table, transaction, dictionary and stream holds what it is meant to
\* hold; no client is in its AS's dictionary twice (client_connection.py:270-278).
THEOREM TypeCorrect == Spec => []TypeOK
<1>1. ASSUME IInv
      PROVE  TypeOK
  <2>1. Types /\ Registered
    BY <1>1 DEF IInv
  <2>2. ASSUME NEW a \in Running
        PROVE  /\ tx[a].step \in {"collect", "delete", "tell", "create"}
               /\ tx[a].accept \cup tx[a].add \cup tx[a].met \subseteq ASes
               /\ UNION {tx[a].doomed, tx[a].told, tx[a].gone, tx[a].made} \subseteq Row
               /\ tx[a].mail \in Seq(Update) /\ tx[a].seen \subseteq Clients
    <3>1. tx[a] \in Tx
      BY <2>1, RunningTx DEF Running
    <3>2. /\ tx[a].doomed \subseteq Row /\ tx[a].told \subseteq Row
          /\ tx[a].gone \subseteq Row /\ tx[a].made \subseteq Row
      BY <3>1 DEF Tx
    <3>3. UNION {tx[a].doomed, tx[a].told, tx[a].gone, tx[a].made} \subseteq Row
      BY <3>2
    <3> QED  BY <3>1, <3>3 DEF Tx, Step
  <2>3. ASSUME NEW a \in ASes
        PROVE  Len(connections[a]) <= Cardinality({c \in Clients : AsOf[c] = a})
    <3> DEFINE s == connections[a]
               own == {c \in Clients : AsOf[c] = a}
    <3>1. IsFiniteSet(own) /\ Cardinality(own) \in Nat
      BY LinkUpdatesAssumption, FS_Subset, FS_CardinalityType
    <3>2. s \in Seq(Clients) /\ Len(s) \in Nat
      BY <2>1 DEF Types
    <3>3. s \in [1..Len(s) -> own]
      <4>1. \A n \in 1..Len(s) : s[n] \in own
        BY <2>1, <3>2 DEF Registered
      <4>2. s \in [1..Len(s) -> Clients]
        BY <3>2
      <4> HIDE DEF own
      <4> QED  BY <4>1, <4>2
    <3>4. \A k, n \in 1..Len(s) : s[k] = s[n] => k = n
      BY <2>1 DEF Registered
    <3>5. IsFiniteSet(1..Len(s)) /\ Cardinality(1..Len(s)) = Len(s)
      <4> DEFINE n == Len(s)
      <4>1. n \in Nat
        BY <3>2
      <4> HIDE DEF n
      <4>2. IsFiniteSet(1..n) /\ Cardinality(1..n) = IF 1 > n THEN 0 ELSE n - 1 + 1
        BY <4>1, FS_Interval
      <4>3. IsFiniteSet(1..n) /\ Cardinality(1..n) = n
        BY <4>1, <4>2
      <4> QED  BY <4>3 DEF n
    <3> HIDE DEF s, own
    <3>6. ~(Cardinality(own) < Len(s))
      BY <3>1, <3>3, <3>4, <3>5, FS_PigeonHole
    <3> QED  BY <3>1, <3>2, <3>6 DEF s, own
  <2> QED  BY <2>1, <2>2, <2>3 DEF TypeOK, Types
<1> QED  BY <1>1, InvCorrect, PTL

\* Some and Same say what the properties say with On.
LEMMA OnRows ==
    ASSUME NEW p, NEW rows \in SUBSET Row, NEW others \in SUBSET Row
    PROVE  /\ Same(p, rows, others) => On(p, rows) = On(p, others)
           /\ On(p, rows) # {} <=> Some(p, rows)
BY DEF Same, Some, On

\* Links follow the policies of both sides for the pairs nobody disturbed,
\* for any number of ASes and transactions (policy_resolver.py:99-117).
THEOREM LinksDoSettle == Spec => []LinksSettle
<1>1. ASSUME IInv, NEW p \in Pairs \ unsettled
      PROVE  (On(p, links) # {}) = Mutual(p)
  <2>1. links \in SUBSET Row /\ (Some(p, links) <=> Mutual(p))
    BY <1>1 DEF IInv, Types, Settled
  <2>2. On(p, links) # {} <=> Some(p, links)
    BY <2>1, OnRows
  <2>3. (On(p, links) # {}) \in BOOLEAN /\ Mutual(p) \in BOOLEAN
    BY DEF Mutual
  <2> QED  BY <2>1, <2>2, <2>3
<1>2. IInv => LinksSettle
  BY <1>1 DEF LinksSettle
<1> QED  BY <1>2, InvCorrect, PTL

\* A client's view of a pair is wrong for one of the recorded reasons only,
\* for any number of clients, ASes and transactions (peering.py:58-73,
\* ixp.py:293-303, 371-390).
THEOREM ViewsDoAgree == Spec => []ViewsAgree
<1>1. ASSUME IInv, NEW c \in Holders, NEW p \in Pairs,
             stream[c] = "open", ~Opening(c), AsOf[c] \in p, p \cap Running = {},
             \A why \in {"raced", "failed", "rejected", "unsent"} : <<why, p>> \notin excuses[c]
      PROVE  On(p, view[c]) = On(p, links)
  <2>1. Types /\ Views /\ c \in Clients
    BY <1>1, LinkUpdatesAssumption DEF IInv
  <2>2. Clean(c, p)
    <3>1. excuses[c] \subseteq {"raced", "failed", "rejected", "unsent"} \X Pairs
      BY <2>1 DEF Types
    <3>2. \A e \in excuses[c] : e = <<e[1], e[2]>>
                                /\ e[1] \in {"raced", "failed", "rejected", "unsent"}
      BY <3>1
    <3>3. \A e \in excuses[c] : e[2] # p
      BY <1>1, <3>2
    <3> QED  BY <3>3 DEF Clean
  <2>3. Tracked(c, p) /\ fresh[c] = {}
    BY <1>1, <2>1, <2>2 DEF Views, Opening
  <2>4. Same(p, view[c], links)
    BY <1>1, <2>3 DEF Tracked, Same
  <2>5. view[c] \in SUBSET Row /\ links \in SUBSET Row
    BY <2>1 DEF Types
  <2> QED  BY <2>4, <2>5, OnRows
<1>2. IInv => ViewsAgree
  BY <1>1 DEF ViewsAgree
<1> QED  BY <1>2, InvCorrect, PTL
=============================================================================
