--------------------------- MODULE LinkTableProofs ---------------------------
(***************************************************************************)
(* Proofs about LinkTable, for any links, capacity of the channels and     *)
(* bound on the server: the types, which say that the flags of an entry    *)
(* are never in a combination that makes Install remove it, and that the   *)
(* table follows the updates.                                              *)
(***************************************************************************)
EXTENDS LinkTable, SequenceTheorems, TLAPS

\* What the operations of the table make of an entry's flags.
LEMMA FlagTypes ==
    ASSUME NEW f \in FlagSets
    PROVE  /\ Added(f) \in FlagSets \ {{}}
           /\ Removed(f) \in {{}, {"INSTALLED", "DESTROY"}}
           /\ Installed(f) \in FlagSets
           /\ Installed(f) = {} <=> f = {}
           /\ f \in {{}, {"INSTALLED", "DESTROY"}} => Installed(f) = f
           /\ "INSTALLED" \in f => /\ "INSTALLED" \in Added(f) /\ "INSTALLED" \in Removed(f)
                                   /\ "INSTALLED" \in Installed(f)
<1>1. CASE f = {}
  BY <1>1 DEF Added, Removed, Installed, FlagSets
<1>2. CASE f = {"CREATE"}
  <2>1. Installed(f) = {"INSTALLED"}
    BY <1>2 DEF Installed
  <2> QED  BY <1>2, <2>1 DEF Added, Removed, FlagSets
<1>3. CASE f = {"INSTALLED"}
  <2>1. Removed(f) = {"INSTALLED", "DESTROY"}
    BY <1>3 DEF Removed
  <2> QED  BY <1>3, <2>1 DEF Added, Installed, FlagSets
<1>4. CASE f = {"INSTALLED", "DESTROY"}
  <2>1. Removed(f) = {"INSTALLED", "DESTROY"}
    BY <1>4 DEF Removed
  <2> QED  BY <1>4, <2>1 DEF Added, Installed, FlagSets
<1> QED  BY <1>1, <1>2, <1>3, <1>4 DEF FlagSets

\* What a message put in a channel is.
LEMMA MessageTypes ==
    ASSUME TypeOK, hand # <<>>
    PROVE  /\ hand[1] \in Messages
           /\ hand[1] \notin Arbitrations => hand[1] \in Updates
BY DEF TypeOK, Messages

\* Putting a message in a channel that has room for it.
LEMMA PutTypes ==
    ASSUME NEW S, NEW chan \in Seq(S), NEW new, hand[1] \in S, Put(chan, new)
    PROVE  new \in Seq(S) /\ Len(new) <= Capacity
<1>1. Len(chan) < Capacity /\ new = Append(chan, hand[1])
  BY DEF Put
<1>2. new \in Seq(S) /\ Len(new) = Len(chan) + 1
  BY <1>1, AppendProperties
<1> QED  BY <1>1, <1>2, LinkTableAssumption

\* A step keeps the types.
LEMMA TypeStep ==
    ASSUME TypeOK, [Next]_vars
    PROVE  TypeOK'
<1> USE LinkTableAssumption
<1>1. ASSUME NEW m \in Messages, Serve(m)  PROVE TypeOK'
  <2>1. stream' \in Seq(Messages)
    BY <1>1 DEF Serve, TypeOK
  <2>2. said' \in [Links -> Types \cup {"none"}]
    BY <1>1 DEF Serve, TypeOK, Updates
  <2> QED  BY <1>1, <2>1, <2>2 DEF Serve, TypeOK, receiver, channels, loop
<1>2. ASSUME End  PROVE TypeOK'
  <2>1. PICK n \in 0..Len(stream) : stream' = SubSeq(stream, 1, n)
    BY <1>2 DEF End
  <2>2. \A i \in 1..n : stream[i] \in Messages
    BY DEF TypeOK
  <2>3. stream' \in Seq(Messages)
    BY <2>1, <2>2, SubSeqProperties
  <2> QED  BY <1>2, <2>3 DEF End, TypeOK, receiver, channels, loop
<1>3. CASE Recv
  <2>1. Head(stream) \in Messages /\ Tail(stream) \in Seq(Messages)
    BY <1>3 DEF Recv, TypeOK
  <2> QED  BY <1>3, <2>1 DEF Recv, TypeOK, channels, loop
<1>4. CASE Forward
  <2>1. hand' \in Seq(Messages) /\ Len(hand') <= 1
    BY <1>4 DEF Forward
  <2>2. CASE hand[1] \in Arbitrations
    <3>1. Put(arbChan, arbChan') /\ linkUpdateChan' = linkUpdateChan
      BY <1>4, <2>2 DEF Forward
    <3>2. arbChan' \in Seq(Arbitrations) /\ Len(arbChan') <= Capacity
      BY <2>2, <3>1, PutTypes DEF TypeOK
    <3> QED  BY <1>4, <2>1, <3>1, <3>2 DEF Forward, TypeOK, loop
  <2>3. CASE hand[1] \notin Arbitrations
    <3>1. Put(linkUpdateChan, linkUpdateChan') /\ arbChan' = arbChan
      BY <1>4, <2>3 DEF Forward
    <3>2. hand[1] \in Updates
      BY <1>4, <2>3, MessageTypes DEF Forward
    <3>3. linkUpdateChan' \in Seq(Updates) /\ Len(linkUpdateChan') <= Capacity
      BY <3>1, <3>2, PutTypes DEF TypeOK
    <3> QED  BY <1>4, <2>1, <3>1, <3>3 DEF Forward, TypeOK, loop
  <2> QED  BY <2>2, <2>3
<1>5. CASE RecvFails
  BY <1>5 DEF RecvFails, TypeOK, channels, loop
<1>6. CASE TakeArbitration
  <2>1. arbChan' \in Seq(Arbitrations) /\ Len(arbChan') <= Capacity
    BY <1>6 DEF TakeArbitration, TypeOK
  <2> QED  BY <1>6, <2>1 DEF TakeArbitration, TypeOK, receiver, loop
<1>7. CASE SetPoliciesReturns
  BY <1>7 DEF SetPoliciesReturns, TypeOK, receiver, channels, loop
<1>8. CASE TakeUpdate
  <2>1. linkUpdateChan' \in Seq(Updates) /\ Len(linkUpdateChan') <= Capacity
    BY <1>8 DEF TakeUpdate, TypeOK
  <2>2. Head(linkUpdateChan) \in Updates
    BY <1>8 DEF TakeUpdate, TypeOK
  <2>3. links' \in [Links -> FlagSets]
    BY <1>8, <2>2, FlagTypes DEF TakeUpdate, TypeOK, Updates, FlagSets
  <2>4. last' \in [Links -> Types \cup {"none"}]
    BY <1>8, <2>2 DEF TakeUpdate, TypeOK, Updates
  <2> QED  BY <1>8, <2>1, <2>3, <2>4 DEF TakeUpdate, TypeOK, receiver, loop
<1>9. CASE Stop
  BY <1>9 DEF Stop, TypeOK, receiver, channels, loop
<1>10. CASE Install
  <2>1. links' \in [Links -> FlagSets]
    BY <1>10, FlagTypes DEF Install, TypeOK
  <2> QED  BY <1>10, <2>1 DEF Install, TypeOK, receiver, channels
<1>11. CASE RunScript
  BY <1>11 DEF RunScript, TypeOK, receiver, channels
<1>12. CASE UNCHANGED vars
  BY <1>12 DEF vars, TypeOK
<1> QED  BY <1>1, <1>2, <1>3, <1>4, <1>5, <1>6, <1>7, <1>8, <1>9, <1>10, <1>11, <1>12
         DEF Next, Server, Receiver, Handler, Main

LEMMA TypeInit ==
    ASSUME Init
    PROVE  TypeOK
<1>1. links \in [Links -> FlagSets]
  BY DEF Init, FlagSets
<1>2. stream \in Seq(Messages) /\ hand \in Seq(Messages)
  BY DEF Init
<1>3. arbChan \in Seq(Arbitrations) /\ linkUpdateChan \in Seq(Updates)
  BY DEF Init
<1>4. Len(hand) <= 1 /\ Len(arbChan) <= Capacity /\ Len(linkUpdateChan) <= Capacity
  BY LinkTableAssumption DEF Init
<1>5. said \in [Links -> Types \cup {"none"}] /\ last \in [Links -> Types \cup {"none"}]
  BY DEF Init
<1> QED  BY <1>1, <1>2, <1>3, <1>4, <1>5 DEF Init, TypeOK

\* Types: channels within their capacity, and flags in legal combinations only.
THEOREM TypeCorrect == Spec => []TypeOK
<1>1. Init => TypeOK
  BY TypeInit
<1>2. TypeOK /\ [Next]_vars => TypeOK'
  BY TypeStep
<1> QED  BY <1>1, <1>2, PTL DEF Spec

\* The steps that leave the table alone, and the two that do not.
LEMMA TableSteps ==
    ASSUME [Next]_vars
    PROVE  \/ UNCHANGED <<links, last>>
           \/ TakeUpdate
           \/ Install
BY DEF Next, Server, Receiver, Handler, Main, Serve, End, Recv, Forward, RecvFails,
       TakeArbitration, SetPoliciesReturns, Stop, RunScript, vars

\* A step keeps the table in line with the updates handled.
LEMMA FollowStep ==
    ASSUME TypeOK, LinksFollow, [Next]_vars
    PROVE  LinksFollow'
<1>1. CASE UNCHANGED <<links, last>>
  BY <1>1 DEF LinksFollow
<1>2. CASE TakeUpdate
  <2> DEFINE u == Head(linkUpdateChan)
  <2>1. u \in Updates
    BY <1>2 DEF TakeUpdate, TypeOK
  <2>2. u.link \in Links /\ u.type \in Types
    BY <2>1 DEF Updates
  <2>3. /\ links' = [links EXCEPT ![u.link] =
                        IF u.type = "CREATE" THEN Added(@) ELSE Removed(@)]
        /\ last' = [last EXCEPT ![u.link] = u.type]
    BY <1>2 DEF TakeUpdate
  <2>4. links \in [Links -> FlagSets] /\ last \in [Links -> Types \cup {"none"}]
    BY DEF TypeOK
  <2>5. Added(links[u.link]) # {} /\ Removed(links[u.link]) \in {{}, {"INSTALLED", "DESTROY"}}
    BY <2>2, <2>4, FlagTypes
  <2>6. ASSUME NEW l \in Links
        PROVE  IF last'[l] = "CREATE" THEN links'[l] # {}
               ELSE links'[l] \in {{}, {"INSTALLED", "DESTROY"}}
    <3>1. CASE l = u.link
      <4>1. last'[l] = u.type
        BY <2>3, <2>4, <3>1
      <4>2. links'[l] = IF u.type = "CREATE" THEN Added(links[l]) ELSE Removed(links[l])
        BY <2>3, <2>4, <3>1
      <4> QED  BY <2>5, <3>1, <4>1, <4>2
    <3>2. CASE l # u.link
      <4>1. last'[l] = last[l] /\ links'[l] = links[l]
        BY <2>3, <2>4, <3>2
      <4> QED  BY <4>1 DEF LinksFollow
    <3> QED  BY <3>1, <3>2
  <2> QED  BY <2>6 DEF LinksFollow
<1>3. CASE Install
  <2>1. \A l \in Links : links'[l] = Installed(links[l]) /\ last'[l] = last[l]
    BY <1>3 DEF Install
  <2> QED  BY <2>1, FlagTypes, SMTT(30) DEF LinksFollow, TypeOK
<1> QED  BY <1>1, <1>2, <1>3, TableSteps

\* The table follows the last update handled: Install never installs a link
\* that is not wanted, and no link that is wanted is missing from the table.
THEOREM TableFollowsUpdates == Spec => []LinksFollow
<1>1. Init => TypeOK /\ LinksFollow
  BY TypeInit DEF Init, LinksFollow
<1>2. TypeOK /\ LinksFollow /\ [Next]_vars => (TypeOK /\ LinksFollow)'
  BY TypeStep, FollowStep
<1> QED  BY <1>1, <1>2, PTL DEF Spec

\* No step takes an installed link from the table, so the part of Install that
\* removes links is never reached: a link that is no longer desired is removed
\* only if it was not installed yet, against peering.proto:72-79 (link.go:57-63,
\* 73-84).
THEOREM NothingUninstalled ==
    Spec => [][\A l \in Links : "INSTALLED" \in links[l] => "INSTALLED" \in links'[l]]_links
<1>1. TypeOK /\ [Next]_vars
        => [\A l \in Links : "INSTALLED" \in links[l] => "INSTALLED" \in links'[l]]_links
  <2> SUFFICES ASSUME TypeOK, [Next]_vars, NEW l \in Links, links' # links,
                      "INSTALLED" \in links[l]
               PROVE  "INSTALLED" \in links'[l]
    OBVIOUS
  <2> USE DEF TypeOK
  <2>1. CASE TakeUpdate
    <3>1. links'[l] \in {links[l], Added(links[l]), Removed(links[l])}
      BY <2>1 DEF TakeUpdate
    <3> QED  BY <3>1, FlagTypes
  <2>2. CASE Install
    <3>1. links'[l] = Installed(links[l])
      BY <2>2 DEF Install
    <3> QED  BY <3>1, FlagTypes
  <2> QED  BY <2>1, <2>2, TableSteps
<1>2. Spec => []TypeOK
  BY TypeCorrect
<1> QED  BY <1>1, <1>2, PTL DEF Spec
=============================================================================
