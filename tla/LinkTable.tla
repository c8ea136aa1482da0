------------------------------ MODULE LinkTable ------------------------------
(***************************************************************************)
(* The reference client (src/go/coord-client): a goroutine that receives   *)
(* from the persistent stream, one that handles what was received, and the *)
(* main loop that installs links and runs the AS's configuration script.   *)
(* Installing a link only sets a flag: nothing is written for the script.  *)
(*                                                                         *)
(* One connection.  The server's messages are arbitration updates, link    *)
(* updates with both ends filled in, and errors, which are only logged.    *)
(* The client has no way to reconnect.                                     *)
(***************************************************************************)
EXTENDS Integers, Sequences

CONSTANTS
    Links,      \* values of type Link
    Capacity,   \* of arbChan and linkUpdateChan
    MaxSent     \* bound: messages sent by the server and not yet received

ASSUME LinkTableAssumption == Capacity \in Nat \ {0} /\ MaxSent \in Nat

VARIABLES
    stream,     \* messages sent by the server
    open,       \* the stream has not ended
    hand,       \* what recvPersistentStream has received and not put in a channel
    arbChan, linkUpdateChan,
    closed,     \* recvPersistentStream has closed the channels
    handler,    \* what the goroutine started by Connect is doing
    links,      \* Link -> flags of its entry, {} if it has none
    main,       \* what the main loop does next
    scripted,   \* the links that were installed when the script last succeeded
    failed,     \* the last run of the script failed
    said,       \* history: Link -> type of the last update sent by the server
    last        \* history: Link -> type of the last update handled

vars == <<stream, open, hand, arbChan, linkUpdateChan, closed, handler, links, main,
          scripted, failed, said, last>>
receiver == <<hand, closed>>
channels == <<arbChan, linkUpdateChan>>
loop == <<main, scripted, failed>>

-----------------------------------------------------------------------------
Types == {"CREATE", "DESTROY"}
Updates == [type : Types, link : Links]
Arbitrations == {[status |-> "PRIMARY"], [status |-> "NOT_PRIMARY"]}
Messages == Updates \cup Arbitrations

\* Links flagged CREATE are not installed yet; DESTROY is set when they are.
FlagSets == {{}, {"CREATE"}, {"INSTALLED"}, {"INSTALLED", "DESTROY"}}

TypeOK ==
    /\ stream \in Seq(Messages) /\ open \in BOOLEAN
    /\ hand \in Seq(Messages) /\ Len(hand) <= 1
    /\ arbChan \in Seq(Arbitrations) /\ Len(arbChan) <= Capacity
    /\ linkUpdateChan \in Seq(Updates) /\ Len(linkUpdateChan) <= Capacity
    /\ closed \in BOOLEAN /\ handler \in {"select", "setPolicies", "done"}
    /\ links \in [Links -> FlagSets]
    /\ main \in {"install", "script"} /\ scripted \in SUBSET Links /\ failed \in BOOLEAN
    /\ said \in [Links -> Types \cup {"none"}] /\ last \in [Links -> Types \cup {"none"}]

Init ==
    /\ stream = <<>> /\ open = TRUE
    /\ hand = <<>> /\ arbChan = <<>> /\ linkUpdateChan = <<>> /\ closed = FALSE
    /\ handler = "select"
    /\ links = [l \in Links |-> {}]
    /\ main = "install" /\ scripted = {} /\ failed = FALSE
    /\ said = [l \in Links |-> "none"] /\ last = said

-----------------------------------------------------------------------------
\* StreamChannel yields a message: any at any time, which is more than the
\* coordinator sends.  It may repeat itself, as the links read for a new stream
\* and the updates of the moment are not synchronized (module LinkUpdates).
Serve(m) ==
    /\ open /\ Len(stream) < MaxSent
    /\ stream' = Append(stream, m)
    /\ said' = IF m \in Updates THEN [said EXCEPT ![m.link] = m.type] ELSE said
    /\ UNCHANGED <<open, receiver, channels, handler, links, loop, last>>

\* StreamChannel or the connection ends; what was on its way may be lost.
End ==
    /\ open /\ open' = FALSE
    /\ \E n \in 0..Len(stream) : stream' = SubSeq(stream, 1, n)
    /\ UNCHANGED <<receiver, channels, handler, links, loop, said, last>>

\* recvPersistentStream
Recv ==
    /\ hand = <<>> /\ stream # <<>>
    /\ hand' = <<Head(stream)>> /\ stream' = Tail(stream)
    /\ UNCHANGED <<open, closed, channels, handler, links, loop, said, last>>

\* Mutant: a full channel drops the message.
PutOrDrop(chan, new) == new = IF Len(chan) < Capacity THEN Append(chan, hand[1]) ELSE chan

\* Putting a message in a channel blocks while the channel is full.
Put(chan, new) == Len(chan) < Capacity /\ new = Append(chan, hand[1])

Forward ==
    /\ hand # <<>> /\ hand' = <<>>
    /\ IF hand[1] \in Arbitrations
       THEN Put(arbChan, arbChan') /\ UNCHANGED linkUpdateChan
       ELSE Put(linkUpdateChan, linkUpdateChan') /\ UNCHANGED arbChan
    /\ UNCHANGED <<stream, open, closed, handler, links, loop, said, last>>

RecvFails ==
    /\ ~open /\ stream = <<>> /\ hand = <<>> /\ ~closed
    /\ closed' = TRUE
    /\ UNCHANGED <<stream, open, hand, channels, handler, links, loop, said, last>>

-----------------------------------------------------------------------------
\* Mutant: the status is compared with the wrong value.
NotPrimary(arb) == arb.status = "NOT_PRIMARY"

IsPrimary(arb) == arb.status = "PRIMARY"

\* The goroutine's select, which chooses at random if both channels are ready.
TakeArbitration ==
    /\ handler = "select" /\ arbChan # <<>>
    /\ arbChan' = Tail(arbChan)
    /\ handler' = IF IsPrimary(Head(arbChan)) THEN "setPolicies" ELSE "select"
    /\ UNCHANGED <<stream, open, receiver, linkUpdateChan, links, loop, said, last>>

\* The SetPolicies RPC returns; link updates wait for it.
SetPoliciesReturns ==
    /\ handler = "setPolicies" /\ handler' = "select"
    /\ UNCHANGED <<stream, open, receiver, channels, links, loop, said, last>>

\* Links.Add and Links.Remove for an entry.
Added(flags) == IF flags = {} THEN {"CREATE"} ELSE flags

\* Mutant: the flag is set whether or not the link is installed.
Flagged(flags) == IF flags = {} THEN {} ELSE flags \cup {"DESTROY"}

\* Mutant: an entry that is not installed is kept.
Kept(flags) == IF "INSTALLED" \in flags THEN flags \cup {"DESTROY"} ELSE flags

Removed(flags) == IF "INSTALLED" \in flags THEN flags \cup {"DESTROY"} ELSE {}

TakeUpdate ==
    /\ handler = "select" /\ linkUpdateChan # <<>>
    /\ linkUpdateChan' = Tail(linkUpdateChan)
    /\ LET update == Head(linkUpdateChan) IN
       /\ links' = [links EXCEPT ![update.link] =
                       IF update.type = "CREATE" THEN Added(@) ELSE Removed(@)]
       /\ last' = [last EXCEPT ![update.link] = update.type]
    /\ UNCHANGED <<stream, open, receiver, arbChan, handler, loop, said>>

\* A closed channel is found empty.  What the other one holds is not handled.
Stop ==
    /\ handler = "select" /\ closed /\ (arbChan = <<>> \/ linkUpdateChan = <<>>)
    /\ handler' = "done"
    /\ UNCHANGED <<stream, open, receiver, channels, links, loop, said, last>>

-----------------------------------------------------------------------------
\* Links.Install for an entry; its last case never happens.
Installed(flags) ==
    IF "INSTALLED" \in flags THEN flags
    ELSE IF "CREATE" \in flags THEN (flags \cup {"INSTALLED"}) \ {"CREATE"}
    ELSE {}

\* The main loop.  The script runs if Install has changed something.
Install ==
    /\ main = "install"
    /\ links' = [l \in Links |-> Installed(links[l])]
    /\ main' = IF links' # links THEN "script" ELSE "install"
    /\ UNCHANGED <<stream, open, receiver, channels, handler, scripted, failed, said, last>>

\* A script that fails, or cannot be started, is logged.  It is not run again
\* before Install changes something else.
RunScript ==
    /\ main = "script" /\ main' = "install"
    /\ \/ failed' = FALSE /\ scripted' = {l \in Links : "INSTALLED" \in links[l]}
       \/ failed' = TRUE /\ UNCHANGED scripted
    /\ UNCHANGED <<stream, open, receiver, channels, handler, links, said, last>>

Server == End \/ \E m \in Messages : Serve(m)
Receiver == Recv \/ Forward \/ RecvFails
Handler == TakeArbitration \/ SetPoliciesReturns \/ TakeUpdate \/ Stop
Main == Install \/ RunScript

Next == Server \/ Receiver \/ Handler \/ Main

\* Goroutines are scheduled, RPCs and the script return, and select neglects
\* neither channel.
Fairness ==
    /\ WF_vars(Receiver) /\ WF_vars(Handler) /\ WF_vars(Main)
    /\ SF_vars(TakeUpdate) /\ SF_vars(TakeArbitration)

Spec == Init /\ [][Next]_vars
FairSpec == Spec /\ Fairness

-----------------------------------------------------------------------------
\* The table follows the last update handled: a link that is wanted has an
\* entry, one that is not has none or is installed and flagged, so that Install
\* never installs it, whenever the main loop comes in between (link.go:45-90).
LinksFollow ==
    \A l \in Links :
        IF last[l] = "CREATE" THEN links[l] # {}
        ELSE links[l] \in {{}, {"INSTALLED", "DESTROY"}}

\* While the stream is open and the script does not fail, the script runs with
\* every link the server wants installed in the end: full channels and a slow
\* SetPolicies only delay it (connection.go:76-110, 126-147, main.go:69-88).
WantedReachScript ==
    \A l \in Links :
        open /\ said[l] = "CREATE" ~> l \in scripted \/ failed \/ said[l] = "DESTROY" \/ ~open

\* While the stream is open, the client sets its policies after it became the
\* primary client (connection.go:80-86).
PrimarySetsPolicies ==
    (\E i \in DOMAIN (arbChan \o hand \o stream) :
        (arbChan \o hand \o stream)[i] = [status |-> "PRIMARY"])
    ~> handler = "setPolicies" \/ ~open
=============================================================================
