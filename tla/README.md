# Specifications of the SCION peering coordinator

The coordinator runs an Internet exchange for SCION autonomous systems (ASes):
ASes state peering policies per VLAN, the coordinator computes which pairs of
ASes agree, creates links between their border routers' interfaces and pushes
the links to *peering clients* at the ASes. This directory holds TLA+ models
of it, the TLC configurations that check them, and proofs for TLAPS.

Paths below are relative to `src/django/peering_coord/` unless they start with `src/`.

## The system

| Component | State | Operations | Correct when |
|---|---|---|---|
| Client streams and election: `ClientConnection`, `ClientConnections` (`api/client_connection.py`), `StreamChannel` (`api/peering.py`) | per AS: `connections`, `_election`, `_primary`, a lock; per stream: a queue, a handler thread, a listener thread | `create`, `arbitrate`, `_arbitrate`, `destroy`, `run`, `stream_request_received`, `request_stream_closed` | in every VLAN the connected client with the highest election ID is primary; clients learn what they are; ended streams are deregistered |
| Client registry: `ClientRegistry` | dictionary `_ases` without a lock | `createConnection`, `destroyConnection`, lookups | every open stream can be found; one connection per client; nobody is locked out |
| Policy write permission: `_assert_policy_write_permission`, `is_primary_client` | reads the election | asked by `CreatePolicy`, `DestroyPolicy`, `SetPolicies` | only the primary client writes |
| Policy evaluation: `_get_accepted_peers` (`policy_resolver.py`), `models/policies.py` | four policy tables | pure | the most specific policy decides |
| Link resolver: `update_accepted_peers`, `update_links`, `_create_links`, `Interface.get_unused_port`, called from the unary RPCs | tables `AcceptedPeer`, `Link`, port ranges | `CreatePolicy`, `DestroyPolicy`, `SetPolicies`, `SetPortRange` | links exist exactly where both sides agree, one per interface pair, on unused ports |
| Link notifications: `LinkManager.create`, `delete_link_hook`, `send_link_update` (`models/ixp.py`) | the queues of the streams | row created or deleted | a client's view follows the table |
| Database hooks: `delete_interface_hook`, `delete_peering_client_hook` | - | `remove_interface`, `remove_client` | elections follow the rows |
| Policy serializers and tables (`api/serializers.py`, `models/policies.py`) | four policy tables | parse, validate, store, delete, list | one verdict per target; what is listed can be set again |
| Admin site (`admin.py`) | the tables, from the web process | edits of policies, links, interfaces | AcceptedPeer and links follow |
| Views, REST (`views.py`, `serializers.py`) | API tokens, from the web process | pages, new tokens | the token shown is the valid one |
| Authentication (`api/authentication.py`) | none | a lookup before every RPC | only the current token is accepted |
| Info API (`api/info.py`) | none | lookups | - |
| AS numbers (`scion_addr.py`, `path_converters.py`, `custom_fields.py`) | none | conversions | round trips |
| Go client (`src/go/coord-client`) | link table, two channels, two goroutines, a main loop | receive, handle, install | the table follows the updates; the configuration follows the table |

How they interact: gRPC runs every call in a worker thread. A stream's worker
drains the queue of its `ClientConnection`; a listener thread, and the workers
of other streams (elections) and of policy RPCs (link updates), fill it.
Policy RPCs ask the registry for permission, then change tables inside a
transaction; the rows they write queue link updates before they commit. The
web server is another process (the compose file starts `gunicorn` and
`grpcserver` separately, on one Postgres database): it shares the database and
not the registry, so what it does reaches no stream.

What is hard: the registry is a plain dictionary used from many threads; an
election is several dictionary updates and messages; permission is checked
before the work and not held during it; a link needs the agreement of two ASes
whose rows are refreshed by different RPCs; streams end in many ways; ports of
an AS are shared by all its interfaces. `PROJECT.json` lists these hazards at
their lines.

## Modules

| Module | Models |
|---|---|
| `Arbitration` | the promise of `peering.proto` (`ArbitrationUpdate`): bids and leaders, no threads |
| `ClientConnections` | the streams of one AS: threads, queues, lock, elections |
| `ClientRegistry` | `createConnection`/`destroyConnection`, one statement per action |
| `PolicyWrites` | extends `ClientConnections` by the policy RPCs that ask for permission |
| `PeeringPolicies` | `_get_accepted_peers` as an operator, and the precedence it should compute |
| `LinkResolver` | extends `PeeringPolicies` by policies, AcceptedPeer, links and port ranges |
| `LinkUpdates` | overlapping transactions that change links, statement by statement, and the clients' copies of the links |
| `PolicyTables` | extends `PeeringPolicies` by the policy rows of one AS: serializers, RPCs, admin edits |
| `LinkTable` | the Go client's goroutines, channels and link table |
| `Administration` | whole rows read, checked and saved by overlapping requests: places of interfaces, API tokens |
| `AsNumber` | AS numbers and their texts |
| `MC...` | instances for TLC |
| `...Proofs` | theorems and proofs |

### ClientConnections

`connections`, `election`, `primary` are the attributes of the Python object.
A Python dictionary keeps the order of insertion and `_arbitrate` prefers the
later of two equal bids, so `older` records the order of keys. `lock` holds what
the thread in `arbitrate` or `destroy` has left to do: each turn of their loops
is an action, since other threads run between them. `handler`
follows the worker of each stream (idle, opening, running, closing while it is
on its way through `destroy`, leaving between `destroy` and the registry's check);
`listener` is the receiving side. `belief` is a history variable: the last
status actually sent. Link updates share the queue and are left out because no election
step reads them. The queue of an ended generator is not kept: nobody reads it.

`ArbitrateFails` is any exception inside the loop of `arbitrate` (a database error);
`ArbitrateAmbiguous` is the exception of two interfaces in one VLAN. Clients and interfaces are fixed: the hooks
that would remove them run in the web process, whose registry is empty, and
raise there. `Create` gives a client one connection: this is the model of an object whose clients were
not connected twice by overlapping handlers. `ClientRegistry` has those, and what they do to elections.

Mutants: an operator whose comment says "Mutant" is never part of the model. It
is the model's next definition with a plausible bug, used to see that a property can fail.

### ClientRegistry

One action per statement that reads or writes shared state. Here `create`, `destroy` and `arbitrate`
are one action each, since each holds its object's lock. Objects are
recycled once no thread and no dictionary refers to them. `KeyError`s end the handler
as they do in the code, and the entry is removed by name, whoever made it.

Two overlapping handlers can connect a client twice, on two objects. The end of
one stream then removes the entry of the other, if that is in the dictionary's object, and the other
goes on bidding without one. `_arbitrate` looks up the connection of every candidate and raises, in
the middle of a bid or of `destroy`. `bids` and `primary` are the election of one
VLAN without its IDs (`Winners` may be any candidate that some IDs make the winner), which is what
decides whether `_arbitrate` is called and raises. `doubled` is a history variable: a client was connected twice. The
invariants say what holds until then, and `RegistryStuck` shows what can happen after.

### LinkResolver

RPCs are serial. An RPC sets `work`, the VLANs to resolve; `UpdateLinks` is
`update_accepted_peers` and the deleting half of `update_links` for one VLAN,
and `CreateLink` one pair of interfaces, in any order, as the database returns
rows in any order. `ConnectedVlans` is a set: the code visits a VLAN once per
client in it, and a second visit finds nothing left to change, except that it
can fail again for lack of ports.
`UnusedPort` returns no port where the code raises `NoUnusedPorts` or returns None.
An aborted or rolled back RPC is no step. Clients are assumed to set the port
ranges of their own AS's interfaces; the code does not check it.

### PolicyWrites

`Granted` of `ClientConnections` is `is_primary_client`: it takes the lock, so it
answers only while no bid is half done. An RPC is two steps, permission and
start, and the end of its transaction; `writing` remembers which VLANs it may
change. Which policies it writes is the matter of `PolicyTables`.

### LinkUpdates

`tx[a]` is the transaction running for AS `a`, with what it has selected,
written and not yet sent. Postgres runs at READ COMMITTED: a statement sees the
committed rows and those of its own transaction (`Visible`), so each query of
`update_links` is an action (`Collect`, `Delete`, `FindPeers`, `CreateLink`) and others
run in between. Two transactions that delete the same row, or insert it, wait
for each other and the second then finds nothing to delete, or fails on the unique
constraint. `Send` is one turn of `send_link_update`'s loop over the dictionary of
connections; `connections` changes under it, and the iterator then raises
(`SendFails`), which rolls the transaction back. A stream registers, reads its links
and sends them in separate steps. `web` transactions are those of the admin
site: they send nothing.

`view` is what a client believes after all updates on its stream; the order of
the queue is the order of `Send` and `SendExisting`. `unsettled` and `excuses` are
history variables that name, for a pair of ASes, why links or a view may be
wrong: a race with the other side, an edit behind the back of the RPCs, an
update that failed, was rolled back or never sent. The invariants say that these are
the *only* reasons, and `LinksSettle` that the next undisturbed transaction of
either side puts the links right.

One VLAN, one interface per AS, ports enough: `LinkResolver` has the rest.
Transactions of one AS do not overlap.

### PolicyTables

The policies of the AS `Me`. A message has its names looked up; unknown VLANs,
peers and ISDs are values of their own, since each fails in another way: an
unknown ISD raises (`IsdRelatedField` catches the exception of another model),
the others are rejected. An AS number can be written in several ways (`Spellings`): authentication and the
lookup of the AS parse the caller's text, the RPCs compare it with the texts in the policies, and `ListPolicies`
writes the `Canonical` one. `SetAll` is `_set_policies` as a recursive function of the turns of
its loop over the request, after the deletion. The admin actions differ in what they compute again: `PolicyAdmin`
the VLAN a policy is moved to, `DefaultPolicyAdmin` nothing. `stale` is a history
variable: the VLANs whose rows were changed without AcceptedPeer. `Join` and
`Leave` are interfaces added, removed or moved in the web pages.

### LinkTable

`recvPersistentStream` is the receiver: `Recv`, `Forward` (which blocks while the
channel is full) and `RecvFails`, which closes both channels. The goroutine of
`Connect` is the handler; while `SetPolicies` runs it takes no updates. The
entries of the table are sets of flags. The main loop installs and, if that changed
something, runs the script that loads the configuration; `scripted` has the links that were installed when it last
succeeded, `failed` whether it failed last. A failed script is not run again until `Install` changes
something else. `Install` is given the topology file and does not write it yet, so `scripted` says with which links the script ran, not what it read. `Serve` and `End` are
`StreamChannel` as the client sees it, without its causes: `Serve` may send any
update at any time, repeated ones too, which is more than the coordinator does (`LinkUpdates`).

### Administration

`saving` follows each request that saves an interface, from the admin site or
`SetPortRange`: it reads (or is sent) all columns, checks them in `full_clean` and
commits, and others do the same in between. Addresses are typed in several ways and parsed by
`ToPython`. `editing` follows the requests about clients: the admin site's page of a client,
which saves the token as it read it, and the page of an AS owner, which saves a new token (`NewToken`) or
reads the current one (`ReadToken`) and responds later (`ShowToken`), or whose response is lost. In between others are
saved, shown and put back.
`Authenticated` is what the interceptor asks of the metadata of every RPC, a sequence of keys
and values of which the last value of a key names the client. `raced`, `shown` and
`spoiled` are history variables. The module has theorems and no run of
its own: the promises are invariants with short inductive strengthenings, and proved for
every instance.

### AsNumber

A text is what it splits into: one number, three groups and their separator, or
something else. `FromInt`, `FromText`, `ToText` are `ASN.__init__` and `__str__`; `ToUrl`, `FromUrl` the
converter of URLs, which replaces the separator; `ToBytes`, `FromBytes` the six bytes;
`ToPython`, `FromColumn` the database field and its column.

## Runs

| Run | Instance | Shows |
|---|---|---|
| `TwoVlans` | 2 clients, 2 VLANs, IDs -1 and 1 | types, the election invariants, and that `ClientConnections` implements `Arbitration` |
| `OneVlan` | 3 clients, 1 VLAN, symmetric | the same for ties with two losers; a primary is not unseated without reason; write permission goes to the best bidder |
| `Liveness` | 2 clients, one with two interfaces in the VLAN, fair | beliefs catch up, streams end |
| `RegistryThreads` | 3 handlers, all at a time; two clients and a name outside the database | what the races leave intact until a client is connected twice: candidates are connected, no lockout, nothing left behind |
| `RegistryStuck` | 3 handlers, two at a time | violation: see below |
| `Links` | 3 ASes (2 of an owner, 2 of an ISD, one core), 1 VLAN | links and AcceptedPeer follow the policies |
| `LinksPorts` | 3 ASes, 2 VLANs, two disjoint ranges | violation |
| `WritersUnchecked` | 2 clients, 1 VLAN | violation |
| `Updates` | 2 ASes, 2 clients of one of them, the interface belongs to one of these | links settle whatever overlaps; views agree but for the named reasons |
| `UpdatesRejected` | the same | violation |
| `Client` | 2 links, fair | the Go client's table follows the updates; the script runs with the wanted links, if it does not fail; the primary sets its policies |
| `Tables` | 2 ASes, 2 VLANs, an AS number in two spellings, messages with every kind of flaw | one verdict per target, AcceptedPeer current, what is listed can be set |

The violations are disagreements between the code and what its comments say:

* `LinksPorts`: `get_unused_port` may return a used port when ranges of the AS differ.
* `WritersUnchecked`: the check for `SetPolicies` in one VLAN is unreachable code.
* `UpdatesRejected`: a `SetPolicies` that is rolled back because of a rejected policy
  has already told clients of links (`api/peering.py:253-319`, `models/ixp.py:297`).
* `RegistryStuck`: overlapping handlers connect a client twice, on two objects; the registry leads to one of them
  at most, so the other stream gets no link updates and no permission. After that `_arbitrate` can raise inside `destroy`, before the entry
  is deleted. The entry of an ended stream stays, its client is refused from then on, and the registry
  never empties (`api/client_connection.py:162-166, 246, 270-278`).

Other disagreements that the models show and no run is kept for: ASes with two
interfaces in a VLAN do not get links missing for one pair of interfaces once they have
another link (`policy_resolver.py:99-117`); before the first election every
client may write all VLANs (`api/client_connection.py:224`); a client that does not write its AS number canonically
has every policy of its own list rejected, and loses them if it continues on errors (`api/peering.py:290`); an installed link is never removed from
the Go client's table, since `Install` looks for links to destroy among those that are not installed
(`src/go/coord-client/link.go:73-84`; the theorem `NothingUninstalled` says so for every instance).

### Bounds

`MaxPending` 1 lets a bid or a stream begin only when all queues are empty; bids in other listeners wait, and the
responses of an election, which are not bounded, pile up in every queue. Two election IDs give a
lower, an equal and a higher bid; three clients give two losers of a tie, and a
successor with a rival after the primary left. `MaxBusy`
is the number of handlers inside the registry's functions: all three in `RegistryThreads`. Two handlers refer to at
most two objects each and the dictionary to one while the third makes another, so six objects are enough:
one is free whenever one is made. `View` takes states for equal that differ only in
which object is which, or in objects nobody refers to. `NotDoubled` ends `RegistryThreads` where its invariants promise
nothing any more; `RegistryStuck` goes on.
Port ranges of two ports, overlapping or disjoint, exhaust with two links.
`Choices` limits the policies to a default and one AS policy; the precedence
of all four kinds is proved, not checked. `Links` has one VLAN: VLANs share only the ports of
an AS, which is what `LinksPorts` is about; with more interfaces than ports the
promise of `MutualAreLinked` does not hold, since a failed link is not retried.
Links concern pairs of ASes, and a race has two sides: two ASes with
`MaxRunning` 2 overlap in every way two transactions can. Two clients of one AS
are the least for an iteration to be disturbed by another client. `Capacity` 1 makes
the Go channels full as soon as they can be (the code's are larger), `MaxSent` 1 lets the
server be one message ahead of the receiver. `MCMessages` has every kind of target
but the owner, each flaw a policy can have, and `MCRequests` pairs of them in
both orders; two VLANs separate the scope of a request from the rest.

### Fairness

Threads that can run do run (weak fairness on queue turns, the start of the
listener, the lock holder, the last step of closing). Entering the lock has strong fairness: it is
free again and again, and a waiting thread gets it some time, as threads
waiting on a CPython lock do. A client that does not read its stream is assumed to
lose it. No fairness is assumed of clients, failures or new streams.

In `LinkTable` the goroutines and the main loop run (weak fairness); the RPC and
the script they wait for return. Go's `select` chooses at random among ready channels, hence
strong fairness of its two cases. Nothing is assumed of the server.

## Proofs

| Module | Theorem | Statement |
|---|---|---|
| `ClientConnectionsProofs` | `TypeCorrect` | `Spec => []TypeOK` |
| | `InvCorrect` | `Spec => []IInv` |
| | `PrimaryIsCorrect` | `Spec => []PrimaryIsBest` |
| | `GrantsAreBest` | `Spec => []GrantedIsBest` |
| | `PrimaryStays` | `Spec => PrimaryIsStable` |
| | `PromiseKept` | `Spec => Promise!Spec`: `ClientConnections` implements `Arbitration` |
| | `LastWordIsTrue` | `Spec => []LastWord` |
| `ClientRegistryProofs` | `TypeCorrect` | `Spec => []TypeOK` |
| | `InvCorrect` | `Spec => []IInv` |
| | `CandidatesAreConnected` | `Spec => []ElectedConnected` |
| | `NobodyLockedOut` | `Spec => []NoLockout` |
| | `RegistryEmpties` | `Spec => []EmptyUnlessDoubled` |
| | `SerialStreamsAreFound` | `Spec /\ []Serial => []StreamsFound` |
| | `SerialConnectsOnce` | `Spec /\ []Serial => []OneConnectionPerClient` |
| | `SerialEmpties` | `Spec /\ []Serial => []EmptyWhenIdle` |
| `LinkResolverProofs` | `AcceptedPeersFollowPrecedence` | the set algebra equals the precedence AS, owner, ISD, default |
| | `TypeCorrect` | `Spec => []TypeOK` |
| | `RowsAreUpToDate` | `Spec => []AcceptedUpToDate` |
| | `LinksNeedBothSides` | `Spec => []LinksAreMutual` |
| | `NoSecondLink` | `Spec => []OneLinkPerPair` |
| | `WantedLinksSurvive` | `Spec => WantedLinksStay` |
| | `PortsAreInRange` | `Spec => []PortsInRange` |
| | `PortsAreUnique` | `Spec /\ []SameStart => []PortsUnique` |
| | `PortsOfOneInterface` | `Spec => []PortsUnique`, one interface in an AS |
| | `PeersAreJoined` | `Spec /\ []PortsEnough => []PeersJoined` |
| | `PeersAreLinked` | `Spec /\ []PortsEnough => []MutualAreLinked`, one interface of an AS in a VLAN |
| `LinkUpdatesProofs` | `TypeCorrect` | `Spec => []TypeOK` |
| | `InvCorrect` | `Spec => []IInv` |
| | `LinksDoSettle` | `Spec => []LinksSettle` |
| | `ViewsDoAgree` | `Spec => []ViewsAgree` |
| `PolicyTablesProofs` | `TypeCorrect` | `Spec => []TypeOK` |
| | `NoConflictingPolicies` | `Spec => []OneVerdict` |
| | `RowsAreCurrent` | `Spec => []AcceptedCurrent` |
| | `ListsRestore` | `Spec => []ListedCanBeSet` |
| `LinkTableProofs` | `TypeCorrect` | `Spec => []TypeOK` |
| | `TableFollowsUpdates` | `Spec => []LinksFollow` |
| | `NothingUninstalled` | no step removes an installed link from the table |
| `AdministrationProofs` | `TypeCorrect` | `Spec => []TypeOK` |
| | `PlacesAreLocal` | `Spec => []AddressesAreLocal` |
| | `PlacesDiffer` | `Spec => []AddressesDiffer` |
| | `TokensAreShown` | `Spec => []ShownTokenIsValid` |
| `AsNumberProofs` | `TextRoundTrip` | `FromText(ToText(n)) = n` for every AS number |
| | `TextsDiffer` | different numbers have different texts |
| | `UrlRoundTrip` | `FromUrl(ToUrl(n)) = n` |
| | `ColumnRoundTrip` | `n \in BigInteger` and `FromColumn(n) = n` |
| | `BytesRoundTrip` | `FromBytes(ToBytes(n) \o more) = n` |

The assumptions are those of the modules: interfaces belong to clients and
VLANs, election IDs are integers, the special values are distinct, there are finitely many clients
in `LinkUpdates` and interfaces in `LinkResolver`. Names like `IInv` and `TypeCorrect` belong to their module.

### Elections

`PrimaryIsBest` is not inductive. `IInv` adds

* `Lifecycle`: a client is in `connections` exactly while its handler is opening,
  running or closing; `arbitrate` runs for a running handler, `destroy` for a
  closing one that has withdrawn its bids. Without it the last step of
  `destroy` could remove a candidate.
* `PrimaryWins`: the primary wins the election on the current bids *including
  the tie-break*. When another client withdraws, the winner stays ahead of the
  remaining ones; when the primary withdraws, the VLAN is on the lock holder's list until
  it elects again.

`GrantsAreBest` follows from `IInv`: permission is granted only while the lock is
free, and then no VLAN is on anybody's list.

`PrimaryStays` and `PromiseKept` need that the winner is unique and that there is one:
`OrderInv` adds `CandidatesOrdered` (bids and the order of the dictionary's keys order the
candidates of a VLAN totally, and of any of them one is ahead) and `VacantLed` (the VLANs that `destroy`
has yet to elect for were led by the client that leaves, so nobody else is unseated there).
With them each step of the threads is a step of `Arbitration` or none.

`LastWordIsTrue` is about what is still in the queues. `Told` says that the newest answer about a VLAN,
queued or already sent, is the client's status while the VLAN is not being elected for.
ERROR answers would break it, so `BidsAreOwn` says that they only go to clients without an interface in
that VLAN, which are no candidates there.

### Registry

`Located` says at which statements a handler holds an object. Until a client is connected twice, `Owned` says that every
connection that was not destroyed is the entry of its name, and that no two are of one client. So every candidate
has the connection `_arbitrate` looks up (`ElectedConnected`): no election raises, and `destroy` gets to its `del`.
`NoLockout` is inductive with these: an object that the dictionary no longer leads to is never put back, so the handler that
removes an entry finds it where it was made. `RegistryEmpties` speaks of states without a handler, and
`NoneForgotten` of all: an object in the dictionary is not empty, or somebody will
look at it before going idle.

`OneConnectionPerClient` and `EmptyWhenIdle` are false (`RegistryStuck`). `Serial` says that no two
handlers are in `createConnection` or `destroyConnection` at once. While that holds, the dictionary leads to the connection of
every open stream (`StreamsFound`), one entry per name is one connection per client, and nobody is connected twice, so the
registry empties; `SerialAt` says what each
statement can rely on. So a lock around the two methods would be enough.

### Resolver

Between RPCs nothing is outdated; during one, only the rows of its AS in the VLANs it has not come
to (`Fresh`), and links of that AS there (`LinksAgreed`). `PairsAgreed` says that a pair that is
going to be linked is wanted and has no link, in either direction, and is chosen once.

`get_unused_port` compares the sorted ports of *all* links of the AS with the range of one interface.
`UnusedPortIsNew` counts: every port of the range below the one it returns was in place, so there are as many links up to
the last of them as ports; a link with the returned port would be one more, and the ports below the returned one
have room for no more, since they differ (`PortsDiffer`) and none is below the range. The last fact is
`SameStart`: the ranges of an AS start at one port. Without it the theorem is false (`LinksPorts`); it holds by itself where an AS has one
interface (`PortsOfOneInterface`). That ports are from the range needs no hypothesis.

For missing links, `WantedAreJoined` says that two ASes that want a link have one in the VLAN, or the RPC
has yet to come to that VLAN or to that pair of interfaces. When it comes to the pair there must be a port:
`FewerEnds` maps the links of an AS one to one to the other pairs of interfaces it could be linked through (`Peerings`), so
they are fewer than these, and `UnusedPortExists` finds a port in a range as long as
these are many. That is `PortsEnough`, at all times and for all ranges; with less a link that failed is not tried again, and the theorem
would be false. `PeersJoined` is what is true of ASes with any number of interfaces; which interfaces are linked
follows only with one interface of an AS in a VLAN. `Links` satisfies all these hypotheses, with exactly as many ports as peers.

### Link updates

Transactions overlap, so no pair can be promised while both its sides run. The invariant follows a single pair of
ASes through one transaction.

* `Progress` says what each statement has got right of a pair that nobody disturbed since the transaction began:
  `Collect` selects its rows if the two do not agree, `Delete` removes them, `FindPeers` selects the peer if they
  agree and have no link, and at the end a link is visible exactly if they agree. `Settled` says the same of
  the committed rows, and a commit takes it from `Progress`.
* `Own` is why others do not disturb it: the rows and updates of a transaction are of its AS, and transactions
  that run together have met and made their pair unsettled.
* `Views` says what a client's view is worth *in the middle* of a transaction: the rows about which no update is
  on its way to it (`Pending`) are in its view exactly if the transaction sees them; the others
  were deleted and are still to be told of, or were made. When the queue is empty at the end nothing is pending and the
  view is what is committed. `Pending` counts the update at the head as told for
  the clients already served, which is why a client that closes its stream in between and one that
  registers are part of the argument (`Registered`).
* Everything that breaks this is in `excuses`: the theorem says that the list is complete.

### Policy tables

The induction is over requests of any length. The library's induction theorems cannot be used here, so it goes by
a least counterexample: `Least` gives the first turn of the loop of `_set_policies` after which a
state is outside a set of states per turn, and `LoopInvariant` derives a
contradiction from what one turn does. `Sound` holds after every turn (rows of
policies, one verdict for a target), `Maintained` says which VLANs a step must compute
again, and for `ListsRestore` the states are the rows that the first turns have put back (`Restored`), or for a
caller with another spelling the messages that they have rejected.

### Others

For the Go client `TypeOK` carries the argument: an entry's flags are one of four
sets, and `FlagTypes` says what each operation makes of each. `LinksFollow` is
inductive with it, and the removing branch of `Install` would need a set of flags that is
not among the four.

In `Administration` a row that has passed its check and is not saved yet counts like a saved
one: `Local` and `Differ` extend the promise to such rows, and a check against saved rows
only is then what leaves the race. `Agree` says that all requests about an unspoiled client
hold its current token, and that without a response under way it is the one last shown.

For AS numbers the quotient and the remainder by 2^16 are taken apart once and put
together by `ShiftIn`; `Highest` shows that the third group is below 2^16.

### Only model-checked

Liveness (`BeliefCatchesUp`, `StreamsEnd`, `WantedReachScript`, `PrimarySetsPolicies`): fairness is defined with ENABLED, which is
out of the prover's reach. `PortsUnique` and `MutualAreLinked` are proved from the hypotheses above
and not for every instance, since they are false of some.

## Not modelled

* Hooks for deleted interfaces and clients: they run in the web server's process, whose
  registry is empty, and raise there; the deletion is undone. Clients and
  interfaces are therefore constants of the stream models.
* Transactions of the same AS that overlap, and what they do to each other's
  policy rows; ports and port ranges under concurrency.
* `SetPortRange` for the interface of another AS, which the code allows.
* The other views, REST serializers and the info API: read-only pages, lists and lookups.
* Port ranges that a stale form of the admin site puts back without renewing the links.
* The server's thread pool: set up by the framework.
* The configuration, topology file and port ranges the Go client reads and writes.
* The columns of addresses and networks, which pad what they store, and the field for ISD numbers.
* Generated code, settings, migrations, templates: no logic of their own.
* A client that keeps its stream half open after its generator failed leaves
  the handler in `listener.join()`; it has already deregistered and is not followed.

## Plan

Done: `Arbitration`, `ClientConnections`, `ClientRegistry`, `PolicyWrites`,
`PeeringPolicies`, `LinkResolver`, `LinkUpdates`, `PolicyTables`, `LinkTable`,
`Administration`, `AsNumber`, with the runs and theorems above.

All safety properties that a passing run checks are theorems, two of them with hypotheses about
interfaces and port ranges; those of the registry speak of clients that were not connected twice. Left: `LinkUpdates` with overlapping transactions of one AS.
