SPECIFICATION Spec
CONSTANTS
    A = A
    B = B
    o = o
    d = d
    v1 = v1
    v2 = v2
    ASes = {A, B}
    Owners = {o}
    Isds = {d}
    OwnerOf <- MCOwnerOf
    IsdOf <- MCIsdOf
    Everyone = everyone
    canonical = canonical
    written = written
    stranger = stranger
    Me = A
    Spellings = {canonical, written}
    Canonical = canonical
    Vlans = {v1, v2}
    AllVlans = all
    Unknown = unknown
    UnknownPeer = peer
    UnknownIsd = isd
    Messages <- MCMessages
    Requests <- MCRequests
INVARIANTS TypeOK OneVerdict AcceptedCurrent ListedCanBeSet
CHECK_DEADLOCK FALSE
