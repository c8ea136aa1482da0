SPECIFICATION FairSpec
CONSTANTS
    c1 = c1
    c2 = c2
    c3 = c3
    v1 = v1
    v2 = v2
    NoBid = NoBid
    NoClient = NoClient
    Unset = Unset
    AllVlans = AllVlans
    Interfaces = {1, 2, 3}
    ElectionIds = {1}
    Clients = {c1, c2}
    Vlans = {v1}
    ClientOf <- TwinClientOf
    VlanOf <- TwinVlanOf
    MaxPending = 1
PROPERTIES
    BeliefCatchesUp
    StreamsEnd
