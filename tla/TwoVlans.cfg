SPECIFICATION Spec
CONSTANTS
    c1 = c1
    c2 = c2
    c3 = c3
    v1 = v1
    v2 = v2
    NoBid = NoBid
    NoClient = NoClient
    Unset = Unset
    AllVlans = AllVlans
    Interfaces = {1, 2, 3}
    ElectionIds <- Ids
    Clients = {c1, c2}
    Vlans = {v1, v2}
    ClientOf <- TwoVlansClientOf
    VlanOf <- TwoVlansVlanOf
    MaxPending = 1
INVARIANTS
    TypeOK
    PrimaryIsBest
    LastWord
PROPERTIES
    ImplementsArbitration
