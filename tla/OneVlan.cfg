SPECIFICATION Spec
CONSTANTS
    c1 = c1
    c2 = c2
    c3 = c3
    v1 = v1
    v2 = v2
    NoBid = NoBid
    NoClient = NoClient
    Unset = Unset
    AllVlans = AllVlans
    Interfaces = {c1, c2, c3}
    ElectionIds <- Ids
    Clients = {c1, c2, c3}
    Vlans = {v1}
    ClientOf <- OneVlanClientOf
    VlanOf <- OneVlanVlanOf
    MaxPending = 1
SYMMETRY Symmetric
INVARIANTS
    PrimaryIsBest
    GrantedIsBest
    LastWord
PROPERTIES
    PrimaryIsStable
