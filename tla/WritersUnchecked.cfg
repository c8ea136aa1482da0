SPECIFICATION WriteSpec
CONSTANTS
    c1 = c1
    c2 = c2
    v1 = v1
    NoBid = NoBid
    NoClient = NoClient
    Unset = Unset
    AllVlans = AllVlans
    Clients = {c1, c2}
    Vlans = {v1}
    Interfaces = {c1, c2}
    ClientOf <- ClientsOf
    VlanOf <- VlansOf
    ElectionIds <- Ids
    MaxPending = 1
PROPERTY
    OnlyPrimaryWrites
