SPECIFICATION Spec
CONSTANTS
    A = A
    B = B
    C = C
    o1 = o1
    o2 = o2
    v1 = v1
    v2 = v2
    Everyone = Everyone
    ASes = {A, B, C}
    Owners = {o1, o2}
    Isds = {1, 2}
    OwnerOf <- MCOwnerOf
    IsdOf <- MCIsdOf
    IsCore <- MCIsCore
    Vlans = {v1, v2}
    Interfaces = {1, 2, 3, 4, 5}
    AsOf <- MixedAsOf
    VlanOf <- MixedVlanOf
    PortRanges <- Disjoint
    Choices <- AcceptAll
INVARIANTS
    PortsUnique
