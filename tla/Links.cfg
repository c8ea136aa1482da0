SPECIFICATION Spec
CONSTANTS
    A = A
    B = B
    C = C
    o1 = o1
    o2 = o2
    v1 = v1
    v2 = v2
    Everyone = Everyone
    ASes = {A, B, C}
    Owners = {o1, o2}
    Isds = {1, 2}
    OwnerOf <- MCOwnerOf
    IsdOf <- MCIsdOf
    IsCore <- MCIsCore
    Vlans = {v1}
    Interfaces = {1, 2, 3}
    AsOf <- OneEachAsOf
    VlanOf <- OneEachVlanOf
    PortRanges <- Narrow
    Choices <- OneEachChoices
INVARIANTS
    TypeOK
    AcceptedUpToDate
    LinksAreMutual
    MutualAreLinked
    OneLinkPerPair
    PortsUnique
PROPERTIES
    WantedLinksStay
