SPECIFICATION Spec
CONSTANTS
    Handlers = {h1, h2, h3}
    Clients = {a, b, x}
    Known = {a, b}
    Instances = {i1, i2, i3, i4, i5, i6}
    None = None
    MaxBusy = 3
SYMMETRY Symmetric
INVARIANTS
    TypeOK
    ElectedConnected
    NoLockout
    EmptyUnlessDoubled
VIEW View
CONSTRAINT NotDoubled
