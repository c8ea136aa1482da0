SPECIFICATION Spec
CONSTANTS
    Handlers = {h1, h2, h3}
    Clients = {a, b}
    Known = {a, b}
    Instances = {i1, i2, i3, i4, i5, i6}
    None = None
    MaxBusy = 2
SYMMETRY Symmetric
INVARIANTS
    EmptyWhenIdle
VIEW View
