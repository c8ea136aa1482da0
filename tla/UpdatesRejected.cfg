SPECIFICATION Spec
CONSTANTS
    A = A
    B = B
    a1 = a1
    a2 = a2
    ASes = {A, B}
    IsCore = {A}
    Clients = {a1, a2}
    AsOf <- TwoOfA
    Holders = {a1}
    MaxRunning = 2
INVARIANTS RejectedHasNoEffect
CHECK_DEADLOCK FALSE
