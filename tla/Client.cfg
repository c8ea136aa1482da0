SPECIFICATION FairSpec
CONSTANTS
    l1 = l1
    l2 = l2
    Links = {l1, l2}
    Capacity = 1
    MaxSent = 1
INVARIANTS TypeOK LinksFollow
PROPERTIES WantedReachScript PrimarySetsPolicies
CHECK_DEADLOCK FALSE
