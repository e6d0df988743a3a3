\* A fetch in flight while the wallet switches network.
SPECIFICATION Spec
CONSTANTS
    o1 = o1
    o2 = o2
    sys = sys
    n1 = n1
    n2 = n2
    NoObject = NoObject
    ObjectIds <- MCObjectIds1
    SystemId = sys
    Networks <- MCNetworks2
    HasAddress = TRUE
    MaxVersion = 2
    MaxFetches = 2
    MaxChainSteps = 1
INVARIANTS
    StoreMatchesNetwork
CHECK_DEADLOCK FALSE
