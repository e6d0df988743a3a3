\* Two networks: concurrent refreshes, NFT transactions, network switches and
\* other parties' transactions interleaved with each fetch's two RPC round trips.
SPECIFICATION Spec
CONSTANTS
    o1 = o1
    o2 = o2
    sys = sys
    n1 = n1
    n2 = n2
    NoObject = NoObject
    ObjectIds <- MCObjectIds1
    SystemId = sys
    Networks <- MCNetworks2
    HasAddress = TRUE
    MaxVersion = 3
    MaxFetches = 2
    MaxChainSteps = 2
INVARIANTS
    LoadingOnlyWhilePending
PROPERTIES
    FulfilledStoreIsListing
    LoadingEventuallyCleared
CHECK_DEADLOCK FALSE
