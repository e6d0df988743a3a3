\* Two refreshes whose answers arrive out of order.
SPECIFICATION Spec
CONSTANTS
    o1 = o1
    o2 = o2
    sys = sys
    n1 = n1
    n2 = n2
    NoObject = NoObject
    ObjectIds <- MCObjectIds
    SystemId = sys
    Networks <- MCNetworks1
    HasAddress = TRUE
    MaxVersion = 3
    MaxFetches = 3
    MaxChainSteps = 1
PROPERTIES
    StoreNeverRegresses
CHECK_DEADLOCK FALSE
