\* Two overlapping calls, two networks, two digests.
SPECIFICATION Spec
CONSTANTS
    n1 = n1
    n2 = n2
    d1 = d1
    d2 = d2
    c1 = c1
    c2 = c2
    Networks = {n1, n2}
    Digests = {d1, d2}
    Calls = {c1, c2}
    Requests <- MCRequests
    NoProvider = NoProvider
INVARIANTS
    RowsOnePerTransaction
PROPERTIES
    ImplementsProviderCache
\* Every call settles once; nothing runs after.
CHECK_DEADLOCK FALSE
