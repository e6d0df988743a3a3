\* A coin type whose coins sum to zero, listed first after SUI.
SPECIFICATION Spec
CONSTANTS
    t1 = t1
    t2 = t2
    sui = sui
    CoinTypes = {t1, t2}
    GAS = sui
    MaxBalance = 1
    NoType = NoType
INVARIANTS
    SendOnlyWithBalance
