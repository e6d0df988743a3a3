\* SUI and two other coin types, each with aggregate balance 0 or 1.
SPECIFICATION Spec
CONSTANTS
    t1 = t1
    t2 = t2
    sui = sui
    CoinTypes = {t1, t2}
    GAS = sui
    MaxBalance = 1
    NoType = NoType
INVARIANTS
    EmptyWalletOnlyWhenEmpty
