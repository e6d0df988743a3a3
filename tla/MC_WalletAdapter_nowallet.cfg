\* connect() when window.suiWallet is not defined.
SPECIFICATION Spec
CONSTANTS
    c1 = c1
    c2 = c2
    c3 = c3
    Calls <- MCCalls
    WalletInjected = FALSE
PROPERTIES
    ConnectingEventuallyCleared
CHECK_DEADLOCK FALSE
