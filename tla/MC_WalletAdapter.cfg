\* Three connect() calls with the wallet extension installed.
SPECIFICATION Spec
CONSTANTS
    c1 = c1
    c2 = c2
    c3 = c3
    Calls <- MCCalls
    WalletInjected = TRUE
PROPERTIES
    ConnectingEventuallyCleared
\* Once every call has returned and the dapp is disconnected, nothing is left to do.
CHECK_DEADLOCK FALSE
