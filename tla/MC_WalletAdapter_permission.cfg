\* Three connect() calls; the user may deny the permission request.
SPECIFICATION Spec
CONSTANTS
    c1 = c1
    c2 = c2
    c3 = c3
    Calls <- MCCalls
    WalletInjected = TRUE
INVARIANTS
    ConnectedOnlyWithPermission
CHECK_DEADLOCK FALSE
