--------------------------- MODULE WalletAdapter ---------------------------
(***************************************************************************)
(* MockWalletAdapter (sdk/typescript/src/index.ts): the adapter a dapp     *)
(* holds for the Sui wallet extension injected as window.suiWallet.        *)
(* connect() sets `connecting`, asks the wallet for permissions, asks      *)
(* whether it has viewAccount, sets `connected` and clears `connecting`   *)
(* in a finally block; disconnect() clears `connected`.                    *)
(*                                                                         *)
(* Each connect() call is a separate async execution: its two awaits let   *)
(* other calls, and disconnect(), run in between.  The wallet keeps the    *)
(* site's permission (`perm`): requestPermissions resolves to whether the  *)
(* user approved (and an approval grants it), or rejects.                  *)
(***************************************************************************)
EXTENDS Naturals

CONSTANTS
    Calls,          \* the connect() invocations the dapp makes
    WalletInjected  \* whether window.suiWallet is defined

VARIABLES
    connecting,  \* this.connecting
    connected,   \* this.connected
    perm,        \* the wallet has granted this site its permissions
    pc           \* pc[c]: where connect() call c is

vars == <<connecting, connected, perm, pc>>

\* The states of one connect() call: not called, awaiting
\* requestPermissions, awaiting hasPermissions, returned.
PCs == {"idle", "request", "has", "done"}

InFlight(c) == pc[c] \in {"request", "has"}

-----------------------------------------------------------------------------
\* constructor(name): connected = false, connecting = false.
Init ==
    /\ connecting = FALSE
    /\ connected = FALSE
    /\ perm = FALSE
    /\ pc = [c \in Calls |-> "idle"]

\* connect() up to its first await: `this.connecting = true`; without a
\* wallet the if is skipped and the call returns.
Connect(c) ==
    /\ pc[c] = "idle"
    /\ connecting' = TRUE
    /\ pc' = [pc EXCEPT ![c] = IF WalletInjected THEN "request" ELSE "done"]
    /\ UNCHANGED <<connected, perm>>

\* `await wallet.requestPermissions()` resolves to the user's answer; the
\* result is not looked at.
RequestResolves(c) ==
    /\ pc[c] = "request"
    /\ \E approved \in BOOLEAN : perm' = (perm \/ approved)
    /\ pc' = [pc EXCEPT ![c] = "has"]
    /\ UNCHANGED <<connecting, connected>>

\* `await wallet.hasPermissions(["viewAccount"])` resolves (to perm, which
\* is not looked at): `this.connected = true`, then the finally block.
HasResolves(c) ==
    /\ pc[c] = "has"
    /\ connected' = TRUE
    /\ connecting' = FALSE
    /\ pc' = [pc EXCEPT ![c] = "done"]
    /\ UNCHANGED perm

\* Mutation of Fails: the reset of `connecting` only on the success path.
FailsKeepsConnecting(c) ==
    /\ InFlight(c)
    /\ pc' = [pc EXCEPT ![c] = "done"]
    /\ UNCHANGED <<connecting, connected, perm>>

\* Either await rejects: catch logs the error, finally clears connecting.
Fails(c) ==
    /\ InFlight(c)
    /\ connecting' = FALSE
    /\ pc' = [pc EXCEPT ![c] = "done"]
    /\ UNCHANGED <<connected, perm>>

\* disconnect(): `if (this.connected == true) this.connected = false`.
Disconnect ==
    /\ connected = TRUE
    /\ connected' = FALSE
    /\ UNCHANGED <<connecting, perm, pc>>

\* The wallet answers a pending call: one of its awaits settles.
Settle(c) == RequestResolves(c) \/ HasResolves(c) \/ Fails(c)

Next ==
    \/ \E c \in Calls : Connect(c) \/ Settle(c)
    \/ Disconnect

(***************************************************************************)
(* The wallet's promises settle: hasPermissions answers at once, and       *)
(* requestPermissions settles when the user answers or closes the popup.  *)
(* The dapp's own calls (connect, disconnect) are not assumed to happen.   *)
(***************************************************************************)
Fairness == \A c \in Calls : WF_vars(Settle(c))

Spec == Init /\ [][Next]_vars /\ Fairness

-----------------------------------------------------------------------------
\* Type invariant.
TypeOK ==
    /\ connecting \in BOOLEAN
    /\ connected \in BOOLEAN
    /\ perm \in BOOLEAN
    /\ pc \in [Calls -> PCs]

(***************************************************************************)
(* The WalletAdapter contract: `connecting` is a transient state.  Once   *)
(* connect() has set it, it is eventually cleared again, whatever the      *)
(* wallet answers and however calls and disconnect() interleave.           *)
(***************************************************************************)
ConnectingEventuallyCleared == connecting ~> ~connecting

(***************************************************************************)
(* The adapter reports `connected` only while the wallet has granted the   *)
(* site its permissions (connect asks for them and checks viewAccount      *)
(* before setting connected).                                              *)
(***************************************************************************)
ConnectedOnlyWithPermission == connected => perm

=============================================================================
