----------------------------- MODULE TokensPage -----------------------------
(***************************************************************************)
(* The wallet's TokensPage (the view part of sui-objects/index.ts): what   *)
(* it renders from the objects slice (loading, error, showError from       *)
(* useObjectsState) and from the aggregate balance per coin type           *)
(* (accountAggregateBalancesSelector).  The store changes under it as the  *)
(* slice syncs; every render recomputes the view from the store, so the   *)
(* view is a set of operators on the store state.                          *)
(*                                                                         *)
(* The balances are kept as the selector's object: the coin types in key  *)
(* (insertion) order, and a balance per type.                              *)
(***************************************************************************)
EXTENDS Naturals, Sequences, FiniteSets

CONSTANTS
    CoinTypes,   \* coin type tags other than SUI
    GAS,         \* GAS_TYPE_ARG, the SUI coin type
    MaxBalance,  \* the largest aggregate balance of a type
    NoType       \* undefined: no coin type

AllTypes == CoinTypes \cup {GAS}

VARIABLES
    keys,      \* Object.keys(balances): the coin types, in key order
    amount,    \* amount[t]: balances[t], for t among keys
    loading,   \* the slice's loading flag
    error,     \* the slice's error is set
    showError  \* useObjectsState's showError

vars == <<keys, amount, loading, error, showError>>

InKeys(t) == \E j \in DOMAIN keys : keys[j] = t

\* Key orders: sequences of distinct coin types.
KeyOrders == UNION {{s \in [1 .. n -> AllTypes] :
                        \A i, j \in 1 .. n : i # j => s[i] # s[j]} : n \in 0 .. Cardinality(AllTypes)}

-----------------------------------------------------------------------------
\* balances[GAS_TYPE_ARG] || BigInt(0)
SuiBalance == IF InKeys(GAS) THEN amount[GAS] ELSE 0

\* Object.keys(balances).filter((aType) => aType !== GAS_TYPE_ARG)
OtherCoinTypes == SelectSeq(keys, LAMBDA t : t # GAS)

\* Mutation of ActiveCoinType: the fallback to the other coin types gone.
ActiveCoinTypeSuiOnly == IF SuiBalance > 0 THEN GAS ELSE NoType

\* suiBalance > 0 ? GAS_TYPE_ARG : otherCoinTypes[0]
ActiveCoinType ==
    IF SuiBalance > 0 THEN GAS
    ELSE IF Len(OtherCoinTypes) > 0 THEN OtherCoinTypes[1]
    ELSE NoType

\* What the page shows.
SendEnabled == ActiveCoinType # NoType
ShowsAlert == showError /\ error
ShowsEmptyWallet == ActiveCoinType = NoType
ShowsCoinList == ActiveCoinType # NoType /\ Len(OtherCoinTypes) > 0
ShowsNoCoinsNote == ActiveCoinType # NoType /\ Len(OtherCoinTypes) = 0

-----------------------------------------------------------------------------
\* The slice before its first sync: loading, no error, no balances.
Init ==
    /\ keys = << >>
    /\ amount = [t \in AllTypes |-> 0]
    /\ loading = TRUE
    /\ error = FALSE
    /\ showError = FALSE

\* The store after a sync: new balances (coins of a type may sum to zero),
\* loading and error as the thunk left them; the page re-renders.
Sync ==
    /\ \E ks \in KeyOrders, a \in [AllTypes -> 0 .. MaxBalance],
          l \in BOOLEAN, e \in BOOLEAN, se \in BOOLEAN :
          /\ keys' = ks
          /\ amount' = [t \in AllTypes |-> IF \E j \in DOMAIN ks : ks[j] = t THEN a[t] ELSE 0]
          /\ loading' = l
          /\ error' = e
          /\ showError' = se

Next == Sync

Spec == Init /\ [][Next]_vars

-----------------------------------------------------------------------------
\* Type invariant.
TypeOK ==
    /\ keys \in KeyOrders
    /\ amount \in [AllTypes -> 0 .. MaxBalance]
    /\ {loading, error, showError} \subseteq BOOLEAN

(***************************************************************************)
(* "Your wallet is empty" is shown only when no coin type has a balance.   *)
(***************************************************************************)
EmptyWalletOnlyWhenEmpty ==
    ShowsEmptyWallet => \A t \in AllTypes : InKeys(t) => amount[t] = 0

(***************************************************************************)
(* The comment above activeCoinType: "Send only coins that have a balance; *)
(* deactivate send for wallet with no balance".  Send is enabled only with *)
(* a coin type whose balance is positive.                                  *)
(***************************************************************************)
SendOnlyWithBalance ==
    SendEnabled => amount[ActiveCoinType] > 0

=============================================================================
