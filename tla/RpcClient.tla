----------------------------- MODULE RpcClient -----------------------------
(***************************************************************************)
(* The explorer's DefaultRpcClient (utils/api/DefaultRpcClient.ts): one    *)
(* JsonRpcProvider per network, kept in a module-level map, and           *)
(* getDataOnTxDigests, which asks the provider for the effects of a list  *)
(* of [sequence number, digest] pairs and turns the answer into table     *)
(* rows sorted by sequence number, newest first.                           *)
(*                                                                         *)
(* Several calls may be pending at once: each sends its batch and its     *)
(* `then` runs when the batch settles.  A certificate is abstracted to    *)
(* its digest and the number of transactions it holds.                    *)
(***************************************************************************)
EXTENDS Naturals, Sequences, FiniteSets, SequencesExt

CONSTANTS
    Networks,  \* network names
    Digests,   \* transaction digests
    Calls,     \* the getDataOnTxDigests calls made
    Requests,  \* the (network, transactions) a call may be made with
    NoProvider \* the map has no entry

\* Providers are counted by naturals; NoProvider is none of them.  The
\* networks are finitely many, and a call names one of them.
ASSUME NoProviderAssumption ==
    /\ NoProvider \notin Nat
    /\ IsFiniteSet(Networks)
    /\ \A r \in Requests : r.net \in Networks

VARIABLES
    rpcMap,    \* defaultRpcMap: network -> provider, or NoProvider
    made,      \* the number of providers constructed
    state,     \* state[c]: "idle", "pending", "done" or "failed"
    req,       \* req[c]: the call's network and transactions
    sent,      \* sent[c]: the digests the batch asked for
    rows       \* rows[c]: the rows the promise resolved to

vars == <<rpcMap, made, state, req, sent, rows>>

-----------------------------------------------------------------------------
\* Mutation of CacheProvider: the map never consulted, a new provider every
\* call (the `if(existingClient)` return dropped).
CacheProviderAlwaysNew(n) ==
    /\ rpcMap' = [rpcMap EXCEPT ![n] = made + 1]
    /\ made' = made + 1

\* DefaultRpcClient(network): the cached provider, or a new one put in the map.
CacheProvider(n) ==
    IF rpcMap[n] # NoProvider THEN UNCHANGED <<rpcMap, made>>
    ELSE /\ rpcMap' = [rpcMap EXCEPT ![n] = made + 1]
         /\ made' = made + 1

\* Mutation of Deduplicate: every pair's digest sent, repeats included.
DeduplicateNone(txs) == [j \in DOMAIN txs |-> <<j, txs[j].digest>>]

\* deduplicate(transactions) (searchUtil): the digests, first occurrences.
Deduplicate(txs) ==
    LET ds == [j \in DOMAIN txs |-> txs[j].digest]
    IN  SelectSeq([j \in DOMAIN ds |-> <<j, ds[j]>>],
                  LAMBDA e : \A k \in 1 .. e[1] - 1 : ds[k] # e[2])

SentDigests(s) == [j \in DOMAIN s |-> s[j][2]]

\* getDataOnTxDigests up to the await: the provider, then the batch.
Call(c) ==
    /\ state[c] = "idle"
    /\ CacheProvider(req[c].net)
    /\ sent' = [sent EXCEPT ![c] = SentDigests(Deduplicate(req[c].txs))]
    /\ state' = [state EXCEPT ![c] = "pending"]
    /\ UNCHANGED <<req, rows>>

\* The row of one effect: the first pair with its digest gives seq and txId;
\* a certificate with more than one transaction gives null.
Row(txs, d, count) ==
    LET j == CHOOSE i \in DOMAIN txs : txs[i].digest = d /\ \A k \in 1 .. i - 1 : txs[k].digest # d
    IN  IF count > 1 THEN [null |-> TRUE] ELSE [seq |-> txs[j].seq, txId |-> d]

\* .sort((a, b) => b!.seq - a!.seq): stable, newest first.
SortBySeqDesc(s) ==
    LET rank(i) == Cardinality({k \in DOMAIN s : s[k].seq > s[i].seq})
                   + Cardinality({k \in 1 .. i - 1 : s[k].seq = s[i].seq}) + 1
    IN  [r \in DOMAIN s |-> s[CHOOSE i \in DOMAIN s : rank(i) = r]]

\* The then-callback: map, filter out nulls, sort.
Rows(txs, effects) ==
    SortBySeqDesc(SelectSeq([j \in DOMAIN effects |-> Row(txs, effects[j].digest, effects[j].count)],
                            LAMBDA r : "seq" \in DOMAIN r))

\* The batch settles: one effect per digest asked for, in order, each with
\* one or two transactions; or the request fails and the promise rejects.
Respond(c) ==
    /\ state[c] = "pending"
    /\ \/ \E counts \in [DOMAIN sent[c] -> {1, 2}] :
             /\ rows' = [rows EXCEPT ![c] =
                           Rows(req[c].txs, [j \in DOMAIN sent[c] |->
                                               [digest |-> sent[c][j], count |-> counts[j]]])]
             /\ state' = [state EXCEPT ![c] = "done"]
       \/ /\ state' = [state EXCEPT ![c] = "failed"]
          /\ UNCHANGED rows
    /\ UNCHANGED <<rpcMap, made, req, sent>>

Init ==
    /\ rpcMap = [n \in Networks |-> NoProvider]
    /\ made = 0
    /\ state = [c \in Calls |-> "idle"]
    /\ req \in [Calls -> Requests]
    /\ sent = [c \in Calls |-> << >>]
    /\ rows = [c \in Calls |-> << >>]

Next == \E c \in Calls : Call(c) \/ Respond(c)

Spec == Init /\ [][Next]_vars

-----------------------------------------------------------------------------
\* Type invariant.
TypeOK ==
    /\ made \in Nat
    /\ state \in [Calls -> {"idle", "pending", "done", "failed"}]

(***************************************************************************)
(* The table getDataOnTxDigests resolves to has one row per transaction:   *)
(* no digest twice, even when the caller lists a digest under several      *)
(* pairs; each row carries a pair the caller listed; newest first.         *)
(***************************************************************************)
RowsOnePerTransaction ==
    \A c \in Calls : state[c] = "done" =>
        LET r == rows[c]
        IN  /\ \A i, j \in DOMAIN r : i # j => r[i].txId # r[j].txId
            /\ \A j \in DOMAIN r : \E i \in DOMAIN req[c].txs :
                   req[c].txs[i] = [seq |-> r[j].seq, digest |-> r[j].txId]
            /\ IsSorted(r, LAMBDA a, b : a.seq >= b.seq)

(***************************************************************************)
(* DefaultRpcClient implements the provider cache of ProviderCache, the    *)
(* map read as the cache and the providers numbered in the order they are *)
(* built: however getDataOnTxDigests calls for the same or different       *)
(* networks interleave, a network's provider is built once, never         *)
(* replaced, and shared with no other network; so no more providers are  *)
(* built than there are networks.                                         *)
(***************************************************************************)
ProviderIds == 1 .. Cardinality(Networks)

PC == INSTANCE ProviderCache WITH provider <- rpcMap, Providers <- ProviderIds

ImplementsProviderCache == PC!Spec

=============================================================================
