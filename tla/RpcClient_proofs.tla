-------------------------- MODULE RpcClient_proofs --------------------------
(***************************************************************************)
(* Proofs about DefaultRpcClient's provider map, for every finite set of   *)
(* networks and any number of overlapping getDataOnTxDigests calls.        *)
(***************************************************************************)
EXTENDS RpcClient, FiniteSetTheorems, TLAPS

USE NoProviderAssumption

\* The networks the map has a provider for.
Cached == {n \in Networks : rpcMap[n] # NoProvider}

(***************************************************************************)
(* The inductive invariant: the providers in the map are numbered 1 to     *)
(* made, one per cached network, the newest the highest; the calls keep    *)
(* the requests they were made with.                                       *)
(***************************************************************************)
IInv ==
    /\ made \in Nat
    /\ rpcMap \in [Networks -> (1 .. made) \cup {NoProvider}]
    /\ made = Cardinality(Cached)
    /\ req \in [Calls -> Requests]
    /\ PC!OneProviderPerNetwork

\* The cached networks are finitely many, and no more than all of them.
LEMMA CachedBound ==
    /\ IsFiniteSet(Cached)
    /\ Cardinality(Cached) <= Cardinality(Networks)
BY FS_Subset DEF Cached

\* A network cached afresh adds one to the count.
LEMMA CacheOneMore ==
    ASSUME NEW n \in Networks, rpcMap[n] = NoProvider, DOMAIN rpcMap = Networks,
           rpcMap' = [rpcMap EXCEPT ![n] = made + 1], made \in Nat
    PROVE  Cached' = Cached \cup {n} /\ n \notin Cached
BY DEF Cached

LEMMA InitIInv == Init => IInv
<1> SUFFICES ASSUME Init PROVE IInv
  OBVIOUS
<1>1. Cached = {}
  BY DEF Init, Cached
<1>2. QED BY <1>1, FS_EmptySet DEF Init, IInv, PC!OneProviderPerNetwork

\* DefaultRpcClient(n) for a network with no provider: the new provider is
\* made + 1, which no network has.
LEMMA BuildKeeps ==
    ASSUME IInv, NEW n \in Networks, rpcMap[n] = NoProvider,
           rpcMap' = [rpcMap EXCEPT ![n] = made + 1], made' = made + 1,
           UNCHANGED req
    PROVE  /\ IInv'
           /\ made + 1 \in ProviderIds \ PC!Handed
<1>1. Cached' = Cached \cup {n} /\ n \notin Cached
  BY CacheOneMore DEF IInv
<1>2. made' = Cardinality(Cached')
  BY <1>1, CachedBound, FS_AddElement DEF IInv
<1>3. made + 1 <= Cardinality(Networks)
  <2>1. IsFiniteSet(Cached') /\ Cardinality(Cached') <= Cardinality(Networks)
    BY FS_Subset DEF Cached
  <2>2. QED BY <1>2, <2>1
<1>4. made + 1 \notin PC!Handed
  BY DEF IInv, PC!Handed
<1>5. PC!OneProviderPerNetwork'
  BY DEF IInv, PC!OneProviderPerNetwork
<1>6. QED BY <1>2, <1>3, <1>4, <1>5 DEF IInv, ProviderIds

\* A step that leaves the map, the counter and the requests alone.
LEMMA MapUntouched ==
    ASSUME IInv, UNCHANGED <<rpcMap, made, req>>
    PROVE  IInv'
BY DEF IInv, Cached, PC!OneProviderPerNetwork

\* getDataOnTxDigests up to the await: DefaultRpcClient returns the cached
\* provider, a stuttering step of the cache, or builds one, a Get.
LEMMA CallKeeps ==
    ASSUME IInv, NEW c \in Calls, Call(c)
    PROVE  IInv' /\ [PC!Next]_rpcMap
<1> DEFINE n == req[c].net
<1>1. n \in Networks
  BY DEF IInv
<1>2. UNCHANGED req
  BY DEF Call
<1>3. CASE rpcMap[n] # NoProvider
  <2>1. UNCHANGED <<rpcMap, made>>
    BY <1>3 DEF Call, CacheProvider
  <2>2. QED BY <1>2, <2>1, MapUntouched
<1>4. CASE rpcMap[n] = NoProvider
  <2>1. rpcMap' = [rpcMap EXCEPT ![n] = made + 1] /\ made' = made + 1
    BY <1>4 DEF Call, CacheProvider
  <2>2. IInv' /\ made + 1 \in ProviderIds \ PC!Handed
    BY <1>1, <1>2, <1>4, <2>1, BuildKeeps
  <2>3. PC!Get(n)
    BY <1>4, <2>1, <2>2 DEF PC!Get
  <2>4. QED BY <1>1, <2>2, <2>3 DEF PC!Next
<1>5. QED BY <1>3, <1>4

\* A batch settling touches neither the map nor the counter.
LEMMA RespondKeeps ==
    ASSUME IInv, NEW c \in Calls, Respond(c)
    PROVE  IInv' /\ UNCHANGED rpcMap
BY MapUntouched DEF Respond

LEMMA StepKeeps ==
    ASSUME IInv, [Next]_vars
    PROVE  IInv' /\ [PC!Next]_rpcMap
<1>1. CASE UNCHANGED vars
  BY <1>1, MapUntouched DEF vars
<1>2. QED BY <1>1, CallKeeps, RespondKeeps DEF Next

-----------------------------------------------------------------------------
(***************************************************************************)
(* DefaultRpcClient implements ProviderCache for every finite set of       *)
(* networks: from an empty map, every step of any interleaving of calls   *)
(* and settling batches either leaves the map alone or caches, for a      *)
(* network that has none, a provider no other network has, numbered       *)
(* within the number of networks.                                          *)
(***************************************************************************)
THEOREM ImplementsProviderCacheHolds == Spec => ImplementsProviderCache
<1>1. Init => PC!Init
  BY DEF Init, PC!Init
<1>2. Spec => []IInv
  BY InitIInv, StepKeeps, PTL DEF Spec
<1>3. QED BY <1>1, <1>2, StepKeeps, PTL DEF Spec, ImplementsProviderCache, PC!Spec

(***************************************************************************)
(* No two networks ever share a provider, whatever the calls and their     *)
(* interleaving: DefaultRpcClient numbers each new provider past all      *)
(* those in the map.                                                       *)
(***************************************************************************)
THEOREM OneProviderPerNetworkHolds == Spec => []PC!OneProviderPerNetwork
<1>1. IInv => PC!OneProviderPerNetwork
  BY DEF IInv
<1>2. QED BY InitIInv, StepKeeps, <1>1, PTL DEF Spec

=============================================================================
