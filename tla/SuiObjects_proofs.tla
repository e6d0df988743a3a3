------------------------- MODULE SuiObjects_proofs -------------------------
(***************************************************************************)
(* Proofs about the wallet's sui-objects slice, for every set of objects   *)
(* and networks, every version bound and any number of concurrent fetches.*)
(***************************************************************************)
EXTENDS SuiObjects, TLAPS

USE ConstantsAssumption, NoObjectAssumption

PCs == {"idle", "list", "batch", "done"}

(***************************************************************************)
(* The inductive invariant: LoadingOnlyWhilePending together with the type *)
(* of the fetches' program counters, which the EXCEPTs of each step need.  *)
(***************************************************************************)
IInv ==
    /\ pc \in [Fetches -> PCs]
    /\ LoadingOnlyWhilePending

\* A step that sets fetch r's counter to a value in flight makes
\* LoadingOnlyWhilePending hold whatever loading becomes.
LEMMA NowInFlight ==
    ASSUME pc \in [Fetches -> PCs], NEW r \in Fetches,
           NEW v \in {"list", "batch"}, pc' = [pc EXCEPT ![r] = v]
    PROVE  /\ pc' \in [Fetches -> PCs]
           /\ LoadingOnlyWhilePending'
BY DEF LoadingOnlyWhilePending, InFlight, PCs

\* A step that clears loading satisfies the invariant's second conjunct.
LEMMA LoadingCleared ==
    ASSUME loading' = FALSE
    PROVE  LoadingOnlyWhilePending'
BY DEF LoadingOnlyWhilePending

\* A step that leaves loading and every counter alone keeps the invariant.
LEMMA Untouched ==
    ASSUME IInv, UNCHANGED <<loading, pc>>
    PROVE  IInv'
BY DEF IInv, LoadingOnlyWhilePending, InFlight

\* dispatch(fetchAllOwnedAndRequiredObjects()), alone or after a
\* transaction: with an address the fetch is in flight; without, the
\* fulfilled reducer clears loading.
LEMMA DispatchKeeps ==
    ASSUME IInv, NEW r \in Fetches, Dispatch(r)
    PROVE  IInv'
<1>1. CASE HasAddress
  BY <1>1, NowInFlight DEF IInv, Dispatch
<1>2. CASE ~HasAddress
  <2>1. pc' \in [Fetches -> PCs]
    BY <1>2 DEF IInv, Dispatch, PCs
  <2>2. loading' = FALSE
    BY <1>2 DEF Dispatch, Fulfilled
  <2>3. QED BY <2>1, <2>2, LoadingCleared DEF IInv
<1>3. QED BY <1>1, <1>2

-----------------------------------------------------------------------------
(***************************************************************************)
(* The loading flag of the objects slice is only up while a fetch awaits   *)
(* an RPC answer, or before any fetch was dispatched, however fetches,     *)
(* NFT transactions, network switches and other parties' transactions     *)
(* interleave: fulfilled, rejected and the no-address return all clear it.*)
(***************************************************************************)
THEOREM LoadingOnlyWhilePendingHolds == Spec => []LoadingOnlyWhilePending
<1>1. Init => IInv
  BY DEF Init, IInv, PCs, LoadingOnlyWhilePending
<1>2. IInv /\ [Next]_vars => IInv'
  <2> SUFFICES ASSUME IInv, [Next]_vars PROVE IInv'
    OBVIOUS
  <2>1. ASSUME NEW r \in Fetches, Refresh(r) PROVE IInv'
    BY <2>1, DispatchKeeps DEF Refresh
  <2>2. ASSUME NEW r \in Fetches, MintDemoNFT(r) PROVE IInv'
    BY <2>2, DispatchKeeps DEF MintDemoNFT
  <2>3. ASSUME NEW r \in Fetches, TransferSuiNFT(r) PROVE IInv'
    BY <2>3, DispatchKeeps DEF TransferSuiNFT
  <2>4. ASSUME NEW r \in Fetches, ListReply(r) PROVE IInv'
    BY <2>4, NowInFlight DEF IInv, ListReply, sliceVars
  <2>5. ASSUME NEW r \in Fetches, BatchReply(r) PROVE IInv'
    <3>1. pc' \in [Fetches -> PCs]
      BY <2>5 DEF IInv, BatchReply, PCs
    <3>2. QED BY <2>5, <3>1, LoadingCleared DEF IInv, BatchReply, Fulfilled
  <2>6. ASSUME NEW r \in Fetches, FetchFails(r) PROVE IInv'
    <3>1. pc' \in [Fetches -> PCs]
      BY <2>6 DEF IInv, FetchFails, PCs
    <3>2. QED BY <2>6, <3>1, LoadingCleared DEF IInv, FetchFails, Rejected
  <2>7. CASE SwitchNetwork
    BY <2>7, Untouched DEF SwitchNetwork, ClearForNetworkSwitch, fetchVars
  <2>8. ASSUME NEW n \in Networks, NEW id \in AllIds, ChainUpdate(n, id)
        PROVE IInv'
    BY <2>8, Untouched DEF ChainUpdate, sliceVars, fetchVars
  <2>9. CASE UNCHANGED vars
    BY <2>9, Untouched DEF vars, sliceVars, fetchVars
  <2>10. QED BY <2>1, <2>2, <2>3, <2>4, <2>5, <2>6, <2>7, <2>8, <2>9
               DEF Next, Respond
<1>3. IInv => LoadingOnlyWhilePending
  BY DEF IInv
<1>4. QED BY <1>1, <1>2, <1>3, PTL DEF Spec

(***************************************************************************)
(* The inductive invariant behind FulfilledStoreIsListing.  While fetch r  *)
(* awaits its batch, what ListReply computed is still the filter of its   *)
(* listing against its snapshot, and the listing is no newer than the      *)
(* listed network's objects: versions on a full node only grow.           *)
(***************************************************************************)
StoreTypes ==
    /\ chain \in [Networks -> [AllIds -> ChainObject]]
    /\ net \in Networks
    /\ entities \in [AllIds -> Entity \cup {NoObject}]
    /\ pc \in [Fetches -> PCs]
    /\ snap \in [Fetches -> [AllIds -> Entity \cup {NoObject}]]
    /\ listNet \in [Fetches -> Networks]
    /\ batchNet \in [Fetches -> Networks]
    /\ listed \in [Fetches -> [AllIds -> 0 .. MaxVersion]]
    /\ DOMAIN reused = Fetches /\ DOMAIN ids = Fetches

BatchFacts(r) ==
    pc[r] = "batch" =>
        /\ reused[r] = Kept(r, listed[r])
        /\ ids[r] = Outdated(r, listed[r]) \cup {SystemId}
        /\ \A id \in ObjectIds : chain[listNet[r]][id].ver >= listed[r][id]

LInv == StoreTypes /\ \A r \in Fetches : BatchFacts(r)

\* Versions on a full node never go down.
ChainGrows ==
    \A n \in Networks, i \in AllIds : chain'[n][i].ver >= chain[n][i].ver

\* A step that leaves fetch r's own state alone, and the chain's versions
\* no lower, keeps what r's batch relies on.
LEMMA FrameKeeps ==
    ASSUME StoreTypes, StoreTypes', ChainGrows, NEW r \in Fetches, BatchFacts(r),
           pc'[r] = pc[r], reused'[r] = reused[r], ids'[r] = ids[r],
           listed'[r] = listed[r], snap'[r] = snap[r], listNet'[r] = listNet[r]
    PROVE  BatchFacts(r)'
<1>1. Kept(r, listed[r])' = Kept(r, listed[r]) /\ Outdated(r, listed[r])' = Outdated(r, listed[r])
  BY DEF Kept, Outdated, SelectById
<1>2. ASSUME NEW i \in ObjectIds
      PROVE  chain'[listNet'[r]][i].ver >= chain[listNet[r]][i].ver
  BY DEF ChainGrows, StoreTypes, AllIds
<1>3. ASSUME NEW i \in ObjectIds, pc[r] = "batch"
      PROVE  chain'[listNet'[r]][i].ver >= listed'[r][i]
  <2>1. chain[listNet[r]][i].ver >= listed[r][i]
    BY <1>3 DEF BatchFacts
  <2>2. /\ chain'[listNet'[r]][i].ver \in 0 .. MaxVersion
        /\ chain[listNet[r]][i].ver \in 0 .. MaxVersion
        /\ listed[r][i] \in 0 .. MaxVersion
    BY DEF StoreTypes, ChainObject, AllIds
  <2>3. QED BY <1>2, <2>1, <2>2
<1>4. QED BY <1>1, <1>3 DEF BatchFacts

\* Overwriting one object of the chain with one no older keeps the chain's
\* type and lets no version go down.
LEMMA ChainBump ==
    ASSUME chain \in [Networks -> [AllIds -> ChainObject]],
           NEW n \in Networks, NEW i0 \in AllIds, NEW o \in ChainObject,
           o.ver >= chain[n][i0].ver,
           chain' = [chain EXCEPT ![n][i0] = o]
    PROVE  /\ chain' \in [Networks -> [AllIds -> ChainObject]]
           /\ ChainGrows
<1>1. chain' \in [Networks -> [AllIds -> ChainObject]]
  OBVIOUS
<1>2. ASSUME NEW m \in Networks, NEW i \in AllIds
      PROVE  chain'[m][i].ver >= chain[m][i].ver
  <2>1. chain[m][i].ver \in 0 .. MaxVersion
    BY DEF ChainObject
  <2>2. QED BY <2>1
<1>3. QED BY <1>1, <1>2 DEF ChainGrows

\* What setAll stores: an entity per id the payload names, NoObject for
\* the others.
LEMMA SetAllType ==
    ASSUME NEW P, \A o \in P : o.ver \in Versions /\ o.net \in Networks
    PROVE  SetAll(P) \in [AllIds -> Entity \cup {NoObject}]
BY DEF SetAll, Entity

\* The fetches start idle, with nothing listed and an empty store.
LEMMA LInvInit == Init => LInv
<1> SUFFICES ASSUME Init PROVE LInv
  OBVIOUS
<1>1. StoreTypes
  BY DEF Init, InitChain, StoreTypes, EmptyStore, PCs, Fetches
<1>2. \A r \in Fetches : BatchFacts(r)
  BY DEF Init, BatchFacts
<1>3. QED BY <1>1, <1>2 DEF LInv

\* dispatch(fetchAllOwnedAndRequiredObjects()), after whatever the NFT
\* thunks did to the chain, starts an idle fetch and so leaves every
\* awaited batch's facts in place.
LEMMA DispatchLInv ==
    ASSUME LInv, NEW r0 \in Fetches, Dispatch(r0),
           chain' \in [Networks -> [AllIds -> ChainObject]], ChainGrows,
           net' = net
    PROVE  LInv'
<1>1. entities' \in [AllIds -> Entity \cup {NoObject}]
  <2>1. CASE HasAddress
    BY <2>1 DEF Dispatch, Pending, LInv, StoreTypes
  <2>2. CASE ~HasAddress
    BY <2>2, SetAllType DEF Dispatch, Fulfilled
  <2>3. QED BY <2>1, <2>2
<1>2. pc' = [pc EXCEPT ![r0] = "list"] \/ pc' = [pc EXCEPT ![r0] = "done"]
  BY DEF Dispatch
<1>3. StoreTypes'
  BY <1>1, <1>2 DEF Dispatch, LInv, StoreTypes, PCs
<1>4. ASSUME NEW r \in Fetches PROVE BatchFacts(r)'
  <2>1. CASE r = r0
    BY <1>2, <2>1 DEF LInv, StoreTypes, BatchFacts
  <2>2. CASE r # r0
    <3>1. /\ pc'[r] = pc[r] /\ reused'[r] = reused[r] /\ ids'[r] = ids[r]
          /\ listed'[r] = listed[r] /\ snap'[r] = snap[r] /\ listNet'[r] = listNet[r]
      BY <1>2, <2>2 DEF Dispatch, LInv, StoreTypes
    <3>2. StoreTypes /\ BatchFacts(r)
      BY DEF LInv
    <3>3. QED BY <1>3, <3>1, <3>2, FrameKeeps
  <2>3. QED BY <2>1, <2>2
<1>5. QED BY <1>3, <1>4 DEF LInv

\* The listing arrives: the filter, the batch's ids and the listing are
\* stored together, and the listing is what the chain holds now.
LEMMA ListReplyLInv ==
    ASSUME LInv, NEW r0 \in Fetches, ListReply(r0)
    PROVE  LInv'
<1> DEFINE lst == Listing(listNet[r0])
<1>1. lst \in [AllIds -> 0 .. MaxVersion]
  BY DEF Listing, LInv, StoreTypes, ChainObject
<1>2. StoreTypes'
  BY <1>1 DEF ListReply, LInv, StoreTypes, PCs, chainVars, sliceVars
<1>3. ChainGrows
  BY DEF ListReply, chainVars, ChainGrows, LInv, StoreTypes, ChainObject
<1>4. BatchFacts(r0)'
  <2>1. Kept(r0, listed[r0])' = Kept(r0, lst) /\ Outdated(r0, listed[r0])' = Outdated(r0, lst)
    BY DEF ListReply, LInv, StoreTypes, Kept, Outdated, SelectById
  <2>2. ASSUME NEW i \in ObjectIds
        PROVE  chain'[listNet'[r0]][i].ver >= listed'[r0][i]
    BY DEF ListReply, chainVars, LInv, StoreTypes, Listing, ChainObject, AllIds
  <2>3. /\ reused'[r0] = Kept(r0, lst)
        /\ ids'[r0] = Outdated(r0, lst) \cup {SystemId}
        /\ listed'[r0] = lst
    BY DEF ListReply, LInv, StoreTypes
  <2>4. QED BY <2>1, <2>2, <2>3 DEF BatchFacts
<1>5. ASSUME NEW r \in Fetches, r # r0 PROVE BatchFacts(r)'
  <2>1. /\ pc'[r] = pc[r] /\ reused'[r] = reused[r] /\ ids'[r] = ids[r]
        /\ listed'[r] = listed[r] /\ snap'[r] = snap[r] /\ listNet'[r] = listNet[r]
    BY <1>5 DEF ListReply, LInv, StoreTypes
  <2>2. StoreTypes /\ BatchFacts(r)
    BY DEF LInv
  <2>3. QED BY <1>2, <1>3, <2>1, <2>2, FrameKeeps
<1>6. QED BY <1>2, <1>4, <1>5 DEF LInv

\* What an awaited batch will store are entities: kept objects come from
\* the snapshot, fetched ones exist on the batch's network.
LEMMA PayloadTyped ==
    ASSUME LInv, NEW r \in Fetches, pc[r] = "batch"
    PROVE  \A o \in reused[r] \cup Existing(r) : o.ver \in Versions /\ o.net \in Networks
<1>1. ASSUME NEW o \in reused[r] PROVE o.ver \in Versions /\ o.net \in Networks
  <2>1. PICK i \in {j \in ObjectIds : listed[r][j] # 0 /\ j \notin Outdated(r, listed[r])} :
            o = [id |-> i, ver |-> snap[r][i].ver, net |-> snap[r][i].net]
    BY <1>1 DEF LInv, BatchFacts, Kept
  <2>2. snap[r][i] # NoObject
    BY <2>1 DEF Outdated, SelectById
  <2>3. snap[r][i] \in Entity
    BY <2>2 DEF LInv, StoreTypes, AllIds
  <2>4. QED BY <2>1, <2>3 DEF Entity
<1>2. ASSUME NEW o \in Existing(r) PROVE o.ver \in Versions /\ o.net \in Networks
  <2>1. ids[r] \subseteq AllIds
    BY DEF LInv, BatchFacts, Outdated, AllIds
  <2>2. QED BY <2>1 DEF Existing, LInv, StoreTypes, ChainObject, Versions
<1>3. QED BY <1>1, <1>2

\* The batch arrives: fetch r is done, the store becomes its payload.
LEMMA BatchReplyLInv ==
    ASSUME LInv, NEW r0 \in Fetches, BatchReply(r0)
    PROVE  LInv'
<1>1. entities' \in [AllIds -> Entity \cup {NoObject}]
  BY PayloadTyped, SetAllType DEF BatchReply, Fulfilled
<1>2. StoreTypes'
  BY <1>1 DEF BatchReply, LInv, StoreTypes, PCs, chainVars
<1>3. ChainGrows
  BY DEF BatchReply, chainVars, ChainGrows, LInv, StoreTypes, ChainObject
<1>4. BatchFacts(r0)'
  BY DEF BatchReply, LInv, StoreTypes, BatchFacts
<1>5. ASSUME NEW r \in Fetches, r # r0 PROVE BatchFacts(r)'
  <2>1. /\ pc'[r] = pc[r] /\ reused'[r] = reused[r] /\ ids'[r] = ids[r]
        /\ listed'[r] = listed[r] /\ snap'[r] = snap[r] /\ listNet'[r] = listNet[r]
    BY <1>5 DEF BatchReply, LInv, StoreTypes
  <2>2. StoreTypes /\ BatchFacts(r)
    BY DEF LInv
  <2>3. QED BY <1>2, <1>3, <2>1, <2>2, FrameKeeps
<1>6. QED BY <1>2, <1>4, <1>5 DEF LInv

\* An RPC call rejects: fetch r is done, the store is left alone.
LEMMA FetchFailsLInv ==
    ASSUME LInv, NEW r0 \in Fetches, FetchFails(r0)
    PROVE  LInv'
<1>2. StoreTypes'
  BY DEF FetchFails, Rejected, LInv, StoreTypes, PCs, chainVars
<1>3. ChainGrows
  BY DEF FetchFails, chainVars, ChainGrows, LInv, StoreTypes, ChainObject
<1>4. BatchFacts(r0)'
  BY DEF FetchFails, LInv, StoreTypes, BatchFacts
<1>5. ASSUME NEW r \in Fetches, r # r0 PROVE BatchFacts(r)'
  <2>1. /\ pc'[r] = pc[r] /\ reused'[r] = reused[r] /\ ids'[r] = ids[r]
        /\ listed'[r] = listed[r] /\ snap'[r] = snap[r] /\ listNet'[r] = listNet[r]
    BY <1>5 DEF FetchFails, LInv, StoreTypes
  <2>2. StoreTypes /\ BatchFacts(r)
    BY DEF LInv
  <2>3. QED BY <1>2, <1>3, <2>1, <2>2, FrameKeeps
<1>6. QED BY <1>2, <1>4, <1>5 DEF LInv

\* A step that leaves every fetch alone and lowers no version keeps LInv.
LEMMA FetchesUntouched ==
    ASSUME LInv, UNCHANGED fetchVars, StoreTypes', ChainGrows
    PROVE  LInv'
<1>1. ASSUME NEW r \in Fetches PROVE BatchFacts(r)'
  BY FrameKeeps DEF LInv, fetchVars
<1>2. QED BY <1>1 DEF LInv

\* LInv is inductive: no step of the wallet, of the full nodes or of a
\* network switch breaks what an awaited batch relies on.
LEMMA LInvStep == LInv /\ [Next]_vars => LInv'
<1> SUFFICES ASSUME LInv, [Next]_vars PROVE LInv'
  OBVIOUS
<1>1. ASSUME NEW r \in Fetches, Refresh(r) PROVE LInv'
  <2>1. ChainGrows
    BY <1>1 DEF Refresh, chainVars, ChainGrows, LInv, StoreTypes, ChainObject
  <2>2. QED BY <1>1, <2>1, DispatchLInv DEF Refresh, chainVars, LInv, StoreTypes
<1>2. ASSUME NEW r \in Fetches, MintDemoNFT(r) PROVE LInv'
  <2>1. PICK i \in ObjectIds :
            /\ chain[net][i].ver = 0
            /\ chain' = [chain EXCEPT ![net][i] = [ver |-> 1, owned |-> TRUE]]
    BY <1>2 DEF MintDemoNFT
  <2>2. /\ chain' \in [Networks -> [AllIds -> ChainObject]]
        /\ ChainGrows
    <3>1. [ver |-> 1, owned |-> TRUE] \in ChainObject
      BY DEF ChainObject
    <3>2. chain \in [Networks -> [AllIds -> ChainObject]] /\ net \in Networks
      BY DEF LInv, StoreTypes
    <3>3. [ver |-> 1, owned |-> TRUE].ver >= chain[net][i].ver
      BY <2>1
    <3>4. i \in AllIds
      BY DEF AllIds
    <3>5. QED BY <2>1, <3>1, <3>2, <3>3, <3>4, ChainBump
  <2>3. QED BY <1>2, <2>2, DispatchLInv DEF MintDemoNFT
<1>3. ASSUME NEW r \in Fetches, TransferSuiNFT(r) PROVE LInv'
  <2>1. PICK i \in ObjectIds :
            /\ chain[net][i].ver < MaxVersion
            /\ chain' = [chain EXCEPT ![net][i] =
                           [ver |-> chain[net][i].ver + 1, owned |-> FALSE]]
    BY <1>3 DEF TransferSuiNFT
  <2>2. /\ chain' \in [Networks -> [AllIds -> ChainObject]]
        /\ ChainGrows
    <3>1. chain[net][i].ver \in 0 .. MaxVersion
      BY DEF LInv, StoreTypes, AllIds, ChainObject
    <3>2. [ver |-> chain[net][i].ver + 1, owned |-> FALSE] \in ChainObject
      BY <2>1, <3>1 DEF ChainObject
    <3>3. chain \in [Networks -> [AllIds -> ChainObject]] /\ net \in Networks
      BY DEF LInv, StoreTypes
    <3>4. [ver |-> chain[net][i].ver + 1, owned |-> FALSE].ver >= chain[net][i].ver
      BY <3>1
    <3>5. i \in AllIds
      BY DEF AllIds
    <3>6. QED BY <2>1, <3>2, <3>3, <3>4, <3>5, ChainBump
  <2>3. QED BY <1>3, <2>2, DispatchLInv DEF TransferSuiNFT
<1>4. ASSUME NEW r \in Fetches, ListReply(r) PROVE LInv'
  BY <1>4, ListReplyLInv
<1>5. ASSUME NEW r \in Fetches, BatchReply(r) PROVE LInv'
  BY <1>5, BatchReplyLInv
<1>6. ASSUME NEW r \in Fetches, FetchFails(r) PROVE LInv'
  BY <1>6, FetchFailsLInv
<1>7. CASE SwitchNetwork
  <2>1. EmptyStore \in [AllIds -> Entity \cup {NoObject}]
    BY DEF EmptyStore
  <2>2. StoreTypes'
    BY <1>7, <2>1 DEF SwitchNetwork, ClearForNetworkSwitch, fetchVars, LInv, StoreTypes
  <2>3. ChainGrows
    BY <1>7 DEF SwitchNetwork, ChainGrows, LInv, StoreTypes, ChainObject
  <2>4. QED BY <1>7, <2>2, <2>3, FetchesUntouched DEF SwitchNetwork
<1>8. ASSUME NEW n \in Networks, NEW i \in AllIds, ChainUpdate(n, i) PROVE LInv'
  <2>1. PICK own \in BOOLEAN :
            chain' = [chain EXCEPT ![n][i] = [ver |-> chain[n][i].ver + 1, owned |-> own]]
    BY <1>8 DEF ChainUpdate
  <2>2. chain[n][i].ver \in 1 .. MaxVersion - 1
    BY <1>8 DEF ChainUpdate
  <2>3. [ver |-> chain[n][i].ver + 1, owned |-> own] \in ChainObject
    BY <2>2 DEF ChainObject
  <2>4. /\ chain' \in [Networks -> [AllIds -> ChainObject]]
        /\ ChainGrows
    <3>1. chain \in [Networks -> [AllIds -> ChainObject]]
      BY DEF LInv, StoreTypes
    <3>2. [ver |-> chain[n][i].ver + 1, owned |-> own].ver >= chain[n][i].ver
      BY <2>2
    <3>3. QED BY <2>1, <2>3, <3>1, <3>2, ChainBump
  <2>5. StoreTypes'
    BY <1>8, <2>4 DEF ChainUpdate, sliceVars, fetchVars, LInv, StoreTypes
  <2>6. QED BY <1>8, <2>4, <2>5, FetchesUntouched DEF ChainUpdate
<1>9. CASE UNCHANGED vars
  <2>1. StoreTypes' /\ ChainGrows
    BY <1>9 DEF vars, chainVars, sliceVars, fetchVars, LInv, StoreTypes, ChainGrows, ChainObject
  <2>2. QED BY <1>9, <2>1, FetchesUntouched DEF vars
<1>10. QED BY <1>1, <1>2, <1>3, <1>4, <1>5, <1>6, <1>7, <1>8, <1>9 DEF Next, Respond

\* Spec keeps LInv.
LEMMA LInvHolds == Spec => []LInv
BY LInvInit, LInvStep, PTL DEF Spec

\* When fetch r's batch arrives and both its calls went to one network,
\* every listed object is in the payload, under no older version than
\* listed, and no unlisted object is.
LEMMA BatchPayload ==
    ASSUME LInv, NEW r \in Fetches, pc[r] = "batch", listNet[r] = batchNet[r],
           NEW i \in ObjectIds
    PROVE  /\ (\E o \in reused[r] \cup Existing(r) : o.id = i) <=> listed[r][i] # 0
           /\ \A o \in reused[r] \cup Existing(r) : o.id = i => o.ver >= listed[r][i]
<1>1. /\ reused[r] = Kept(r, listed[r])
      /\ ids[r] = Outdated(r, listed[r]) \cup {SystemId}
      /\ chain[batchNet[r]][i].ver >= listed[r][i]
  BY DEF LInv, BatchFacts
<1>2. /\ listed[r][i] \in 0 .. MaxVersion
      /\ chain[batchNet[r]][i].ver \in 0 .. MaxVersion
  BY DEF LInv, StoreTypes, AllIds, ChainObject
<1>3. i # SystemId
  BY ConstantsAssumption
<1>4. ASSUME NEW o \in reused[r], o.id = i
      PROVE  listed[r][i] # 0 /\ o.ver = listed[r][i]
  <2>1. PICK j \in {k \in ObjectIds : listed[r][k] # 0 /\ k \notin Outdated(r, listed[r])} :
            o = [id |-> j, ver |-> snap[r][j].ver, net |-> snap[r][j].net]
    BY <1>1 DEF Kept
  <2>2. j = i
    BY <1>4, <2>1
  <2>3. QED BY <2>1, <2>2 DEF Outdated, SelectById
<1>5. ASSUME NEW o \in Existing(r), o.id = i
      PROVE  listed[r][i] # 0 /\ o.ver >= listed[r][i]
  <2>1. PICK j \in {k \in ids[r] : chain[batchNet[r]][k].ver # 0} :
            o = [id |-> j, ver |-> chain[batchNet[r]][j].ver, net |-> batchNet[r]]
    BY DEF Existing
  <2>2. j = i
    BY <1>5, <2>1
  <2>3. i \in Outdated(r, listed[r])
    BY <1>1, <1>3, <2>1, <2>2
  <2>4. QED BY <1>1, <2>1, <2>2, <2>3 DEF Outdated
<1>6. ASSUME listed[r][i] # 0 PROVE \E o \in reused[r] \cup Existing(r) : o.id = i
  <2>1. CASE i \in Outdated(r, listed[r])
    <3>1. chain[batchNet[r]][i].ver # 0
      BY <1>1, <1>2, <1>6
    <3>2. [id |-> i, ver |-> chain[batchNet[r]][i].ver, net |-> batchNet[r]] \in Existing(r)
      BY <1>1, <2>1, <3>1 DEF Existing
    <3>3. QED BY <3>2
  <2>2. CASE i \notin Outdated(r, listed[r])
    <3>1. [id |-> i, ver |-> snap[r][i].ver, net |-> snap[r][i].net] \in reused[r]
      BY <1>1, <1>6, <2>2 DEF Kept
    <3>2. QED BY <3>1
  <2>3. QED BY <2>1, <2>2
<1>7. QED BY <1>2, <1>4, <1>5, <1>6

\* setAll stores an entity exactly for the ids the payload names, taken
\* from a payload object with that id.
LEMMA SetAllAt ==
    ASSUME NEW P, \A o \in P : o.ver \in Versions /\ o.net \in Networks,
           NEW i \in AllIds
    PROVE  /\ SetAll(P)[i] # NoObject <=> \E o \in P : o.id = i
           /\ (\E o \in P : o.id = i) => \E o \in P : o.id = i /\ SetAll(P)[i].ver = o.ver
<1>1. CASE \E o \in P : o.id = i
  <2>1. /\ (CHOOSE p \in P : p.id = i) \in P
        /\ (CHOOSE p \in P : p.id = i).id = i
    BY <1>1
  <2>2. SetAll(P)[i] = [ver |-> (CHOOSE p \in P : p.id = i).ver,
                        net |-> (CHOOSE p \in P : p.id = i).net]
    BY <1>1 DEF SetAll
  <2>3. SetAll(P)[i] \in Entity
    BY <2>1, <2>2 DEF Entity
  <2>4. SetAll(P)[i] # NoObject
    BY <2>3, NoObjectAssumption
  <2>5. SetAll(P)[i].ver = (CHOOSE p \in P : p.id = i).ver
    BY <2>2
  <2>6. QED BY <1>1, <2>1, <2>4, <2>5
<1>2. CASE ~\E o \in P : o.id = i
  BY <1>2 DEF SetAll
<1>3. QED BY <1>1, <1>2

\* The step that fulfils fetch r without error after both its calls went
\* to one network is r's BatchReply: no other step ends an awaited batch
\* and leaves the error flag down.
LEMMA FulfilledStep ==
    ASSUME LInv, [Next]_vars, NEW r \in Fetches,
           pc[r] = "batch", pc'[r] = "done", ~error'
    PROVE  BatchReply(r)
<1>1. pc \in [Fetches -> PCs]
  BY DEF LInv, StoreTypes
<1>2. ASSUME NEW r0 \in Fetches, Dispatch(r0) PROVE FALSE
  BY <1>1, <1>2 DEF Dispatch
<1>3. ASSUME NEW r0 \in Fetches, ListReply(r0) PROVE FALSE
  BY <1>1, <1>3 DEF ListReply
<1>4. ASSUME NEW r0 \in Fetches, BatchReply(r0) PROVE BatchReply(r)
  BY <1>1, <1>4 DEF BatchReply
<1>5. ASSUME NEW r0 \in Fetches, FetchFails(r0) PROVE FALSE
  BY <1>5 DEF FetchFails, Rejected
<1>6. QED
  BY <1>2, <1>3, <1>4, <1>5
  DEF Next, Respond, Refresh, MintDemoNFT, TransferSuiNFT, SwitchNetwork,
      ChainUpdate, fetchVars, vars

(***************************************************************************)
(* When a fetch whose two calls went to one network fulfils, the store     *)
(* holds exactly the objects its listing named, none older than listed,   *)
(* however other fetches, transactions, network switches and other        *)
(* parties' transactions ran between its two awaits.                      *)
(***************************************************************************)
THEOREM FulfilledStoreIsListingHolds == Spec => FulfilledStoreIsListing
<1>1. ASSUME LInv, [Next]_vars, NEW r \in Fetches,
             pc[r] = "batch", pc'[r] = "done", ~error', listNet[r] = batchNet[r],
             NEW i \in ObjectIds
      PROVE  /\ entities'[i] # NoObject <=> listed[r][i] # 0
             /\ listed[r][i] # 0 => entities'[i].ver >= listed[r][i]
  <2>1. BatchReply(r)
    BY <1>1, FulfilledStep
  <2>2. entities' = SetAll(reused[r] \cup Existing(r))
    BY <2>1 DEF BatchReply, Fulfilled
  <2>3. \A o \in reused[r] \cup Existing(r) : o.ver \in Versions /\ o.net \in Networks
    BY <1>1, PayloadTyped
  <2>4. /\ (\E o \in reused[r] \cup Existing(r) : o.id = i) <=> listed[r][i] # 0
        /\ \A o \in reused[r] \cup Existing(r) : o.id = i => o.ver >= listed[r][i]
    BY <1>1, BatchPayload
  <2>5. /\ entities'[i] # NoObject <=> \E o \in reused[r] \cup Existing(r) : o.id = i
        /\ (\E o \in reused[r] \cup Existing(r) : o.id = i) =>
              \E o \in reused[r] \cup Existing(r) : o.id = i /\ entities'[i].ver = o.ver
    <3>1. i \in AllIds
      BY DEF AllIds
    <3>2. QED BY <2>2, <2>3, <3>1, SetAllAt
  <2>6. QED BY <2>4, <2>5
<1>2. LInv /\ [Next]_vars =>
        [\A r \in Fetches :
           (pc[r] = "batch" /\ pc'[r] = "done" /\ ~error' /\ listNet[r] = batchNet[r]) =>
              \A id \in ObjectIds :
                 /\ entities'[id] # NoObject <=> listed[r][id] # 0
                 /\ listed[r][id] # 0 => entities'[id].ver >= listed[r][id]]_vars
  BY <1>1
<1>3. QED BY <1>2, LInvHolds, PTL DEF FulfilledStoreIsListing, Spec

=============================================================================
