----------------------------- MODULE SuiObjects -----------------------------
(***************************************************************************)
(* The wallet's sui-objects slice (apps/wallet/.../slices/sui-objects):    *)
(* the entity store of the objects the account owns, the thunk            *)
(* fetchAllOwnedAndRequiredObjects that refreshes it in two RPC round      *)
(* trips, its pending / fulfilled / rejected reducers, the                 *)
(* clearForNetworkSwitch reducer, and the two thunks mintDemoNFT and       *)
(* transferSuiNFT that change the chain and then refresh.                  *)
(*                                                                         *)
(* Several fetches can be in flight at once (createAsyncThunk has no      *)
(* `condition`): each one is a process r in 1..MaxFetches with its own    *)
(* program counter; between its awaits any other step may run.  The      *)
(* full node of each network is the environment: objects owned by the     *)
(* account, with versions that other transactions bump.                   *)
(***************************************************************************)
EXTENDS Integers, FiniteSets

CONSTANTS
    ObjectIds,      \* objects the account may own
    SystemId,       \* SUI_SYSTEM_STATE_OBJECT_ID: shared, always fetched
    Networks,       \* networks the wallet can be switched between
    HasAddress,     \* whether account.address is set
    MaxVersion,     \* versions are 1 .. MaxVersion; 0: the object does not exist
    MaxFetches,     \* fetches dispatched in one behaviour
    MaxChainSteps,  \* transactions of other parties in one behaviour
    NoObject        \* an id with no entity in the store

ASSUME ConstantsAssumption ==
    /\ SystemId \notin ObjectIds
    /\ HasAddress \in BOOLEAN
    /\ MaxVersion \in Nat \ {0}
    /\ MaxFetches \in Nat
    /\ MaxChainSteps \in Nat

AllIds == ObjectIds \cup {SystemId}

Versions == 1 .. MaxVersion

Fetches == 1 .. MaxFetches

\* A SuiObject as the store keeps it: its reference version, and (for the
\* properties) the network it was read from.
Entity == [ver : Versions, net : Networks]

\* NoObject, the entity adapter's missing entry, is no stored object.
ASSUME NoObjectAssumption == NoObject \notin Entity

\* The state of an object on a full node: version (0 if absent), ownership.
ChainObject == [ver : 0 .. MaxVersion, owned : BOOLEAN]

VARIABLES
    chain,       \* chain[n][id]: the object on the full node of network n
    net,         \* the network api.instance talks to
    chainSteps,  \* transactions of other parties so far
    entities,    \* the entity adapter's table: id -> Entity or NoObject
    loading,     \* state.loading
    error,       \* state.error # false
    lastSync,    \* state.lastSync # null
    pc,          \* pc[r]: "idle", "list" (awaiting getObjectsOwnedByAddress),
                 \*        "batch" (awaiting getObjectBatch) or "done"
    snap,        \* snap[r]: the getState() taken when fetch r started
    listNet,     \* listNet[r]: the network fetch r listed the objects on
    listed,      \* listed[r]: id -> version of the listing, 0 if not listed
    reused,      \* reused[r]: stored objects kept because not outdated
    ids,         \* ids[r]: the objectIDs passed to getObjectBatch
    batchNet     \* batchNet[r]: the network the batch was sent to

chainVars == <<chain, net, chainSteps>>
sliceVars == <<entities, loading, error, lastSync>>
fetchVars == <<pc, snap, listNet, listed, reused, ids, batchNet>>
vars == <<chainVars, sliceVars, fetchVars>>

-----------------------------------------------------------------------------
(***************************************************************************)
(* Reducers.                                                               *)
(***************************************************************************)
EmptyStore == [id \in AllIds |-> NoObject]

\* objectsAdapter.setAll(state, payload): the table becomes the payload.
SetAll(payload) ==
    [id \in AllIds |-> IF \E o \in payload : o.id = id
                         THEN LET o == CHOOSE p \in payload : p.id = id
                              IN  [ver |-> o.ver, net |-> o.net]
                         ELSE NoObject]

\* fetchAllOwnedAndRequiredObjects.pending
Pending ==
    /\ loading' = TRUE
    /\ UNCHANGED <<entities, error, lastSync>>

\* fetchAllOwnedAndRequiredObjects.fulfilled
Fulfilled(payload) ==
    /\ entities' = SetAll(payload)
    /\ loading' = FALSE
    /\ error' = FALSE
    /\ lastSync' = TRUE

\* Mutation of Rejected: the error is recorded but loading stays set.
RejectedKeepsLoading ==
    /\ error' = TRUE
    /\ UNCHANGED <<entities, lastSync, loading>>

\* fetchAllOwnedAndRequiredObjects.rejected
Rejected ==
    /\ loading' = FALSE
    /\ error' = TRUE
    /\ UNCHANGED <<entities, lastSync>>

-----------------------------------------------------------------------------
(***************************************************************************)
(* The thunk's payload creator, cut at its awaits.                         *)
(***************************************************************************)

\* dispatch(fetchAllOwnedAndRequiredObjects()): the pending reducer runs,
\* then the creator up to its first await: getState(), and with an address
\* the listing request on the current network; without one it returns [].
Dispatch(r) ==
    /\ pc[r] = "idle"
    /\ \A q \in Fetches : q < r => pc[q] # "idle"
    /\ snap' = [snap EXCEPT ![r] = entities]
    /\ listNet' = [listNet EXCEPT ![r] = net]
    /\ IF HasAddress
         THEN /\ pc' = [pc EXCEPT ![r] = "list"]
              /\ Pending
         ELSE /\ pc' = [pc EXCEPT ![r] = "done"]
              /\ Fulfilled({})
    /\ UNCHANGED <<listed, reused, ids, batchNet>>

\* What getObjectsOwnedByAddress returns on network n: id -> version.
Listing(n) ==
    [id \in AllIds |-> IF id \in ObjectIds /\ chain[n][id].owned
                         THEN chain[n][id].ver ELSE 0]

\* suiObjectsAdapterSelectors.selectById on a state.
SelectById(st, id) == st[id]

\* The filter over the listing: the stored object of the snapshot is kept
\* when its version equals the listed one, otherwise the id is outdated.
Outdated(r, lst) ==
    {id \in ObjectIds : lst[id] # 0 /\
        (SelectById(snap[r], id) = NoObject \/ SelectById(snap[r], id).ver # lst[id])}

\* Mutation of Kept: the objects that are up to date are not carried over.
KeptNone(r, lst) == {}

Kept(r, lst) ==
    {[id |-> id, ver |-> snap[r][id].ver, net |-> snap[r][id].net] :
        id \in {i \in ObjectIds : lst[i] # 0 /\ i \notin Outdated(r, lst)}}

\* The listing arrives: filter against the snapshot, add the system object,
\* and send getObjectBatch to the network api.instance now points at.
ListReply(r) ==
    /\ pc[r] = "list"
    /\ LET lst == Listing(listNet[r])
       IN  /\ listed' = [listed EXCEPT ![r] = lst]
           /\ reused' = [reused EXCEPT ![r] = Kept(r, lst)]
           /\ ids' = [ids EXCEPT ![r] = Outdated(r, lst) \cup {SystemId}]
    /\ batchNet' = [batchNet EXCEPT ![r] = net]
    /\ pc' = [pc EXCEPT ![r] = "batch"]
    /\ UNCHANGED <<chainVars, sliceVars, snap, listNet>>

\* getObjectExistsResponse over the batch: the objects that exist.
Existing(r) ==
    {[id |-> id, ver |-> chain[batchNet[r]][id].ver, net |-> batchNet[r]] :
        id \in {i \in ids[r] : chain[batchNet[r]][i].ver # 0}}

\* The batch arrives: the kept and the fetched objects are the payload of
\* the fulfilled action.
BatchReply(r) ==
    /\ pc[r] = "batch"
    /\ pc' = [pc EXCEPT ![r] = "done"]
    /\ Fulfilled(reused[r] \cup Existing(r))
    /\ UNCHANGED <<chainVars, snap, listNet, listed, reused, ids, batchNet>>

\* Either RPC call rejects: the catch rethrows rejectWithValue(err).
FetchFails(r) ==
    /\ pc[r] \in {"list", "batch"}
    /\ pc' = [pc EXCEPT ![r] = "done"]
    /\ Rejected
    /\ UNCHANGED <<chainVars, snap, listNet, listed, reused, ids, batchNet>>

-----------------------------------------------------------------------------
(***************************************************************************)
(* The NFT thunks: the transaction executes on the current network, then   *)
(* `await dispatch(fetchAllOwnedAndRequiredObjects())`.  A failed          *)
(* transaction only rejects the thunk, which no reducer of this slice      *)
(* handles.                                                               *)
(***************************************************************************)
MintDemoNFT(r) ==
    /\ \E id \in ObjectIds :
         /\ chain[net][id].ver = 0
         /\ chain' = [chain EXCEPT ![net][id] = [ver |-> 1, owned |-> TRUE]]
    /\ Dispatch(r)
    /\ UNCHANGED <<net, chainSteps>>

TransferSuiNFT(r) ==
    /\ \E id \in ObjectIds :
         /\ chain[net][id].owned
         /\ chain[net][id].ver < MaxVersion
         /\ chain' = [chain EXCEPT ![net][id] =
                        [ver |-> @.ver + 1, owned |-> FALSE]]
    /\ Dispatch(r)
    /\ UNCHANGED <<net, chainSteps>>

\* The UI (or polling) dispatches a refresh.
Refresh(r) ==
    /\ Dispatch(r)
    /\ UNCHANGED chainVars

\* clearForNetworkSwitch, dispatched when api.instance is switched to
\* another network.
ClearForNetworkSwitch ==
    /\ error' = FALSE
    /\ lastSync' = FALSE
    /\ entities' = EmptyStore
    /\ UNCHANGED loading

SwitchNetwork ==
    /\ \E n \in Networks \ {net} : net' = n
    /\ ClearForNetworkSwitch
    /\ UNCHANGED <<chain, chainSteps, fetchVars>>

\* A transaction of another party on network n mutates object id: a new
\* version, possibly sent to or away from the account.
ChainUpdate(n, id) ==
    /\ chainSteps < MaxChainSteps
    /\ chain[n][id].ver \in 1 .. MaxVersion - 1
    /\ \E own \in IF id = SystemId THEN {FALSE} ELSE BOOLEAN :
         chain' = [chain EXCEPT ![n][id] = [ver |-> @.ver + 1, owned |-> own]]
    /\ chainSteps' = chainSteps + 1
    /\ UNCHANGED <<net, sliceVars, fetchVars>>

-----------------------------------------------------------------------------
InitChain ==
    {c \in [Networks -> [AllIds -> ChainObject]] :
        \A n \in Networks :
            /\ c[n][SystemId] = [ver |-> 1, owned |-> FALSE]
            /\ \A id \in ObjectIds : c[n][id].ver \in {0, 1}
                                     /\ (c[n][id].owned => c[n][id].ver = 1)}

Init ==
    /\ chain \in InitChain
    /\ net \in Networks
    /\ chainSteps = 0
    /\ entities = EmptyStore
    /\ loading = TRUE
    /\ error = FALSE
    /\ lastSync = FALSE
    /\ pc = [r \in Fetches |-> "idle"]
    /\ snap = [r \in Fetches |-> EmptyStore]
    /\ listNet = [r \in Fetches |-> net]
    /\ listed = [r \in Fetches |-> [id \in AllIds |-> 0]]
    /\ reused = [r \in Fetches |-> {}]
    /\ ids = [r \in Fetches |-> {}]
    /\ batchNet = [r \in Fetches |-> net]

\* The answer to fetch r's pending call.
Respond(r) == ListReply(r) \/ BatchReply(r) \/ FetchFails(r)

Next ==
    \/ \E r \in Fetches : Refresh(r) \/ MintDemoNFT(r) \/ TransferSuiNFT(r)
    \/ \E r \in Fetches : Respond(r)
    \/ SwitchNetwork
    \/ \E n \in Networks, id \in AllIds : ChainUpdate(n, id)

(***************************************************************************)
(* Every RPC call eventually answers or fails (the JSON-RPC client's       *)
(* transport rejects on a network error or timeout); nothing forces a      *)
(* refresh, a transaction or a network switch.                             *)
(***************************************************************************)
Fairness == \A r \in Fetches : WF_vars(Respond(r))

Spec == Init /\ [][Next]_vars /\ Fairness

-----------------------------------------------------------------------------
InFlight(r) == pc[r] \in {"list", "batch"}

TypeOK ==
    /\ chain \in [Networks -> [AllIds -> ChainObject]]
    /\ net \in Networks
    /\ entities \in [AllIds -> Entity \cup {NoObject}]
    /\ loading \in BOOLEAN /\ error \in BOOLEAN /\ lastSync \in BOOLEAN
    /\ pc \in [Fetches -> {"idle", "list", "batch", "done"}]
    /\ reused \in [Fetches -> SUBSET [id : ObjectIds, ver : Versions, net : Networks]]
    /\ ids \in [Fetches -> SUBSET AllIds]

(***************************************************************************)
(* When a fetch whose two calls went to the same network fulfils, the     *)
(* store holds exactly the objects its listing named, none older than      *)
(* listed: objects the filter kept from the snapshot (taken before the     *)
(* first await) and objects fetched by the batch together make up the      *)
(* listing, whatever ran in between.  (Across a network switch the two     *)
(* calls disagree; StoreMatchesNetwork is about that case.)               *)
(***************************************************************************)
FulfilledStoreIsListing ==
    [][\A r \in Fetches :
         (pc[r] = "batch" /\ pc'[r] = "done" /\ ~error' /\ listNet[r] = batchNet[r]) =>
            \A id \in ObjectIds :
               /\ entities'[id] # NoObject <=> listed[r][id] # 0
               /\ listed[r][id] # 0 => entities'[id].ver >= listed[r][id]]_vars

(***************************************************************************)
(* The loading flag is only ever up while some fetch is awaiting an RPC    *)
(* answer, or before the first fetch (the slice starts with loading true): *)
(* every path out of the thunk (fulfilled, rejected, no address) clears    *)
(* it, so the spinner cannot stay on with nothing pending.                *)
(***************************************************************************)
LoadingOnlyWhilePending ==
    loading => \/ \E r \in Fetches : InFlight(r)
               \/ \A r \in Fetches : pc[r] = "idle"

(***************************************************************************)
(* Once a fetch is in flight, the loading flag is eventually cleared: the  *)
(* fulfilled and rejected reducers both reset it, and every RPC call ends. *)
(***************************************************************************)
LoadingEventuallyCleared ==
    \A r \in Fetches : InFlight(r) ~> ~loading

(***************************************************************************)
(* clearForNetworkSwitch empties the store when the wallet moves to        *)
(* another network: the store only ever shows objects read from the        *)
(* network the wallet is on.                                              *)
(***************************************************************************)
StoreMatchesNetwork ==
    \A id \in AllIds : entities[id] # NoObject => entities[id].net = net

(***************************************************************************)
(* A refresh never replaces an object by an older version of itself: each  *)
(* fulfilled fetch stamps lastSync, so what it shows should be at least as *)
(* recent as what was shown before.                                        *)
(***************************************************************************)
StoreNeverRegresses ==
    [][\A id \in AllIds :
         (/\ entities[id] # NoObject /\ entities'[id] # NoObject
          /\ entities[id].net = entities'[id].net)
            => entities'[id].ver >= entities[id].ver]_vars

=============================================================================
