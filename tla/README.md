# TLA+ models of the Move trace adapter, the TypeScript SDK and the wallet

This directory models, model-checks and proves properties of several parts of
the repository under `src/`. All of them are TypeScript:

* **The Move trace-ingestion core.** This is the system `spec.md` describes:
  `move-analyzer/trace-adapter/src/trace_utils.ts` (`readTrace`,
  `processJSONLocation`, `traceValueFromJSON`).
* **prettier-move.** The comment attachment in the `Tree` constructor
  (`prettier-move/src/tree.ts`).
* **The SDK's keypair code.** Derivation paths and key export and import
  (`sdk/typescript/src/cryptography/utils.ts`).
* **The SDK's signature check.** Signature parsing, and `Ed25519PublicKey` with
  its verification (`utils.ts`, `sdk/typescript/src/index.ts`).
* **The SDK's `MockWalletAdapter`** (`index.ts`).
* **The wallet's `sui-objects` slice.** Its fetch thunk and reducers, and the
  `TokensPage` view (`apps/wallet/.../slices/sui-objects/index.ts`).
* **The explorer's `DefaultRpcClient`**
  (`explorer/client/src/utils/api/DefaultRpcClient.ts`).

Everything else is listed in `PROJECT.json` as `not_modelled`, with the
reason. That covers on-chain Move code, React rendering, SQL, shell scripts
and stateless encoders.

`PROJECT.json` holds:

* the components;
* the 12 runs;
* one mutant per property of a passing run;
* the map from every modelling definition to the source lines it translates;
* the findings;
* the hazards;
* the proved theorems.

## 1. Components and how they interact

| Part | Code | Concurrency and faults |
|---|---|---|
| Trace ingestion: EventNormalizer, LifetimeAnalyzer, LocationResolver | `readTrace` loop, l.218-343; `processJSONLocation`, l.349-373 | none: one synchronous loop over the parsed event array |
| ValueDecoder | `traceValueFromJSON`, l.376-394 | none: pure and recursive |
| TraceReader | `readTrace`, l.218-242 (the version field, unknown tags) | none |
| Tree comments | `Tree` constructor | none: one pass per node |
| Key derivation and import | `fromDerivePath`, `isValidPath`, `CKDPriv`, `fromExportedKeypair` | none: independent calls |
| Signature check | `Ed25519Keypair.fromSecretKey` and `signData`; `toSingleSignaturePubkeyPair`; `Ed25519PublicKey.verify` | a serialized signature that may be tampered with in transit |
| MockWalletAdapter | `connect`, `disconnect` | overlapping async calls; the wallet's promises resolve, reject, or answer "denied" |
| sui-objects slice | `fetchAllOwnedAndRequiredObjects`, its reducers, `clearForNetworkSwitch`, the NFT thunks | overlapping thunks, each with two RPC round trips; a network switch and other parties' transactions in between; an RPC may fail |
| TokensPage | the render logic over the slice and the balances selector | re-renders on every store change |
| DefaultRpcClient | the provider cache and `getDataOnTxDigests` | overlapping calls; a batch may fail |

The trace components interact inside one loop. `readTrace` hands the parsed
events to the loop. Each iteration calls `processJSONLocation` and
`traceValueFromJSON` inline and shares the two lifetime `Map`s with them. The
wallet slice and `TokensPage` interact through the redux store: the page is a
function of the store, and the slice's thunks change the store. The SDK's
keypair and public-key classes meet on the raw 32-byte key and the serialized
signature. `SignatureCheck` composes them in one flow, from `fromSecretKey`
through `signData` and transit to `verify`.

## 2. Modules

### `TraceUtils.tla` (ingestion loop) and `TraceReader.tla`

Constants:

* `FrameId`: the frame ids, given as model values;
* `NoFrame`: the `undefined` current frame of an empty stack;
* `NumLocals`, `MaxPc` and `MaxEvents`: the bounds;
* `WellNested`: whether the environment closes only the innermost frame.

The variables are named as in `readTrace`:

* `events`: the canonical output, with values abstracted;
* `frameIDs`: the stack;
* `localLifetimeEnds` and `locaLifetimeEndsMax`: per frame id, a row over the
  slots. A hole is `UNDEFINED`, and `FRAME_LIFETIME` is -1. A JS array's length
  is derived from its highest set entry;
* `consumed`: the raw events handled so far, each with the frame that was on
  top when it was handled.

Each branch of the loop is one action, and each action is the whole branch:

| Action | Branch |
|---|---|
| `OpenFrame` | parameters set to `FRAME_LIFETIME` in the frame's row, which is reused if the id was seen before; then a push |
| `CloseFrame` | `pop()`, with no check of which id is closed |
| `Instruction` | the max-pc update over the row's length |
| `AccessEffect` | a resolved Read or Write: `MarkAlive`, and the emitted Write |
| `DroppedEffect` | an Indexed location outside the current frame |
| `IgnoredEffect` | Push and Pop |

`TraceReader` extends the loop with two things `readTrace` ignores: the
file's `version`, and events with unknown tags. Those events are skipped.

### `ValueDecoder.tla`

`traceValueFromJSON` is applied to what `JSON.parse` makes of the file.

* Numbers are rounded to doubles with `Precision` significand bits (53 in JS;
  4 in the run, so that a small integer is already unsafe). `String` prints
  the rounded value.
* Arrays are mapped.
* Compounds keep the `Object.entries` order of their fields, with integer-like
  keys first. The type and variant are copied.

The `decode` run compares the decoder against a reference definition of the
canonical value. This module is TLC only: it uses RECURSIVE operators.

### `TreeComments.tla`

The `Tree` constructor runs these phases in order:

1. wrap the children;
2. `shrinkNewlines`;
3. the trailing-comment pass, one child at a time;
4. the leading-comment pass, one child at a time, walking back over the
   siblings above it;
5. the filter of used comments.

Each phase is a step of its own, with a phase and an index as state. A child
is abstracted to its kind.

### `KeyDerivation.tla`

A path is kept as its head plus, per segment, its digits and its number of
`'` marks. The module models:

* `isValidPath`: the regular expression, then the `replace`/`isNaN` test;
* `parseInt`;
* the `+ 0x80000000` offset;
* `writeUInt32BE`, which throws a RangeError above `2^Width - 1`;
* the mnemonic normalisation. A mnemonic is kept as the whitespace before
  and after it, its words (letters and whether they have capitals), and the
  length of each whitespace run between words. `Normalize` drops the outer
  whitespace (`trim`), takes the words (`split(/\s+/)`), lower-cases them
  and joins them with single spaces. `Phrase`, which the property compares,
  is the intended meaning: the words' letters only;
* the CKDPriv chain;
* `fromExportedKeypair`, including the stripping of a legacy 64-byte Ed25519
  key.

HMAC-SHA512 is an injective tuple. `Width` is 32 in the code and 11 in the
runs. The hardened offset is then 1024 and the largest index 2047, so the
mandatory `44'` and `784'` (and `444'`) fit, as they do in 32 bits, and the
standard path `m/44'/784'/0'/0'/0'` derives. The last segment takes the
values 0, 1023 (the largest that fits, at exactly 2047), 1024 = 2^(Width-1)
(the smallest that overflows, the counterpart of 2^31) and 2048, which a
wrapping write would alias to 0.

### `SignatureCheck.tla`

One client flow runs through the stages key, sign, send, parse, verify and done:

1. `fromSecretKey`, with its "sui validation" self-test unless
   `skipValidation`;
2. `signData`;
3. transit, which may deliver the honest serialized signature, another flag,
   another public key, a 1-of-1 multisig, or a legacy multisig;
4. `toSingleSignaturePubkeyPair`;
5. `new Ed25519PublicKey(bytes)`, which throws unless the key is 32 bytes;
6. `.verify`, which checks the flag and the embedded key.

nacl is modelled by what a signature binds: the message, the seed, and the
public half it was made with. `NoValueAssumption` says that `NoValue`, the
value of a step not yet taken, is neither a public key nor a `verify` result.

### `WalletAdapter.tla`

Each `connect()` call is a process with a counter: idle, then awaiting
`requestPermissions`, then awaiting `hasPermissions`, then done. The variables
`connecting` and `connected` are the adapter's fields. `perm` is what the
wallet granted. `disconnect()` can run at any time.

### `SuiObjects.tla`

* The chain of each network is environment state. Other parties'
  transactions bump versions and move ownership.
* Each fetch `r` is a process with a `pc`. Its first await is the listing and
  its second is `getObjectBatch`.
* It keeps the `getState()` snapshot taken before the first await, and the
  network each request was sent to.
* The reducers `pending`, `fulfilled` (`setAll`), `rejected` and
  `clearForNetworkSwitch` are operators on the slice variables. Each thunk step
  includes the reducer it dispatches.

### `TokensPage.tla`

The store as the page sees it:

* the balance object's keys, in insertion order, and an amount per key;
* `loading`, `error` and `showError`.

`activeCoinType` and what the page renders are operators on that state. One
action, `Sync`, is any store update.

### `RpcClient.tla`

* `defaultRpcMap` is a variable, and a provider is created once per network.
* A `getDataOnTxDigests` call runs in two steps:
  1. up to its await: the provider is cached, and the deduplicated digests
     are sent;
  2. when the batch settles: each effect is mapped to a row (null for a
     certificate with more than one transaction), the nulls are filtered out,
     and the rows are sorted by `seq`, descending and stable.
* A batch may fail instead.

`ProviderCache.tla` is what `DefaultRpcClient(network)` promises, with the
counter and the map left out. The first call for a network caches a provider
that no other network has (`Get`). Later calls return the cached provider and
change nothing. `RpcClient` implements it: the instance `PC` reads `rpcMap` as
the cache and numbers providers `1 .. Cardinality(Networks)` in the order they
are built. `NoProviderAssumption` says that `NoProvider` is not a number, that
the networks are finitely many, and that every request names one of them.

`deduplicate` lives in `searchUtil`, which is not in the repository. It is
modelled as its name and its use say: the first occurrence of each digest is
kept.

## 3. Runs

| Run | cfg | Expect | Properties |
|---|---|---|---|
| `core` | `MC_TraceUtils.cfg` | pass | `TypeOK`, `EndOfLifeIsMaxPc`, `LifetimeCoversAccesses`, `FrameStackMatchesEvents`, `ClosedFrameRowFinal` |
| `decode` | `MC_ValueDecoder.cfg` | pass | `DecodeMatchesCanonical` |
| `objects` | `MC_SuiObjects.cfg` | pass | `LoadingOnlyWhilePending`, `FulfilledStoreIsListing`, `LoadingEventuallyCleared` |
| `tree_comments` | `MC_TreeComments.cfg` | pass | `NoCommentTwice`, `CommentsKept`, `OwnLineCommentLeads` |
| `wallet_adapter` | `MC_WalletAdapter.cfg` | pass | `ConnectingEventuallyCleared` |
| `key_derivation` | `MC_KeyDerivation.cfg` | pass | `SameKeyIffSameWordsAndIndices`, `ImportRestoresKey` |
| `signatures` | `MC_SignatureCheck.cfg` | pass | `VerifySound`, `RoundTripVerifies` |
| `rpc_rows` | `MC_RpcClient.cfg` | pass | `RowsOnePerTransaction`, `ImplementsProviderCache` |
| `write_location` | `MC_TraceUtils_write.cfg` | violation | `WritesNameWrittenSlot` |
| `objects_network` | `MC_SuiObjects_network.cfg` | violation | `StoreMatchesNetwork` |
| `wallet_permission` | `MC_WalletAdapter_permission.cfg` | violation | `ConnectedOnlyWithPermission` |
| `key_derivation_range` | `MC_KeyDerivation_range.cfg` | violation | `ValidPathDerives` |

### What the passing runs show, and why the bounds are enough

**`core`** (about 260 thousand states):

* Bounds: two frame ids, symmetric, because the code only compares them;
  two local slots; pcs 0..2; traces of 5 raw events.
* Two ids give nested calls and an Indexed effect into a non-current frame.
* Two slots give a hole below a live slot.
* Three pcs give a backward jump to a pc between two others.
* Five events give open, access, instruction, access, then a lower instruction.
  That is the case that breaks a lifetime whose maximum is reset.
* Larger bounds multiply the states about fifteen-fold per event, because
  `consumed` makes every prefix distinct.

**`decode`**: every JSON value of depth 2, with up to two fields or elements
per level. This covers booleans, strings, safe and unsafe integers, structs and
enum variants. Any value whose integers are all safe decodes to its canonical
value: shape, field order, type and variant are preserved.

**`objects`** (about 655 thousand states): two networks, one owned object
with versions 1..3, two fetches in flight, NFT transactions, network switches,
and two foreign transactions. The properties:

* a fulfilled fetch whose two calls went to one network stores exactly the
  objects its listing named, none older. Across a switch the calls disagree,
  which is the `objects_network` finding;
* `loading` is up only while a fetch is pending, or before any was
  dispatched;
* once a fetch is in flight, `loading` is eventually cleared.

A second object, even with versions 1..2 and one foreign transaction, gives
about 3 million states and takes 5 minutes without coverage.

**`tree_comments`** (about 294 thousand states): every children list of up to
six children of the five kinds. The properties:

* each comment is attached at most once;
* no comment is lost;
* leading comments stay in source order;
* an own-line comment leads the node below it.

**`wallet_adapter`**: three overlapping `connect()` calls and `disconnect()`.
Whatever the wallet answers, `connecting` is eventually cleared.

**`key_derivation`** (about 172 thousand states): two calls chosen from 48
paths, two phrases in 6 spellings (a capital or not, tight or padded with
runs of whitespace) and 5 exports. The properties:

* two derivations give the same key exactly when they have the same phrase
  and the same path numbers. So `0'` and `00'`, or `"W1 w2"` and
  `"  w1   w2  "`, derive the same key. States where both calls derive are
  reached (from the standard path among others). Leaving out the
  `toLowerCase` breaks it, and so would a write that wraps the index;
* current and legacy exports restore the keypair.

**`signatures`**:

* a tampered signature never verifies under a key that did not make it, or
  for another message;
* an intact signature from a validated keypair always verifies.

**`rpc_rows`** (about 1.5 million states): two overlapping calls over every
list of up to three `[seq, digest]` pairs, with repeated digests. The rows have
no duplicate transaction, each row is a listed pair, and the rows are newest
first. The two calls may name the same network, so a cached provider is both
built and reused. `ImplementsProviderCache` checks every step against
`ProviderCache`.

### Mutants

Each property of a passing run is broken by a plausible bug in the definition
it rests on. The full list is in `PROJECT.json`. Some examples:

* an end of `pc + 1`;
* `shift()` instead of `pop()`;
* reversed `Object.entries`;
* `rejected` not clearing `loading`;
* the filter keeping nothing;
* the leading-comment walk passing used comments;
* the trailing target not required to be named;
* `finally` only on the success path;
* the index wrapped instead of refused;
* the legacy key not stripped;
* `verify` trusting the signature's embedded key;
* the self-test result ignored;
* no deduplication;
* `DefaultRpcClient` not consulting the map.

### Findings

* **`write_location`** (code bug, `trace_utils.ts:329`): a Write through a
  reference into a caller's local is emitted at the *current* frame's local
  with the same index.
* **`objects_network`** (code bug, `sui-objects/index.ts:194`): a fetch sent
  before a network switch fulfils after `clearForNetworkSwitch`. It refills the
  cleared store with objects from the old network.
* **`wallet_permission`** (code bug, `index.ts:449`): `connect()` ignores the
  answers of `requestPermissions` and `hasPermissions`. A user who denies the
  request still leaves the adapter `connected`.
* **`key_derivation_range`** (code bug, `utils.ts:275`): `isValidPath` accepts
  segments of 2^31 and above. `fromDerivePath` then throws a RangeError from
  `writeUInt32BE` instead of "Invalid derivation path". TLC's trace, with an
  11-bit index, is `m/44'/784'/0'/0'/1024'`: the last segment is
  2^(Width-1). `m/44'/784'/0'/0'/1023'` derives.

### Further configurations

These cfgs are kept beside the modules and run with the same command. They
are not among the runs `PROJECT.json` lists:

| cfg | Result | Shows |
|---|---|---|
| `MC_TraceUtils_nested.cfg` | pass | the `core` properties on one local and 6 events: a callee's instructions never end a caller's local written through a reference |
| `MC_TraceUtils_close.cfg` | violation | `FrameStackMatchesEvents` with `WellNested = FALSE`: the code pops whatever id a CloseFrame names; spec section 7 makes a mismatch fatal |
| `MC_TraceUtils_loop.cfg` | violation | `LoopBodyLifetime`: spec section 8's loop rule; the code ends a local at the first instruction after its last access above the recorded maximum |
| `MC_TraceUtils_reuse.cfg` | violation | `EndFromCurrentActivation`: a reused frame id inherits the previous activation's row and maxima (l.252) |
| `MC_TraceReader_version.cfg`, `MC_TraceReader_tag.cfg` | violation | `version` is never read, and unknown tags are skipped; spec section 7 makes both errors |
| `MC_ValueDecoder_precision.cfg` | violation | `NoPrecisionLoss`: integers above 2^53 are rounded by `JSON.parse` before `String` |
| `MC_SuiObjects_regress.cfg` | violation | `StoreNeverRegresses`: an older fetch fulfilling last replaces newer objects by older versions |
| `MC_WalletAdapter_nowallet.cfg` | violation | `ConnectingEventuallyCleared` without the extension: `connecting` is set before the `if (window.suiWallet)` and never cleared |
| `MC_TokensPage.cfg` | pass | `EmptyWalletOnlyWhenEmpty` |
| `MC_TokensPage_send.cfg` | violation | `SendOnlyWithBalance`: with no SUI, Send is enabled for the first other coin type even when its balance is zero, against the comment above `activeCoinType` |

## 4. Fairness

Fairness is assumed only for what the environment guarantees:

* **WalletAdapter**: each pending `connect()` call's next promise settles
  (`WF_vars(Settle(c))`). The wallet answers `hasPermissions` at once, and
  `requestPermissions` settles when the user answers or closes the popup.
* **SuiObjects**: each pending RPC answers or fails (`WF_vars(Respond(r))`),
  because the JSON-RPC transport rejects on error or timeout.

The dapp's and the user's own calls are not assumed to happen: no `connect`,
refresh, transaction or network switch is forced. The other modules have no
liveness property.

## 5. Proofs (TLAPS)

| Module | Theorem | Statement |
|---|---|---|
| `TraceUtils_proofs` | `TypeCorrect` | `Spec => []TypeOK` |
| `TraceUtils_proofs` | `EndOfLifeIsMaxPcHolds` | `Spec => []EndOfLifeIsMaxPc` |
| `TraceUtils_proofs` | `LifetimeCoversAccessesHolds` | `Spec => []LifetimeCoversAccesses` |
| `TraceUtils_proofs` | `FrameStackMatchesEventsHolds` | `WellNested => (Spec => []FrameStackMatchesEvents)` |
| `TraceUtils_proofs` | `ClosedFrameRowFinalHolds` | `WellNested => (Spec => ClosedFrameRowFinal)` (action property) |
| `SuiObjects_proofs` | `LoadingOnlyWhilePendingHolds` | `Spec => []LoadingOnlyWhilePending` |
| `SuiObjects_proofs` | `FulfilledStoreIsListingHolds` | `Spec => FulfilledStoreIsListing` (action property) |
| `KeyDerivation_proofs` | `ImportRestoresKeyHolds` | `Spec => []ImportRestoresKey` |
| `KeyDerivation_proofs` | `SameKeyIffSameWordsAndIndicesHolds` | `Spec => []SameKeyIffSameWordsAndIndices` |
| `SignatureCheck_proofs` | `VerifySoundHolds` | `Spec => []VerifySound` |
| `SignatureCheck_proofs` | `RoundTripVerifiesHolds` | `Spec => []RoundTripVerifies` |
| `RpcClient_proofs` | `ImplementsProviderCacheHolds` | `Spec => PC!Spec` (refinement) |
| `RpcClient_proofs` | `OneProviderPerNetworkHolds` | `Spec => []PC!OneProviderPerNetwork` |

**`TypeCorrect`** (`TraceUtils_proofs`) is proved by induction over the
actions, with lemmas on the current frame, on popping and on `Consume`. The
assumptions are `NoFrame \notin FrameId` and natural-number bounds.

**`EndOfLifeIsMaxPcHolds`** (`TraceUtils_proofs`) uses an invariant that is
inductive together with `TypeOK`. `Instruction` gives the end and the maximum
of the same slots the same pc. The other actions store only `FRAME_LIFETIME`,
which is not a pc.

**`LifetimeCoversAccessesHolds`** (`TraceUtils_proofs`) states facts about
the `consumed` history through constant-level copies of `MakesAlive`,
`RunsIn` and `FirstRunAfter` (`MA`, `RI`, `FRA`). These copies apply to
`consumed` and to `consumed'` alike. The inductive invariant `CInv` gives
`SlotFacts` for every frame and slot. Once an event has made the slot alive:

* its end is never a hole;
* its end is `FRAME_LIFETIME` while no instruction of its frame has run
  since;
* its recorded maximum is a pc no lower than the pc of the first
  instruction of its frame after that event.

The third fact is the strengthening. The property alone is not inductive.
An instruction moves an end that is alive to its pc only when that pc
exceeds the maximum. So a later pass through a loop keeps the end above the
first run only because the maximum already was. The property then follows
from `CInv`, from `EndOfLifeIsMaxPc` (an end that is a pc equals the
maximum) and from `TypeOK`.

There is one lemma per kind of appended event:

* `QuietKeeps` covers an event that neither runs in the frame nor touches
  the slot;
* `MakerKeeps` covers an `OpenFrame` or a resolved access of the slot;
* `RunKeeps` covers an instruction of the frame, in both branches of the
  loop's test.

**`FrameStackMatchesEventsHolds`** (`TraceUtils_proofs`) assumes
`WellNested`: every `CloseFrame` closes the innermost open frame. Without it
the property fails: `MC_TraceUtils_close.cfg` (section 3) finds the trace.
The inductive invariant `FInv` has three conjuncts:

* `LastFacts`: for every frame and each of `OpenFrame` and `CloseFrame`, the
  value of `LastEventOf` is a position that names that frame with no later
  one (`IsLast`), or 0 when there is none. Proving that such a last position
  exists would need induction over the event sequence, which the provers
  cannot instantiate. So the invariant carries it, and appending an event
  keeps it (`LastInAppend`);
* `NoDup`: no frame id is twice on the stack. `OpenFrame` pushes only a frame
  that is not on the stack. So popping the top leaves every frame below it
  open;
* `StackMatches`: the property itself, restated over the constant-level
  `LastIn` so that it can be applied to the primed events and stack.

There is one lemma per kind of step. `OpenFrameKeeps` and `CloseFrameKeeps`
cover the frame events. `StackSteady` covers instructions and effects, which
emit no frame event and leave the stack alone. `PopLen` gives what `pop()`
leaves on a non-empty stack.

**`ClosedFrameRowFinalHolds`** (`TraceUtils_proofs`) also assumes
`WellNested`. It rests on `FInv` in the states before and after a step. A
frame that the events leave closed in both states is on the stack in
neither. `Instruction` writes only the row of the top of the stack. An access
writes only the row of a frame on the stack. `OpenFrame(f)` would put `f` on
the stack. So no step touches the row (`RowFinalKeeps`).

**`LoadingOnlyWhilePendingHolds`** (`SuiObjects_proofs`) uses the inductive
invariant `IInv`: the property plus the type of `pc`, which the `EXCEPT`
steps need. The lemmas are:

* a step that moves a fetch into flight preserves the property, whatever it
  does to `loading` (`NowInFlight`);
* a step that clears `loading` preserves it (`LoadingCleared`);
* `Dispatch`, with or without an address, preserves it (`DispatchKeeps`).

The proof has one step per action. It holds for every set of objects and
networks, every version bound and any number of concurrent fetches.

**`FulfilledStoreIsListingHolds`** (`SuiObjects_proofs`) rests on the
inductive invariant `LInv` (`LInvHolds`). Its type part, `StoreTypes`, gives
the chain, the store, the snapshots and the listings their types. Its second
part, `BatchFacts(r)`, holds for every fetch `r` that awaits its batch:

* `reused[r]` is still `Kept` of its listing against its snapshot;
* `ids[r]` is still `Outdated` plus the system object;
* no object's version on the listed network is below the listed one.

The property alone is not inductive. It speaks only of the step that ends
the batch, and that step needs what `ListReply` stored earlier. The third
fact needs versions on a full node never to go down (`ChainGrows`). The NFT
thunks and other parties' transactions only create objects at version 1 or
bump a version (`ChainBump`). Other fetches' steps change only their own
entries (`FrameKeeps`). Then `FulfilledStep` shows that the only step ending
an awaited batch without an error is that fetch's `BatchReply`.
`BatchPayload` shows that its payload names exactly the listed objects, at
no older version. An outdated object still exists on the batch's network,
since its version there is at least the listed one, which is positive.
`SetAllAt` gives what `setAll` stores. The theorem uses
`NoObjectAssumption`: the missing-entry marker `NoObject` is no entity. TLC
evaluates that assumption on every `MC_SuiObjects` run.

**`ImportRestoresKeyHolds`** (`KeyDerivation_proofs`) rests on `IInv`: the
outcomes are either not yet computed or are those of the chosen calls. The
lemma `ImportOutcome` does the arithmetic. A key of 32 bytes is one block, and
one of 64 bytes is two. `SubSeq(k, 1, 1) = <<k[1]>>` follows from
`SubSeqRecursiveFirst` and `SubSeqEmpty`. The proof holds for every index
width. It relies on `ExportAssumption`: the schemas are among those the code
knows, plus an unknown one, and a private key is a sequence. TLC checks this
assumption on every run of `MC_KeyDerivation`.

**`SameKeyIffSameWordsAndIndicesHolds`** (`KeyDerivation_proofs`) uses the
same `IInv`, which is proved inductive once as `IInvHolds`. It is argued in
four steps:

* `DeriveOutcome`: a `fromDerivePath` call that returns a keypair had a path
  of exactly five segments. Its seed is the explicit chain
  `<<<<...<<MasterKey(Normalize(m)), I[1]>>, ...>>, I[5]>>` of the path's
  indices `I`. The `reduce` is a recursive function over `0 .. Len(idxs)`.
  `DeriveKeyFive` unrolls it for length five: it exhibits the function as a
  witness and evaluates every solution of the defining equation.
* Two chains are equal exactly when their master keys and their five
  indices are equal (tuples are injective), and `MasterKey` is injective.
* `NormalizeInjective`: two mnemonics normalise to the same string exactly
  when they have the same phrase. The normalised string keeps each word's
  letters in order and fixes its case and all whitespace.
* `IndicesInjective`: adding the hardened offset to a natural number is
  injective. So the indices agree exactly when the segments' numbers do.

It relies on `DerivePathAssumption`, which is stated in `KeyDerivation`. It
says that the hardened offset `2^(Width-1)` and every segment's `ParseInt`
are natural numbers, and that a path's segments form a sequence. The first
needs exponentiation and the second induction over the digits. The installed
backends have neither. So TLC evaluates these facts on every run of
`MC_KeyDerivation`, and the theorem holds for every width and every set of
calls that satisfies them.

**`VerifySoundHolds` and `RoundTripVerifiesHolds`** (`SignatureCheck_proofs`)
share one inductive invariant, `IInv`, stated stage by stage:

* once `fromSecretKey` has succeeded, the keypair is one nacl builds, and
  unless `skipValidation` was set it passed its self-test;
* once `signData` has run, `sig` is the signature of `signedMsg`;
* whatever arrives carries `sig`: in its signature field, or in each member
  of a decodable multisig (`Carries`);
* an honest wire is picked as it is;
* before the end there is no result, and at the end of an honest run the
  result is `Verify` applied to the picked values.

`VerifySound` alone is not inductive. It says nothing about what the wire
carries before `verify` runs, and that is what the step needs. The lemmas are:

* `VerifyValid`: a true answer of `Verify` pins the key to the signing seed
  and the message to the signed one;
* `HonestVerifies`: the self-test makes the keypair check its own signatures;
* `ParsedLegacy`, `ParsedMultiSig`, `ParsedSingle` and `ParsedUnsupported`:
  what `toParsedSignaturePubkeyPair` returns for each flag. Its `CASE` arms
  are mutually exclusive, as the code's branches are;
* one lemma per action.

The proofs hold for every set of seeds and messages. They rely on
`NoValueAssumption`.

**`ImplementsProviderCacheHolds`** (`RpcClient_proofs`) follows the usual
refinement pattern. `Init` maps to `PC!Init`, and under `IInv` each step maps
to a `Get` or to a stutter. `IInv` says:

* the providers in the map are numbered `1 .. made`;
* `made` is the number of cached networks;
* no two networks share a provider.

A cache miss builds provider `made + 1`. That number is in no network's entry,
and it is at most `Cardinality(Networks)`, by `FS_Subset` and `FS_AddElement`
from `FiniteSetTheorems`. So `DefaultRpcClient` never builds more providers
than there are networks. A cache hit and a settling batch leave the map alone.
`OneProviderPerNetworkHolds` is the last conjunct of the same `IInv`. The
proofs hold for every finite set of networks and any interleaving of calls.

What is only model-checked:

* `FrameStackMatchesEvents` and `ClosedFrameRowFinal` for traces that are
  not well nested. `FrameStackMatchesEvents` fails there, as
  `MC_TraceUtils_close.cfg` shows;
* the tree-comment properties (`NoCommentTwice`, `CommentsKept`,
  `OwnLineCommentLeads`). Each rests on the children list having no
  repeated position after `ShrinkNewlines` and the final filter, both
  `SelectSeq`. That needs induction over `SelectSeq`, for which there is no
  library theorem. `InSourceOrder` also needs rank facts about `CHOOSE`
  over cardinalities;
* `RowsOnePerTransaction` (see below);
* the liveness properties (`LoadingEventuallyCleared`,
  `ConnectingEventuallyCleared`). The prover does not handle liveness or
  `ENABLED`.

Some properties are out of the prover's reach altogether:

* **`ValueDecoder`**: it is recursive, and what a recursive definition
  computes for every input needs induction over data, which the installed
  backends cannot instantiate.
* **The `RowsOnePerTransaction` sort**: it needs `SelectSeq` and rank-sort
  facts that have no library theorems.
* **`ParseInt` and `2^(Width-1)` being natural numbers**: they need induction
  over the digits and exponentiation. `DerivePathAssumption` carries them,
  and TLC checks it.

## 6. Not modelled

* **Reading the file and JSON text parsing.** This is I/O; only the numbers'
  rounding is modelled.
* **The debug adapter that consumes the canonical events.**
* **`publicKeyFromSerialized` and the ZkLogin branch.**
* **`toSuiAddress`.** It is hashing and formatting, and no property tells
  addresses apart beyond their key.
* **The wallet adapter's account and signing calls.**
* **React rendering.**
* **On-chain Move packages, compiler test inputs, SQL migrations and shell
  scripts.**

`PROJECT.json` gives the reason for each, per component.
