----------------------- MODULE KeyDerivation_proofs -----------------------
(***************************************************************************)
(* Proofs about fromExportedKeypair and fromDerivePath, for every index   *)
(* width, every set of seeds and every set of calls the module's           *)
(* assumptions allow.                                                      *)
(***************************************************************************)
EXTENDS KeyDerivation, SequenceTheorems, TLAPS

USE WidthAssumption, ExportAssumption, DerivePathAssumption

\* The calls the property speaks of: an export of a known schema whose key
\* is 32 bytes, or a legacy 64-byte Ed25519 key.
Restorable(c) ==
    LET e == c.exported
    IN  /\ c.fn = "fromExportedKeypair"
        /\ e.schema \in Schemes \ {"unknown"}
        /\ \/ ByteLength(e.privateKey) = PRIVATE_KEY_SIZE
           \/ e.schema = "ED25519" /\ ByteLength(e.privateKey) = LEGACY_PRIVATE_KEY_SIZE

\* A key of 32 bytes is one block, one of 64 bytes two.
LEMMA OneBlock ==
    ASSUME NEW n \in Nat, 32 * n = 32
    PROVE  n = 1
OBVIOUS

LEMMA TwoBlocks ==
    ASSUME NEW n \in Nat, 32 * n = 64
    PROVE  n = 2
OBVIOUS

(***************************************************************************)
(* One call: such an export is imported as the keypair of its schema and  *)
(* of its first block, the seed.                                           *)
(***************************************************************************)
LEMMA ImportOutcome ==
    ASSUME NEW c \in Calls, Restorable(c)
    PROVE  Outcome(c) = Keypair(c.exported.schema, c.exported.privateKey[1])
<1> DEFINE e == c.exported
           k == e.privateKey
<1>1. k \in Seq({k[i] : i \in DOMAIN k})
  BY DEF Restorable
<1>2. e.schema \in {"ED25519", "Secp256k1", "Secp256r1"}
  BY DEF Restorable
<1>6. Len(k) \in Nat
  BY <1>1
<1>3. CASE ByteLength(k) = PRIVATE_KEY_SIZE
  <2>1. Len(k) = 1
    <3>1. 32 * Len(k) = 32
      BY <1>3 DEF ByteLength, PRIVATE_KEY_SIZE
    <3>2. QED BY <1>6, <3>1, OneBlock
  <2>2. PureSecretKey(k) = k
    BY <2>1, <1>1 DEF PureSecretKey, ByteLength, LEGACY_PRIVATE_KEY_SIZE
  <2>3. FromSecretKey(e.schema, k) = Keypair(e.schema, k[1])
    BY <1>3 DEF FromSecretKey
  <2>4. QED BY <1>2, <2>2, <2>3 DEF Outcome, Restorable, FromExportedKeypair
<1>4. CASE e.schema = "ED25519" /\ ByteLength(k) = LEGACY_PRIVATE_KEY_SIZE
  <2>1. Len(k) = 2
    <3>1. 32 * Len(k) = 64
      BY <1>4 DEF ByteLength, LEGACY_PRIVATE_KEY_SIZE
    <3>2. QED BY <1>6, <3>1, TwoBlocks
  <2>2. PureSecretKey(k) = <<k[1]>>
    <3>1. PureSecretKey(k) = SubSeq(k, 1, 1)
      BY <1>4 DEF PureSecretKey, PRIVATE_KEY_SIZE
    <3>2. SubSeq(k, 1, 1) = <<k[1]>> \o SubSeq(k, 2, 1)
      BY <1>1, <2>1, SubSeqRecursiveFirst
    <3>3. SubSeq(k, 2, 1) = << >>
      BY SubSeqEmpty
    <3>4. <<k[1]>> \o << >> = <<k[1]>>
      OBVIOUS
    <3>5. QED BY <3>1, <3>2, <3>3, <3>4
  <2>3. FromSecretKey("ED25519", <<k[1]>>) = Keypair("ED25519", k[1])
    BY DEF FromSecretKey, ByteLength, PRIVATE_KEY_SIZE
  <2>4. QED BY <1>4, <2>2, <2>3 DEF Outcome, Restorable, FromExportedKeypair
<1>5. QED BY <1>3, <1>4 DEF Restorable

\* The inductive invariant: the calls are among Calls, and the outcomes are
\* not yet computed or are the outcomes of those calls.
IInv ==
    /\ call \in Calls \X Calls
    /\ out = << >> \/ out = <<Outcome(call[1]), Outcome(call[2])>>

\* IInv holds in every state: Run computes the outcomes of the calls made.
LEMMA IInvHolds == Spec => []IInv
<1>1. Init => IInv
  BY DEF Init, IInv
<1>2. IInv /\ [Run]_vars => IInv'
  BY DEF IInv, Run, vars
<1>3. QED BY <1>1, <1>2, PTL DEF Spec

-----------------------------------------------------------------------------
(***************************************************************************)
(* fromExportedKeypair restores every current or legacy export: for every  *)
(* width of the index and every choice of calls, the keypair it returns   *)
(* is the one of the export's schema and seed; the public half of a       *)
(* legacy Ed25519 key is stripped, never taken for the seed.              *)
(***************************************************************************)
THEOREM ImportRestoresKeyHolds == Spec => []ImportRestoresKey
<1>1. IInv => ImportRestoresKey
  <2> SUFFICES ASSUME IInv, out # << >>, NEW j \in 1 .. 2,
                      Restorable(call[j])
               PROVE  out[j] = Keypair(call[j].exported.schema,
                                       call[j].exported.privateKey[1])
    BY DEF ImportRestoresKey, Restorable
  <2>1. call[j] \in Calls
    BY DEF IInv
  <2>2. out[j] = Outcome(call[j])
    BY DEF IInv
  <2>3. QED BY <2>1, <2>2, ImportOutcome
<1>2. QED BY <1>1, IInvHolds, PTL


-----------------------------------------------------------------------------
\* The key CKDPriv reaches from k along five indices.
Chain(k, I) == <<<<<<<<<<k, I[1]>>, I[2]>>, I[3]>>, I[4]>>, I[5]>>

(***************************************************************************)
(* The reduce of fromDerivePath over a five-segment path, unrolled.  The   *)
(* recursive function exists (W below is one), and any function meeting   *)
(* its defining equation has the same value at 5; no induction is needed *)
(* for a fixed length.                                                     *)
(***************************************************************************)
LEMMA DeriveKeyFive ==
    ASSUME NEW S, NEW k, NEW idxs \in Seq(S), Len(idxs) = 5
    PROVE  DeriveKey(k, idxs) = Chain(k, idxs)
<1> DEFINE F(g) == [j \in 0 .. Len(idxs) |-> IF j = 0 THEN k ELSE <<g[j - 1], idxs[j]>>]
           g1 == <<k, idxs[1]>>
           g2 == <<g1, idxs[2]>>
           g3 == <<g2, idxs[3]>>
           g4 == <<g3, idxs[4]>>
           W == [j \in 0 .. 5 |-> IF j = 0 THEN k ELSE IF j = 1 THEN g1 ELSE IF j = 2 THEN g2
                                  ELSE IF j = 3 THEN g3 ELSE IF j = 4 THEN g4
                                  ELSE Chain(k, idxs)]
<1>1. W = F(W)
  BY DEF W, Chain
<1>2. ASSUME NEW g, g = F(g)
      PROVE  g[5] = Chain(k, idxs)
  <2>1. g = [j \in 0 .. 5 |-> IF j = 0 THEN k ELSE <<g[j - 1], idxs[j]>>]
    BY <1>2
  <2>2. g[0] = k
    BY <2>1
  <2>3. g[1] = g1
    BY <2>1, <2>2
  <2>4. g[2] = g2
    BY <2>1, <2>3
  <2>5. g[3] = g3
    BY <2>1, <2>4
  <2>6. g[4] = g4
    BY <2>1, <2>5
  <2>7. QED BY <2>1, <2>6 DEF Chain
<1>3. \E g : g = F(g)
  BY <1>1
<1>4. QED BY <1>2, <1>3 DEF DeriveKey

\* An error outcome is not a keypair.  (Kept opaque: this version of the
\* SMT backend fails on records holding strings with spaces.)
LEMMA ErrorNotOk ==
    ASSUME NEW e
    PROVE  Error(e).ok = FALSE
BY DEF Error

\* Two paths of five segments have the same indices exactly when their
\* segments are the same numbers: adding the hardened offset is injective.
LEMMA IndicesInjective ==
    ASSUME NEW p1, NEW p2,
           DOMAIN p1.segs = 1 .. 5, DOMAIN p2.segs = 1 .. 5,
           \A j \in 1 .. 5 : ParseInt(p1.segs[j].digits) \in Nat,
           \A j \in 1 .. 5 : ParseInt(p2.segs[j].digits) \in Nat
    PROVE  (\A j \in 1 .. 5 : Indices(p1)[j] = Indices(p2)[j]) <=>
               PathNumbers(p1) = PathNumbers(p2)
<1>1. HardenedOffset \in Nat
  BY DerivePathAssumption
<1>2. \A j \in 1 .. 5 : /\ Indices(p1)[j] = ParseInt(p1.segs[j].digits) + HardenedOffset
                       /\ Indices(p2)[j] = ParseInt(p2.segs[j].digits) + HardenedOffset
  BY DEF Indices
<1>3. PathNumbers(p1) = PathNumbers(p2) <=>
          \A j \in 1 .. 5 : ParseInt(p1.segs[j].digits) = ParseInt(p2.segs[j].digits)
  BY DEF PathNumbers
<1>4. ASSUME NEW j \in 1 .. 5
      PROVE  Indices(p1)[j] = Indices(p2)[j] <=>
                 ParseInt(p1.segs[j].digits) = ParseInt(p2.segs[j].digits)
  <2>1. /\ Indices(p1)[j] = ParseInt(p1.segs[j].digits) + HardenedOffset
        /\ Indices(p2)[j] = ParseInt(p2.segs[j].digits) + HardenedOffset
    BY <1>2
  <2>2. /\ ParseInt(p1.segs[j].digits) \in Nat
        /\ ParseInt(p2.segs[j].digits) \in Nat
    OBVIOUS
  <2>3. ParseInt(p1.segs[j].digits) + HardenedOffset = ParseInt(p2.segs[j].digits) + HardenedOffset
          <=> ParseInt(p1.segs[j].digits) = ParseInt(p2.segs[j].digits)
    <3>1. \A a, b \in Nat : a + HardenedOffset = b + HardenedOffset <=> a = b
      BY <1>1
    <3>2. QED BY <2>2, <3>1, Zenon
  <2>4. QED BY <2>1, <2>3
<1>5. QED BY <1>3, <1>4

(***************************************************************************)
(* A fromDerivePath call that returns a keypair had a valid path of five   *)
(* segments, and its seed is CKDPriv chained from the master key of the   *)
(* normalised mnemonic along the path's hardened indices.                 *)
(***************************************************************************)
LEMMA DeriveOutcome ==
    ASSUME NEW p, NEW m, p.segs \in Seq({p.segs[j] : j \in DOMAIN p.segs}),
           FromDerivePath(p, m).ok
    PROVE  /\ DOMAIN p.segs = 1 .. 5
           /\ FromDerivePath(p, m).seed = Chain(MasterKey(Normalize(m)), Indices(p))
<1>1. IsValidPath(p)
  <2>1. SUFFICES ASSUME ~IsValidPath(p) PROVE FALSE
    OBVIOUS
  <2>2. FromDerivePath(p, m) = Error("Invalid derivation path")
    BY <2>1 DEF FromDerivePath
  <2>3. QED BY <2>2, ErrorNotOk
<1>2. \A j \in DOMAIN Indices(p) : UInt32(Indices(p)[j]).ok
  <2>1. SUFFICES ASSUME \E j \in DOMAIN Indices(p) : ~UInt32(Indices(p)[j]).ok PROVE FALSE
    OBVIOUS
  <2>2. FromDerivePath(p, m) = Error("RangeError")
    BY <1>1, <2>1 DEF FromDerivePath, UInt32
  <2>3. QED BY <2>2, ErrorNotOk
<1>3. FromDerivePath(p, m) =
          Keypair("ED25519", DeriveKey(MasterKey(Normalize(m)),
                                       [j \in DOMAIN Indices(p) |-> Indices(p)[j]]))
  BY <1>1, <1>2 DEF FromDerivePath, UInt32
<1>4. DOMAIN p.segs = 1 .. 5
  <2>1. Len(p.segs) = 5
    BY <1>1 DEF IsValidPath, RegexMatches
  <2>2. QED BY <2>1
<1>5. [j \in DOMAIN Indices(p) |-> Indices(p)[j]] = Indices(p)
  BY DEF Indices
<1>6. Indices(p) \in Seq({Indices(p)[j] : j \in 1 .. 5}) /\ Len(Indices(p)) = 5
  <2>1. Indices(p) \in [1 .. 5 -> {Indices(p)[j] : j \in 1 .. 5}]
    BY <1>4 DEF Indices
  <2>2. Indices(p) \in Seq({Indices(p)[j] : j \in 1 .. 5})
    <3>1. \E n \in Nat : Indices(p) \in [1 .. n -> {Indices(p)[j] : j \in 1 .. 5}]
      BY <2>1
    <3>2. QED BY <3>1, SeqDef
  <2>3. QED BY <2>1, <2>2, LenProperties
<1>7. DeriveKey(MasterKey(Normalize(m)), Indices(p)) = Chain(MasterKey(Normalize(m)), Indices(p))
  BY <1>6, DeriveKeyFive
<1>8. QED BY <1>3, <1>4, <1>5, <1>7 DEF Keypair

(***************************************************************************)
(* Normalisation identifies exactly the spellings of one phrase: two       *)
(* mnemonics normalise to the same string when, and only when, they have   *)
(* the same words in the same order, whatever their case and whitespace.   *)
(***************************************************************************)
LEMMA NormalizeInjective ==
    ASSUME NEW m1, NEW m2
    PROVE  Normalize(m1) = Normalize(m2) <=> Phrase(m1) = Phrase(m2)
<1> DEFINE L(m) == [j \in DOMAIN m.words |-> LowerCase(m.words[j])]
<1>1. Normalize(m1) = Normalize(m2) <=> L(m1) = L(m2)
  <2>1. /\ Normalize(m1).words = L(m1)
        /\ Normalize(m2).words = L(m2)
    BY DEF Normalize, Join
  <2>2. L(m1) = L(m2) => Normalize(m1) = Normalize(m2)
    BY DEF Normalize, Join
  <2>3. QED BY <2>1, <2>2
<1>2. L(m1) = L(m2) <=> Phrase(m1) = Phrase(m2)
  <2>1. /\ L(m1) = [j \in DOMAIN m1.words |-> [w |-> m1.words[j].w, up |-> FALSE]]
        /\ L(m2) = [j \in DOMAIN m2.words |-> [w |-> m2.words[j].w, up |-> FALSE]]
    BY DEF LowerCase
  <2>2. ASSUME L(m1) = L(m2) PROVE Phrase(m1) = Phrase(m2)
    <3>1. DOMAIN m1.words = DOMAIN m2.words
      BY <2>1, <2>2
    <3>2. ASSUME NEW j \in DOMAIN m1.words PROVE m1.words[j].w = m2.words[j].w
      <4>1. [w |-> m1.words[j].w, up |-> FALSE] = [w |-> m2.words[j].w, up |-> FALSE]
        BY <2>1, <2>2, <3>1
      <4>2. QED BY <4>1
    <3>3. QED BY <3>1, <3>2 DEF Phrase
  <2>3. ASSUME Phrase(m1) = Phrase(m2) PROVE L(m1) = L(m2)
    <3>1. DOMAIN m1.words = DOMAIN m2.words
      BY <2>3 DEF Phrase
    <3>2. \A j \in DOMAIN m1.words : m1.words[j].w = m2.words[j].w
      BY <2>3 DEF Phrase
    <3>3. QED BY <2>1, <3>1, <3>2
  <2>4. QED BY <2>2, <2>3
<1>3. QED BY <1>1, <1>2

(***************************************************************************)
(* fromDerivePath is a function of the phrase and of the path's numbers,  *)
(* and an injective one: for every index width and every set of calls,    *)
(* two successful derivations give the same key exactly when their         *)
(* mnemonics are the same phrase and their paths the same numbers.  It    *)
(* rests on DeriveOutcome: the seed is a chain of HMAC inputs from which  *)
(* the normalised mnemonic and each index can be read back; on             *)
(* NormalizeInjective: the normalised mnemonic determines the phrase and   *)
(* the phrase the normalised mnemonic; and on IndicesInjective: an index   *)
(* is its segment's number plus the hardened offset.                       *)
(***************************************************************************)
THEOREM SameKeyIffSameWordsAndIndicesHolds == Spec => []SameKeyIffSameWordsAndIndices
<1>1. IInv => SameKeyIffSameWordsAndIndices
  <2> SUFFICES ASSUME IInv, DerivedBoth
               PROVE  out[1].seed = out[2].seed <=>
                         /\ Phrase(call[1].mnemonic) = Phrase(call[2].mnemonic)
                         /\ PathNumbers(call[1].path) = PathNumbers(call[2].path)
    BY DEF SameKeyIffSameWordsAndIndices
  <2> DEFINE c1 == call[1]
             c2 == call[2]
             I1 == Indices(c1.path)
             I2 == Indices(c2.path)
  <2>1. /\ c1 \in Calls /\ c2 \in Calls
        /\ out[1] = Outcome(c1) /\ out[2] = Outcome(c2)
        /\ c1.fn = "fromDerivePath" /\ c2.fn = "fromDerivePath"
        /\ out[1].ok /\ out[2].ok
    BY DEF IInv, DerivedBoth
  <2>2. /\ DOMAIN c1.path.segs = 1 .. 5
        /\ out[1].seed = Chain(MasterKey(Normalize(c1.mnemonic)), I1)
        /\ DOMAIN c2.path.segs = 1 .. 5
        /\ out[2].seed = Chain(MasterKey(Normalize(c2.mnemonic)), I2)
    <3>1. /\ out[1] = FromDerivePath(c1.path, c1.mnemonic)
          /\ out[2] = FromDerivePath(c2.path, c2.mnemonic)
      BY <2>1 DEF Outcome
    <3>2. /\ c1.path.segs \in Seq({c1.path.segs[j] : j \in DOMAIN c1.path.segs})
          /\ c2.path.segs \in Seq({c2.path.segs[j] : j \in DOMAIN c2.path.segs})
      BY <2>1, DerivePathAssumption
    <3>3. QED BY <2>1, <3>1, <3>2, DeriveOutcome
  <2>3. out[1].seed = out[2].seed <=>
            /\ MasterKey(Normalize(c1.mnemonic)) = MasterKey(Normalize(c2.mnemonic))
            /\ \A j \in 1 .. 5 : I1[j] = I2[j]
    BY <2>2 DEF Chain
  <2>4. MasterKey(Normalize(c1.mnemonic)) = MasterKey(Normalize(c2.mnemonic)) <=>
            Phrase(c1.mnemonic) = Phrase(c2.mnemonic)
    <3>1. MasterKey(Normalize(c1.mnemonic)) = MasterKey(Normalize(c2.mnemonic)) <=>
              Normalize(c1.mnemonic) = Normalize(c2.mnemonic)
      BY DEF MasterKey
    <3>2. QED BY <3>1, NormalizeInjective
  <2>5. (\A j \in 1 .. 5 : I1[j] = I2[j]) <=> PathNumbers(c1.path) = PathNumbers(c2.path)
    <3>1. /\ \A j \in 1 .. 5 : ParseInt(c1.path.segs[j].digits) \in Nat
          /\ \A j \in 1 .. 5 : ParseInt(c2.path.segs[j].digits) \in Nat
      BY <2>1, <2>2, DerivePathAssumption
    <3>2. QED BY <2>2, <3>1, IndicesInjective
  <2>6. QED BY <2>3, <2>4, <2>5
<1>2. QED BY <1>1, IInvHolds, PTL

=============================================================================
