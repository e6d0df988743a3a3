----------------------- MODULE SignatureCheck_proofs -----------------------
(***************************************************************************)
(* Proofs about a signature's way from Ed25519Keypair to                   *)
(* Ed25519PublicKey.verify, for every set of seeds and messages.           *)
(***************************************************************************)
EXTENDS SignatureCheck, TLAPS

USE NoValueAssumption

Stages == {"key", "sign", "send", "parse", "verify", "done"}

\* The keypairs fromSecretKey can build.
KeyPairs == {NaclFromSecretKey(sk) : sk \in SecretKeys}

\* Every signature a received value carries is the one signData made.
Carries(w) ==
    /\ w.scheme # "MultiSig" => w.signature = sig
    /\ w.scheme = "MultiSig" => w.legacy \in BOOLEAN
    /\ (w.scheme = "MultiSig" /\ ~w.legacy) =>
          \A i \in 1 .. Len(w.members) : w.members[i].signature = sig

\* The serialized signature the keypair itself produces.
Honest == Serialized("ED25519", keypair.publicKey)

(***************************************************************************)
(* The inductive invariant, stage by stage.  After fromSecretKey the       *)
(* keypair is one nacl builds, and passed its self-test unless skipped;    *)
(* after signData the signature is of the message signed; what arrives     *)
(* and what toSingleSignaturePubkeyPair picks carry only that signature;   *)
(* an honest wire is picked as it is; verify's result is the one of Verify *)
(* on the picked values; nothing has a result before the end.             *)
(***************************************************************************)
IInv ==
    /\ stage \in Stages
    /\ skipped \in BOOLEAN /\ honest \in BOOLEAN
    /\ stage \in {"sign", "send", "parse", "verify"} \/ (stage = "done" /\ honest)
          => /\ keypair \in KeyPairs
             /\ ~skipped => SelfTestPasses(keypair)
    /\ stage \in {"send", "parse", "verify"} \/ (stage = "done" /\ honest) => sig = NaclSign(signedMsg, keypair.secretKey)
    /\ stage \in {"parse", "verify"} => Carries(wire)
    /\ stage \in {"key", "sign", "send"} => ~honest
    /\ honest /\ stage \in {"parse", "verify", "done"} => wire = Honest
    /\ honest /\ stage \in {"verify", "done"} => pair = wire
    /\ stage = "verify" => pair.signature = sig
    /\ stage # "done" => result = NoValue
    /\ stage = "done" /\ Verified => VerifySound
    /\ stage = "done" /\ honest =>
          \/ verifier = NoValue
          \/ \E ser \in BOOLEAN :
                result = Verify(verifier, vmsg, IF ser THEN wire ELSE pair.signature, ser)

-----------------------------------------------------------------------------
\* What verify returns when it answers true: the key is the public key of
\* the signing seed and the message the one signed, given that a serialized
\* signature carries sig and raw signature bytes are sig.
LEMMA VerifyValid ==
    ASSUME NEW pk, NEW m, NEW w, NEW ser \in BOOLEAN,
           ser => Carries(w), ~ser => w = sig,
           "valid" \in DOMAIN Verify(pk, m, w, ser),
           Verify(pk, m, w, ser).valid
    PROVE  pk = Pub(sig.seed) /\ m = sig.msg
<1>1. CASE ser
  <2>1. w.scheme = "ED25519" /\ w.publicKey = pk
    BY <1>1 DEF Verify, Valid, Threw
  <2>2. w.signature = sig
    BY <1>1, <2>1 DEF Carries
  <2>3. NaclVerify(m, w.signature, pk)
    BY <1>1, <2>1 DEF Verify, Valid
  <2>4. QED BY <2>2, <2>3 DEF NaclVerify
<1>2. CASE ~ser
  <2>1. NaclVerify(m, w, pk)
    BY <1>2 DEF Verify, Valid
  <2>2. QED BY <1>2, <2>1 DEF NaclVerify
<1>3. QED BY <1>1, <1>2

\* An error is never a true verify result.
LEMMA ThrewNotValid ==
    ASSUME NEW e
    PROVE  "valid" \notin DOMAIN Threw(e)
BY DEF Threw

\* What toParsedSignaturePubkeyPair returns, flag by flag.
LEMMA ParsedLegacy ==
    ASSUME NEW w, w.scheme = "MultiSig", w.legacy = TRUE
    PROVE  ParsedPairs(w) = Threw("legacy multisig viewing unsupported")
BY Zenon DEF ParsedPairs

LEMMA ParsedMultiSig ==
    ASSUME NEW w, w.scheme = "MultiSig", w.legacy = FALSE
    PROVE  ParsedPairs(w) = [pairs |-> w.members]
BY Zenon DEF ParsedPairs

LEMMA ParsedSingle ==
    ASSUME NEW w, w.scheme \in {"ED25519", "Secp256k1", "Secp256r1"}
    PROVE  ParsedPairs(w) = [pairs |-> <<w>>]
BY Zenon DEF ParsedPairs

LEMMA ParsedUnsupported ==
    ASSUME NEW w, w.scheme \notin {"MultiSig", "ED25519", "Secp256k1", "Secp256r1"}
    PROVE  ParsedPairs(w) = Threw("Unsupported signature scheme")
BY Zenon DEF ParsedPairs

\* The honest signature verifies: a keypair nacl builds that passed its
\* self-test checks its own signature of any message, serialized or raw.
LEMMA HonestVerifies ==
    ASSUME keypair \in KeyPairs, SelfTestPasses(keypair),
           sig = NaclSign(signedMsg, keypair.secretKey),
           NEW ser \in BOOLEAN
    PROVE  Verify(keypair.publicKey, signedMsg,
                  IF ser THEN Honest ELSE Honest.signature, ser) = Valid(TRUE)
<1>1. Pub(keypair.secretKey[1]) = keypair.publicKey
  BY DEF SelfTestPasses, NaclVerify, NaclSign
<1>2. keypair.secretKey[2] = keypair.publicKey
  BY DEF KeyPairs, NaclFromSecretKey, SecretKeys
<1>3. NaclVerify(signedMsg, sig, keypair.publicKey)
  BY <1>1, <1>2 DEF NaclVerify, NaclSign
<1>4. QED BY <1>3 DEF Verify, Honest, Serialized

-----------------------------------------------------------------------------
LEMMA InitIInv == Init => IInv
BY DEF Init, IInv, Stages

\* fromSecretKey: the keypair is one nacl builds, and without
\* skipValidation it passed the self-test; or the call threw.
LEMMA FromSecretKeyKeeps ==
    ASSUME IInv, FromSecretKey
    PROVE  IInv'
<1> USE DEF IInv, FromSecretKey, Stages
<1>1. ~honest /\ result = NoValue
  OBVIOUS
<1>2. PICK sk \in SecretKeys, skip \in BOOLEAN :
             IF skip \/ SelfTestPasses(NaclFromSecretKey(sk))
               THEN /\ keypair' = NaclFromSecretKey(sk) /\ skipped' = skip
                    /\ stage' = "sign" /\ UNCHANGED result
               ELSE /\ result' = Threw("provided secretKey is invalid")
                    /\ stage' = "done" /\ UNCHANGED <<keypair, skipped>>
  OBVIOUS
<1>3. CASE skip \/ SelfTestPasses(NaclFromSecretKey(sk))
  BY <1>1, <1>2, <1>3 DEF KeyPairs
<1>4. CASE ~(skip \/ SelfTestPasses(NaclFromSecretKey(sk)))
  <2>1. ~Verified'
    BY <1>2, <1>4, ThrewNotValid DEF Verified
  <2>2. QED BY <1>1, <1>2, <1>4, <2>1
<1>5. QED BY <1>3, <1>4

LEMMA SignDataKeeps ==
    ASSUME IInv, SignData
    PROVE  IInv'
BY DEF IInv, SignData, Stages

\* Whatever arrives carries sig; it is honest iff it is the keypair's own.
LEMMA SendKeeps ==
    ASSUME IInv, Send
    PROVE  IInv'
<1>1. Carries(wire')
  <2>1. CASE wire' \in {Serialized(sc, keypair.publicKey) : sc \in {"ED25519", "Secp256k1", "Unknown"}}
    BY <2>1 DEF Send, Carries, Serialized
  <2>2. CASE wire' \in {Serialized("ED25519", Pub(s)) : s \in Seeds}
    BY <2>2 DEF Send, Carries, Serialized
  <2>3. CASE wire' = [scheme |-> "MultiSig", legacy |-> FALSE,
                      members |-> <<Serialized("ED25519", keypair.publicKey)>>]
    BY <2>3 DEF Send, Carries, Serialized
  <2>4. CASE wire' = [scheme |-> "MultiSig", legacy |-> TRUE, members |-> << >>]
    BY <2>4 DEF Send, Carries
  <2>5. QED BY <2>1, <2>2, <2>3, <2>4 DEF Send, Received
<1>2. QED BY <1>1 DEF IInv, Send, Stages, Honest, Serialized, SelfTestPasses, KeyPairs, Carries

\* toSingleSignaturePubkeyPair ends the run with an error on a wire that
\* is not the honest one: nothing is verified.
LEMMA ParseThrowsKeeps ==
    ASSUME IInv, stage = "parse", ~honest, stage' = "done", ~Verified',
           UNCHANGED <<keypair, skipped, sig, signedMsg, wire, honest, verifier, vmsg>>
    PROVE  IInv'
BY DEF IInv, Stages, Carries, Honest, Serialized, SelfTestPasses, KeyPairs,
       Verified, VerifySound, Verify

\* ... or it picks a pair carrying sig, the wire itself if honest.
LEMMA ParsePicksKeeps ==
    ASSUME IInv, stage = "parse", stage' = "verify", pair'.signature = sig,
           honest => pair' = wire,
           UNCHANGED <<keypair, skipped, sig, signedMsg, wire, honest, verifier, vmsg, result>>
    PROVE  IInv'
BY DEF IInv, Stages, Carries, Honest, Serialized, SelfTestPasses, KeyPairs,
       Verified, VerifySound, Verify

LEMMA ParseKeeps ==
    ASSUME IInv, ToSingleSignaturePubkeyPair
    PROVE  IInv'
<1>1. /\ stage = "parse" /\ Carries(wire) /\ result = NoValue
      /\ honest => wire = Honest
      /\ UNCHANGED <<keypair, skipped, sig, signedMsg, wire, honest, verifier, vmsg>>
  BY DEF IInv, ToSingleSignaturePubkeyPair
\* A wire that parses to an error is not the honest one, and ends the run.
<1>2. ASSUME NEW e, ParsedPairs(wire) = Threw(e), wire.scheme # "ED25519"
      PROVE  IInv'
  <2>1. ~honest
    BY <1>1, <1>2 DEF Honest, Serialized
  <2>2. result' = Threw(e) /\ stage' = "done"
    BY <1>2 DEF ToSingleSignaturePubkeyPair, Threw
  <2>3. ~Verified'
    BY <2>2, ThrewNotValid DEF Verified
  <2>4. QED BY <1>1, <2>1, <2>2, <2>3, ParseThrowsKeeps
<1>3. CASE wire.scheme = "MultiSig" /\ wire.legacy
  BY <1>1, <1>2, <1>3, ParsedLegacy DEF Carries
<1>4. CASE wire.scheme = "MultiSig" /\ ~wire.legacy
  <2>1. ParsedPairs(wire) = [pairs |-> wire.members]
    BY <1>1, <1>4, ParsedMultiSig DEF Carries
  <2>2. ~honest
    BY <1>1, <1>4 DEF Honest, Serialized
  <2>3. CASE Len(wire.members) # 1
    <3>0. /\ "threw" \notin DOMAIN ParsedPairs(wire)
          /\ Len(ParsedPairs(wire).pairs) # 1
      BY <2>1, <2>3
    <3>1. result' = Threw("Expected a single signature") /\ stage' = "done"
      BY <3>0 DEF ToSingleSignaturePubkeyPair
    <3>2. ~Verified'
      BY <3>1, ThrewNotValid DEF Verified
    <3>3. QED BY <1>1, <2>2, <3>1, <3>2, ParseThrowsKeeps
  <2>4. CASE Len(wire.members) = 1
    <3>0. /\ "threw" \notin DOMAIN ParsedPairs(wire)
          /\ Len(ParsedPairs(wire).pairs) = 1
          /\ ParsedPairs(wire).pairs[1] = wire.members[1]
      BY <2>1, <2>4
    <3>1. pair' = wire.members[1] /\ stage' = "verify" /\ UNCHANGED result
      BY <3>0 DEF ToSingleSignaturePubkeyPair
    <3>2. pair'.signature = sig
      BY <1>1, <1>4, <2>4, <3>1 DEF Carries
    <3>3. QED BY <1>1, <2>2, <3>1, <3>2, ParsePicksKeeps
  <2>5. QED BY <2>3, <2>4
<1>5. CASE wire.scheme \in {"ED25519", "Secp256k1", "Secp256r1"}
  <2>1. ParsedPairs(wire) = [pairs |-> <<wire>>]
    BY <1>5, ParsedSingle
  <2>2. pair' = wire /\ stage' = "verify" /\ UNCHANGED result
    <3>0. /\ "threw" \notin DOMAIN ParsedPairs(wire)
          /\ Len(ParsedPairs(wire).pairs) = 1
          /\ ParsedPairs(wire).pairs[1] = wire
      BY <2>1
    <3>1. QED BY <3>0 DEF ToSingleSignaturePubkeyPair
  <2>3. pair'.signature = sig
    BY <1>1, <1>5, <2>2 DEF Carries
  <2>4. QED BY <1>1, <2>2, <2>3, ParsePicksKeeps
<1>6. CASE wire.scheme \notin {"MultiSig", "ED25519", "Secp256k1", "Secp256r1"}
  BY <1>2, <1>6, ParsedUnsupported
<1>7. QED BY <1>3, <1>4, <1>5, <1>6


\* verify ends the run; what the invariant says of the end is all that is
\* left to show.
LEMMA VerifyEndsKeeps ==
    ASSUME IInv, stage = "verify", stage' = "done",
           UNCHANGED <<keypair, skipped, sig, signedMsg, wire, honest, pair>>,
           Verified' => VerifySound',
           honest => \/ verifier' = NoValue
                     \/ \E ser \in BOOLEAN :
                           result' = Verify(verifier', vmsg',
                                            IF ser THEN wire ELSE pair.signature, ser)
    PROVE  IInv'
BY DEF IInv, Stages, Honest, Serialized, SelfTestPasses, KeyPairs

\* new Ed25519PublicKey(bytes).verify: a key of the wrong size throws; a
\* true answer comes only from sig's seed and message.
LEMMA VerifyStepKeeps ==
    ASSUME IInv, VerifyStep
    PROVE  IInv'
<1>1. /\ stage = "verify" /\ stage' = "done"
      /\ UNCHANGED <<keypair, skipped, sig, signedMsg, wire, honest, pair>>
      /\ Carries(wire) /\ pair.signature = sig
      /\ sig = NaclSign(signedMsg, keypair.secretKey)
  BY DEF IInv, VerifyStep
<1>2. PICK pk \in {pair.publicKey} \cup {Pub(s) : s \in Seeds},
           size \in {PUBLIC_KEY_SIZE, 31}, m \in Messages, ser \in BOOLEAN :
          /\ verifier' = IF size = PUBLIC_KEY_SIZE THEN pk ELSE NoValue
          /\ vmsg' = m
          /\ result' = IF size # PUBLIC_KEY_SIZE THEN Threw("Invalid public key input")
                       ELSE Verify(pk, m, IF ser THEN wire ELSE pair.signature, ser)
  BY DEF VerifyStep
<1>3. CASE size # PUBLIC_KEY_SIZE
  <2>1. ~Verified'
    BY <1>2, <1>3, ThrewNotValid DEF Verified
  <2>2. verifier' = NoValue
    BY <1>2, <1>3
  <2>3. QED BY <1>1, <2>1, <2>2, VerifyEndsKeeps
<1>4. CASE size = PUBLIC_KEY_SIZE
  <2> DEFINE w == IF ser THEN wire ELSE pair.signature
  <2>1. verifier' = pk /\ vmsg' = m /\ result' = Verify(pk, m, w, ser)
    BY <1>2, <1>4
  <2>2. Verified' => VerifySound'
    <3> SUFFICES ASSUME Verified' PROVE VerifySound'
      OBVIOUS
    <3>1. "valid" \in DOMAIN Verify(pk, m, w, ser) /\ Verify(pk, m, w, ser).valid
      BY <2>1 DEF Verified
    <3>2. (ser => Carries(w)) /\ (~ser => w = sig)
      BY <1>1
    <3>3. pk = Pub(sig.seed) /\ m = sig.msg
      BY <3>1, <3>2, VerifyValid
    <3>4. QED BY <1>1, <2>1, <3>3 DEF VerifySound, NaclSign
  <2>3. QED BY <1>1, <2>1, <2>2, VerifyEndsKeeps
<1>5. QED BY <1>3, <1>4

\* A step that changes nothing keeps the invariant.
LEMMA StutterKeeps ==
    ASSUME IInv, UNCHANGED vars
    PROVE  IInv'
BY DEF IInv, vars, Stages, Carries, Honest, Serialized, SelfTestPasses, KeyPairs,
       Verified, VerifySound, Verify

LEMMA IInvInductive == IInv /\ [Next]_vars => IInv'
BY FromSecretKeyKeeps, SignDataKeeps, SendKeeps, ParseKeeps, VerifyStepKeeps,
   StutterKeeps DEF Next

-----------------------------------------------------------------------------
(***************************************************************************)
(* verify never vouches for a signature its key did not make: for every    *)
(* set of seeds and messages, a true answer of Ed25519PublicKey.verify     *)
(* means its key is the public key of the signing seed and the message is *)
(* the one signData signed, whatever flag, key or multisig wrapping the    *)
(* serialized signature arrived with.                                      *)
(***************************************************************************)
THEOREM VerifySoundHolds == Spec => []VerifySound
<1>1. IInv => VerifySound
  <2> SUFFICES ASSUME IInv, Verified PROVE VerifySound
    BY DEF VerifySound
  <2>1. stage = "done"
    BY DEF IInv, Verified
  <2>2. QED BY <2>1 DEF IInv
<1>2. QED BY InitIInv, IInvInductive, <1>1, PTL DEF Spec

(***************************************************************************)
(* The round trip works for every set of seeds and messages: a keypair     *)
(* that fromSecretKey built with its self-test signs, and the signature,   *)
(* received intact and split by toSingleSignaturePubkeyPair, verifies      *)
(* under the key it names, as raw bytes or serialized.                     *)
(***************************************************************************)
THEOREM RoundTripVerifiesHolds == Spec => []RoundTripVerifies
<1>1. IInv => RoundTripVerifies
  <2> SUFFICES ASSUME IInv, stage = "done", ~skipped, honest,
                      verifier = pair.publicKey, vmsg = signedMsg
               PROVE  Verified
    BY DEF RoundTripVerifies
  <2>1. /\ keypair \in KeyPairs /\ SelfTestPasses(keypair)
        /\ sig = NaclSign(signedMsg, keypair.secretKey)
        /\ pair = Honest /\ wire = Honest
    BY DEF IInv
  <2>2. verifier = keypair.publicKey
    BY <2>1 DEF Honest, Serialized
  <2>3. verifier # NoValue
    BY <2>1, <2>2 DEF KeyPairs, NaclFromSecretKey, SecretKeys
  <2>4. PICK ser \in BOOLEAN :
          result = Verify(verifier, vmsg, IF ser THEN wire ELSE pair.signature, ser)
    BY <2>3 DEF IInv
  <2>5. result = Valid(TRUE)
    BY <2>1, <2>2, <2>4, HonestVerifies
  <2>6. QED BY <2>5 DEF Verified, Valid
<1>2. QED BY InitIInv, IInvInductive, <1>1, PTL DEF Spec

=============================================================================
