--------------------------- MODULE SignatureCheck ---------------------------
(***************************************************************************)
(* A signature's way through the TypeScript SDK: an Ed25519Keypair is      *)
(* rebuilt from a 64-byte secret key (fromSecretKey, with its signing      *)
(* self-test unless skipValidation), signs a message (signData), the       *)
(* serialized signature travels, is split into signature and public key    *)
(* (toSingleSignaturePubkeyPair), and an Ed25519PublicKey verifies it      *)
(* (verify).  Keypair and public key live in different SDK versions of    *)
(* cryptography/utils.ts and keypairs/ed25519/publickey.ts (index.ts);     *)
(* they meet on the raw 32-byte key and 64-byte signature, as here.       *)
(*                                                                         *)
(* tweetnacl is abstracted: a secret key is <<seed, public half>>; a       *)
(* signature records the message, the seed, and the public half it was     *)
(* hashed with; verify against A holds iff the message matches, the        *)
(* public half is A and A is the seed's public key.                        *)
(***************************************************************************)
EXTENDS Naturals, Sequences

CONSTANTS
    Seeds,     \* secret seeds
    Messages,  \* messages
    NoValue    \* the value of a step not yet taken

\* nacl's public key of a seed (injective).
Pub(s) == [pubOf |-> s]

\* NoValue stands for no value: it is not a public key, nor a result.
ASSUME NoValueAssumption ==
    /\ \A s \in Seeds : NoValue # Pub(s)
    /\ \A b \in BOOLEAN : NoValue # [valid |-> b]

VARIABLES
    stage,     \* the call the client makes next
    keypair,   \* this.keypair of the Ed25519Keypair, or NoValue
    skipped,   \* the keypair was built with skipValidation
    sig,       \* the signature signData returned
    signedMsg, \* the message signData signed
    wire,      \* the serialized signature as received
    honest,    \* wire is the signature and key the keypair produced
    pair,      \* toSingleSignaturePubkeyPair's result
    verifier,  \* the raw key of the Ed25519PublicKey that verifies (NoValue
               \* if its constructor threw)
    vmsg,      \* the message verify is given
    result     \* verify's result, or the error a call threw

vars == <<stage, keypair, skipped, sig, signedMsg, wire, honest, pair, verifier, vmsg, result>>

-----------------------------------------------------------------------------
\* nacl.sign.detached(m, secretKey) and nacl.sign.detached.verify.
NaclSign(m, sk) == [msg |-> m, seed |-> sk[1], half |-> sk[2]]
NaclVerify(m, s, pk) == s.msg = m /\ s.half = pk /\ Pub(s.seed) = pk

\* What a call returns: verify's boolean, or the error thrown.
Valid(b) == [valid |-> b]
Threw(e) == [threw |-> e]

\* nacl.sign.keyPair.fromSecretKey: the public key is the second half.
NaclFromSecretKey(sk) == [publicKey |-> sk[2], secretKey |-> sk]

\* Mutation of SelfTestPasses: the verify result of the self-test not
\* looked at (the `throw` left out).
SelfTestIgnored(kp) ==
    LET s == NaclSign("sui validation", kp.secretKey) IN s = s

\* The 'sui validation' self-test of fromSecretKey.
SelfTestPasses(kp) ==
    NaclVerify("sui validation", NaclSign("sui validation", kp.secretKey), kp.publicKey)

SecretKeys == Seeds \X {Pub(s) : s \in Seeds}

\* Ed25519Keypair.fromSecretKey(secretKey, { skipValidation }).
FromSecretKey ==
    /\ stage = "key"
    /\ \E sk \in SecretKeys, skip \in BOOLEAN :
          LET kp == NaclFromSecretKey(sk)
          IN  IF skip \/ SelfTestPasses(kp)
                THEN /\ keypair' = kp /\ skipped' = skip /\ stage' = "sign"
                     /\ UNCHANGED result
                ELSE /\ result' = Threw("provided secretKey is invalid") /\ stage' = "done"
                     /\ UNCHANGED <<keypair, skipped>>
    /\ UNCHANGED <<sig, signedMsg, wire, honest, pair, verifier, vmsg>>

\* signData(data): nacl.sign.detached(data, this.keypair.secretKey).
SignData ==
    /\ stage = "sign"
    /\ \E m \in Messages :
          /\ sig' = NaclSign(m, keypair.secretKey)
          /\ signedMsg' = m
    /\ stage' = "send"
    /\ UNCHANGED <<keypair, skipped, wire, honest, pair, verifier, vmsg, result>>

(***************************************************************************)
(* The serialized signature (flag, signature, public key) as received: the *)
(* one the keypair made, one with another flag or another public key, or a *)
(* multisig (a 1-of-1 wrapping the signature, or a legacy one that does    *)
(* not decode).                                                            *)
(***************************************************************************)
Serialized(sc, pk) == [scheme |-> sc, signature |-> sig, publicKey |-> pk]

Received ==
    {Serialized(sc, keypair.publicKey) : sc \in {"ED25519", "Secp256k1", "Unknown"}}
    \cup {Serialized("ED25519", Pub(s)) : s \in Seeds}
    \cup {[scheme |-> "MultiSig", legacy |-> FALSE,
           members |-> <<Serialized("ED25519", keypair.publicKey)>>],
          [scheme |-> "MultiSig", legacy |-> TRUE, members |-> << >>]}

Send ==
    /\ stage = "send"
    /\ wire' \in Received
    /\ honest' = (wire' = Serialized("ED25519", keypair.publicKey))
    /\ stage' = "parse"
    /\ UNCHANGED <<keypair, skipped, sig, signedMsg, pair, verifier, vmsg, result>>

\* toParsedSignaturePubkeyPair: the list of (scheme, signature, key) pairs,
\* or the error it throws.
ParsedPairs(w) ==
    CASE w.scheme = "MultiSig" /\ w.legacy -> Threw("legacy multisig viewing unsupported")
      [] w.scheme = "MultiSig" /\ ~w.legacy -> [pairs |-> w.members]
      [] w.scheme \in {"ED25519", "Secp256k1", "Secp256r1"} -> [pairs |-> <<w>>]
      [] OTHER -> Threw("Unsupported signature scheme")

\* toSingleSignaturePubkeyPair: the only pair, or an error.
ToSingleSignaturePubkeyPair ==
    /\ stage = "parse"
    /\ LET res == ParsedPairs(wire)
       IN  IF "threw" \in DOMAIN res
             THEN result' = res /\ stage' = "done" /\ UNCHANGED pair
           ELSE IF Len(res.pairs) # 1
             THEN result' = Threw("Expected a single signature") /\ stage' = "done"
                  /\ UNCHANGED pair
           ELSE pair' = res.pairs[1] /\ stage' = "verify" /\ UNCHANGED result
    /\ UNCHANGED <<keypair, skipped, sig, signedMsg, wire, honest, verifier, vmsg>>

(***************************************************************************)
(* new Ed25519PublicKey(key).verify(message, signature): a serialized      *)
(* signature must carry the ED25519 flag and this key, then nacl checks it *)
(* against this key; raw signature bytes go to nacl directly.              *)
(***************************************************************************)
\* Mutation of Verify: both checks gone and nacl called with the key that
\* comes with the signature.
VerifyTrustingSignature(pk, m, s, serialized) ==
    IF serialized THEN Valid(NaclVerify(m, s.signature, s.publicKey))
    ELSE Valid(NaclVerify(m, s, pk))

Verify(pk, m, s, serialized) ==
    IF ~serialized THEN Valid(NaclVerify(m, s, pk))
    ELSE IF s.scheme # "ED25519" THEN Threw("Invalid signature scheme")
    ELSE IF s.publicKey # pk THEN Threw("Signature does not match public key")
    ELSE Valid(NaclVerify(m, s.signature, pk))

\* The client builds new Ed25519PublicKey(bytes) (32 bytes, else it throws)
\* from the key the pair names or another one, and verifies the pair's
\* signature bytes or the serialized signature on the message signed or
\* another one.
PUBLIC_KEY_SIZE == 32

VerifyStep ==
    /\ stage = "verify"
    /\ \E pk \in {pair.publicKey} \cup {Pub(s) : s \in Seeds}, size \in {PUBLIC_KEY_SIZE, 31},
          m \in Messages, serialized \in BOOLEAN :
          /\ verifier' = IF size = PUBLIC_KEY_SIZE THEN pk ELSE NoValue
          /\ vmsg' = m
          /\ result' = IF size # PUBLIC_KEY_SIZE THEN Threw("Invalid public key input")
                       ELSE Verify(pk, m, IF serialized THEN wire ELSE pair.signature, serialized)
    /\ stage' = "done"
    /\ UNCHANGED <<keypair, skipped, sig, signedMsg, wire, honest, pair>>

Init ==
    /\ stage = "key"
    /\ keypair = NoValue /\ skipped = FALSE
    /\ sig = NoValue /\ signedMsg = NoValue
    /\ wire = NoValue /\ honest = FALSE
    /\ pair = NoValue /\ verifier = NoValue /\ vmsg = NoValue
    /\ result = NoValue

Next == FromSecretKey \/ SignData \/ Send \/ ToSingleSignaturePubkeyPair \/ VerifyStep

Spec == Init /\ [][Next]_vars

-----------------------------------------------------------------------------
\* Type invariant.
TypeOK ==
    /\ stage \in {"key", "sign", "send", "parse", "verify", "done"}
    /\ skipped \in BOOLEAN /\ honest \in BOOLEAN
    /\ result \in {NoValue} \cup [valid : BOOLEAN] \cup [threw : STRING]

(***************************************************************************)
(* verify never vouches for a signature its key did not make: a true       *)
(* result means the verifier's key is the public key of the seed that     *)
(* signed, and the message is the one signed, whatever flag, key or       *)
(* wrapping the serialized signature arrived with.                         *)
(***************************************************************************)
Verified == result # NoValue /\ "valid" \in DOMAIN result /\ result.valid

VerifySound ==
    Verified =>
        /\ verifier = Pub(keypair.secretKey[1])
        /\ vmsg = signedMsg

(***************************************************************************)
(* The round trip works: a keypair fromSecretKey accepted with validation  *)
(* signs, and the signature, received intact and split by                  *)
(* toSingleSignaturePubkeyPair, verifies under the key it names.           *)
(***************************************************************************)
RoundTripVerifies ==
    (stage = "done" /\ ~skipped /\ honest /\ verifier = pair.publicKey /\ vmsg = signedMsg)
        => Verified

=============================================================================
