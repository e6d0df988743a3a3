--------------------------- MODULE KeyDerivation ---------------------------
(***************************************************************************)
(* Keypair construction in the TypeScript SDK (cryptography/utils.ts):     *)
(* Ed25519Keypair.fromDerivePath, which checks a SLIP-0010 path with       *)
(* isValidPath, normalises the mnemonic, and walks the hardened path with  *)
(* CKDPriv; and fromExportedKeypair, which rebuilds a keypair from its     *)
(* exported private key, stripping the public half of a legacy 64-byte     *)
(* Ed25519 key.                                                            *)
(*                                                                         *)
(* A path is kept as what the parsing looks at: the head and, per          *)
(* '/'-separated segment, its digits and how many ' marks follow them.     *)
(* HMAC-SHA512 is abstracted to an injective function (a tuple of its      *)
(* inputs); the width of the uint32 that CKDPriv writes is a parameter.    *)
(***************************************************************************)
EXTENDS Integers, Sequences

CONSTANTS
    Width,     \* bits of the index written by writeUInt32BE (32)
    Words,     \* mnemonic words
    Seeds,     \* 32-byte secret seeds
    Schemes,   \* schema strings an exported keypair may carry
    Calls      \* the calls made: a finite set of Call records

ASSUME WidthAssumption == Width \in Nat \ {0}

\* The schemas are the ones fromExportedKeypair knows, and an unknown one;
\* an exported private key decodes to a sequence of 32-byte blocks.
ASSUME ExportAssumption ==
    /\ Schemes \subseteq {"ED25519", "Secp256k1", "Secp256r1", "unknown"}
    /\ \A c \in Calls : c.fn = "fromExportedKeypair" =>
          LET k == c.exported.privateKey
          IN  /\ c.exported.schema \in Schemes
              /\ k \in Seq({k[i] : i \in DOMAIN k})

\* 0x80000000: the hardened offset, half the uint32 range.
HardenedOffset == 2^(Width - 1)

\* The largest value writeUInt32BE accepts.
MaxUInt == 2^Width - 1

PRIVATE_KEY_SIZE == 32
LEGACY_PRIVATE_KEY_SIZE == 64

VARIABLES
    call,   \* <<first call, second call>>
    out     \* their outcomes, or <<>> before they are made

vars == <<call, out>>

-----------------------------------------------------------------------------
(***************************************************************************)
(* isValidPath.  The regular expression                                    *)
(*   ^m\/44+'\/784+'\/[0-9]+'\/[0-9]+'\/[0-9]+'+$                          *)
(* then, on each segment after "m", val.replace("'", "") (the first ' only)*)
(* and isNaN: a segment with a second ' is not a number.                   *)
(***************************************************************************)
AllFours(d) == Len(d) >= 2 /\ \A j \in DOMAIN d : d[j] = 4

Coin(d) == Len(d) >= 3 /\ d[1] = 7 /\ d[2] = 8 /\ \A j \in 3 .. Len(d) : d[j] = 4

RegexMatches(p) ==
    /\ p.head = "m"
    /\ Len(p.segs) = 5
    /\ AllFours(p.segs[1].digits) /\ Coin(p.segs[2].digits)
    /\ \A j \in 1 .. 5 : Len(p.segs[j].digits) >= 1
    /\ \A j \in 1 .. 4 : p.segs[j].quotes = 1
    /\ p.segs[5].quotes >= 1

NoNaN(p) == \A j \in DOMAIN p.segs : p.segs[j].quotes <= 1

IsValidPath(p) == RegexMatches(p) /\ NoNaN(p)

\* parseInt(el, 10) on a string of decimal digits.
ParseInt(d) ==
    LET f[k \in 0 .. Len(d)] == IF k = 0 THEN 0 ELSE 10 * f[k - 1] + d[k]
    IN  f[Len(d)]

\* A path's segments form a sequence, each segment's digits parse to a
\* natural number, and so does the hardened offset (these take induction
\* over the digits and over the exponent, which TLC checks here instead).
ASSUME DerivePathAssumption ==
    /\ HardenedOffset \in Nat
    /\ \A c \in Calls : c.fn = "fromDerivePath" =>
          /\ c.path.segs \in Seq({c.path.segs[j] : j \in DOMAIN c.path.segs})
          /\ \A j \in DOMAIN c.path.segs : ParseInt(c.path.segs[j].digits) \in Nat

\* The indices fromDerivePath hands to CKDPriv: segment + 0x80000000.
Indices(p) == [j \in DOMAIN p.segs |-> ParseInt(p.segs[j].digits) + HardenedOffset]

\* writeUInt32BE(index, 0): a RangeError for a value outside 0 .. 2^32 - 1.
UInt32(idx) == [ok |-> idx <= MaxUInt, v |-> idx]

(***************************************************************************)
(* A mnemonic string is kept as what the normalisation looks at: the       *)
(* whitespace before the first word (lead) and after the last (trail), the *)
(* words (a letter sequence w, and whether it has capitals, up), and for   *)
(* each word j > 1 the length of the whitespace run before it (gaps[j]).   *)
(***************************************************************************)
\* join(' '): the words with one space between them and none around.
Join(ws) == [lead |-> 0, words |-> ws, gaps |-> [j \in DOMAIN ws \ {1} |-> 1], trail |-> 0]

\* part.toLowerCase(): the same letters without capitals.
LowerCase(wd) == [w |-> wd.w, up |-> FALSE]

\* Mutation of Normalize: the .map(part => part.toLowerCase()) left out.
NormalizeCaseKept(m) == Join(m.words)

\* trim() drops lead and trail; split(/\s+/) then yields exactly the words,
\* every gap being one or more whitespace characters; each part is
\* lower-cased and the parts are joined with single spaces.
Normalize(m) == Join([j \in DOMAIN m.words |-> LowerCase(m.words[j])])

\* HMAC-SHA512 keyed with 'ed25519 seed' over mnemonicToSeed(words).
MasterKey(ws) == <<"master", ws>>

\* The reduce over the segments: CKDPriv(parentKeys, index) per index.
DeriveKey(k, idxs) ==
    LET f[j \in 0 .. Len(idxs)] == IF j = 0 THEN k ELSE <<f[j - 1], idxs[j]>>
    IN  f[Len(idxs)]

\* Outcomes: a keypair of a scheme built from a seed, or an error.
Keypair(s, seed) == [ok |-> TRUE, scheme |-> s, seed |-> seed]
Error(e) == [ok |-> FALSE, err |-> e]

FromDerivePath(p, m) ==
    LET ws == [j \in DOMAIN Indices(p) |-> UInt32(Indices(p)[j])]
    IN  IF ~IsValidPath(p) THEN Error("Invalid derivation path")
        ELSE IF \E j \in DOMAIN ws : ~ws[j].ok THEN Error("RangeError")
        ELSE Keypair("ED25519",
                     DeriveKey(MasterKey(Normalize(m)),
                               [j \in DOMAIN ws |-> ws[j].v]))

(***************************************************************************)
(* fromExportedKeypair: fromB64 of the private key, then per schema.  A    *)
(* secret key is a sequence of 32-byte blocks: its seed followed, for a    *)
(* legacy 64-byte key, by the public key.  The keypair classes'            *)
(* fromSecretKey take 32 bytes.                                            *)
(***************************************************************************)
ByteLength(sk) == 32 * Len(sk)

FromSecretKey(s, sk) ==
    IF ByteLength(sk) = PRIVATE_KEY_SIZE THEN Keypair(s, sk[1])
    ELSE Error("Wrong secretKey size")

\* Mutation of PureSecretKey: the legacy key passed on unstripped.
PureSecretKeyUnstripped(sk) == sk

PureSecretKey(sk) ==
    IF ByteLength(sk) = LEGACY_PRIVATE_KEY_SIZE THEN SubSeq(sk, 1, PRIVATE_KEY_SIZE \div 32)
    ELSE sk

FromExportedKeypair(e) ==
    CASE e.schema = "ED25519" -> FromSecretKey("ED25519", PureSecretKey(e.privateKey))
      [] e.schema \in {"Secp256k1", "Secp256r1"} -> FromSecretKey(e.schema, e.privateKey)
      [] OTHER -> Error("Invalid keypair schema")

\* One call of either function.
Outcome(c) ==
    IF c.fn = "fromDerivePath" THEN FromDerivePath(c.path, c.mnemonic)
    ELSE FromExportedKeypair(c.exported)

-----------------------------------------------------------------------------
Init ==
    /\ call \in Calls \X Calls
    /\ out = << >>

\* The two calls, one after the other; neither has state to share.
Run ==
    /\ out = << >>
    /\ out' = <<Outcome(call[1]), Outcome(call[2])>>
    /\ UNCHANGED call

Spec == Init /\ [][Run]_vars

-----------------------------------------------------------------------------
\* Type invariant.
TypeOK ==
    /\ call \in Calls \X Calls
    /\ out = << >> \/ \A j \in 1 .. 2 : out[j].ok \in BOOLEAN

\* The phrase a mnemonic stands for: its words' letters, whatever their
\* case and the whitespace around and between them.
Phrase(m) == [j \in DOMAIN m.words |-> m.words[j].w]

\* The numbers written in a path's segments.
PathNumbers(p) == [j \in DOMAIN p.segs |-> ParseInt(p.segs[j].digits)]

DerivedBoth == out # << >> /\ \A j \in 1 .. 2 : call[j].fn = "fromDerivePath" /\ out[j].ok

(***************************************************************************)
(* fromDerivePath is a function of the words and of the indices only: two  *)
(* successful derivations give the same key exactly when their mnemonics  *)
(* are the same phrase and their paths the same numbers.  So               *)
(* "Word  word" and "word word", or 0' and 00', derive the same key, and   *)
(* no two different hardened paths share one.                              *)
(***************************************************************************)
SameKeyIffSameWordsAndIndices ==
    DerivedBoth =>
        (out[1].seed = out[2].seed <=>
            /\ Phrase(call[1].mnemonic) = Phrase(call[2].mnemonic)
            /\ PathNumbers(call[1].path) = PathNumbers(call[2].path))

(***************************************************************************)
(* isValidPath is the only check before the derivation: every path it      *)
(* accepts derives a keypair, and fromDerivePath throws only the "Invalid  *)
(* derivation path" error.                                                 *)
(***************************************************************************)
ValidPathDerives ==
    out # << >> =>
        \A j \in 1 .. 2 :
            (call[j].fn = "fromDerivePath" /\ IsValidPath(call[j].path)) => out[j].ok

(***************************************************************************)
(* An exported keypair in the current (32-byte) or legacy (64-byte)        *)
(* format is imported as the keypair of its scheme and seed.               *)
(***************************************************************************)
ImportRestoresKey ==
    out # << >> =>
        \A j \in 1 .. 2 :
            LET e == call[j].exported
            IN  (/\ call[j].fn = "fromExportedKeypair"
                 /\ e.schema \in Schemes \ {"unknown"}
                 /\ \/ ByteLength(e.privateKey) = PRIVATE_KEY_SIZE
                    \/ e.schema = "ED25519" /\ ByteLength(e.privateKey) = LEGACY_PRIVATE_KEY_SIZE)
                   => out[j] = Keypair(e.schema, e.privateKey[1])

=============================================================================
