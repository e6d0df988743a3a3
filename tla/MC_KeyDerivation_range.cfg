\* A path isValidPath accepts whose index does not fit in 32 bits.
SPECIFICATION Spec
CONSTANTS
    w1 = w1
    w2 = w2
    s1 = s1
    s2 = s2
    pub1 = pub1
    Width = 11
    Words = {w1, w2}
    Seeds = {s1, s2}
    Schemes = {"ED25519", "Secp256k1", "Secp256r1", "unknown"}
    Calls <- MCCalls
INVARIANTS
    ValidPathDerives
\* Two calls and nothing else: every behaviour stops after Run.
CHECK_DEADLOCK FALSE
