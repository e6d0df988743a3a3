\* Two seeds and two messages; every tampering of the serialized signature.
SPECIFICATION Spec
CONSTANTS
    s1 = s1
    s2 = s2
    m1 = m1
    m2 = m2
    Seeds = {s1, s2}
    Messages = {m1, m2}
    NoValue = NoValue
INVARIANTS
    VerifySound
    RoundTripVerifies
\* A scenario ends after its last call.
CHECK_DEADLOCK FALSE
