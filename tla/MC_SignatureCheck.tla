------------------------- MODULE MC_SignatureCheck -------------------------
EXTENDS SignatureCheck

CONSTANTS s1, s2, m1, m2

=============================================================================
