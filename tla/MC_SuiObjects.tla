--------------------------- MODULE MC_SuiObjects ---------------------------
EXTENDS SuiObjects

CONSTANTS o1, o2, sys, n1, n2

MCObjectIds == {o1, o2}
MCObjectIds1 == {o1}
MCNetworks1 == {n1}
MCNetworks2 == {n1, n2}

=============================================================================
