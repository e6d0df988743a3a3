------------------------- MODULE MC_WalletAdapter -------------------------
EXTENDS WalletAdapter

CONSTANTS c1, c2, c3

\* Three overlapping connect() calls (a double click and a retry).
MCCalls == {c1, c2, c3}

=============================================================================
