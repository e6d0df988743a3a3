-------------------------- MODULE MC_TokensPage --------------------------
EXTENDS TokensPage

CONSTANTS t1, t2, sui

=============================================================================
