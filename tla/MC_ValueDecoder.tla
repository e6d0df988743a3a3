--------------------------- MODULE MC_ValueDecoder ---------------------------
(***************************************************************************)
(* A small instance of ValueDecoder: doubles with 4 significand bits, so   *)
(* that 15 is the largest safe integer, 17 rounds to 16 and 48 prints as   *)
(* "50" (as 2^64 + 1 parses to 2^64 and prints as 18446744073709552000);   *)
(* values nested two levels deep with up to two fields or elements, so     *)
(* that a compound holds a compound and fields appear in both orders.      *)
(***************************************************************************)
EXTENDS ValueDecoder

MCLits == {7, 17, 48}

\* Values whose children are scalars (up to two of them), then values with
\* one child drawn from those.
Depth1 == JSONValues(Scalars, 2)

MCInputs == JSONValues(Depth1, 1)

=============================================================================
