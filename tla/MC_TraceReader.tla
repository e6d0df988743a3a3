--------------------------- MODULE MC_TraceReader ---------------------------
(***************************************************************************)
(* Model-checking instance of TraceReader: two interchangeable frame ids,  *)
(* and one tag the reader does not know.                                   *)
(***************************************************************************)
EXTENDS TraceReader, TLC

CONSTANTS f1, f2, Unknown

MCFrameId == {f1, f2}

MCSymmetry == Permutations(MCFrameId)
=============================================================================
