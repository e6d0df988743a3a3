--------------------------- MODULE MC_TraceUtils ---------------------------
(***************************************************************************)
(* Model-checking instance of TraceUtils: two frame ids (model values,     *)
(* interchangeable), two local slots, instruction offsets 0..2.            *)
(***************************************************************************)
EXTENDS TraceUtils, TLC

CONSTANTS f1, f2

MCFrameId == {f1, f2}

\* Frame ids are only compared for equality, so permuting them is sound.
MCSymmetry == Permutations(MCFrameId)
=============================================================================
