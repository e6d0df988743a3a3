CONSTANTS
    f1 = f1
    f2 = f2
    NoFrame = NoFrame
    FrameId <- MCFrameId
    NumLocals = 1
    MaxPc = 2
    MaxEvents = 5
    WellNested = TRUE
SYMMETRY MCSymmetry
SPECIFICATION Spec
\* The ingestion loop ends when the raw event array (MaxEvents long) is exhausted.
CHECK_DEADLOCK FALSE
INVARIANTS
    EndFromCurrentActivation
