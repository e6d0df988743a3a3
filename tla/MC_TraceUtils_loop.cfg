CONSTANTS
    f1 = f1
    f2 = f2
    NoFrame = NoFrame
    FrameId <- MCFrameId
    NumLocals = 1
    MaxPc = 2
    MaxEvents = 7
    WellNested = TRUE
SYMMETRY MCSymmetry
SPECIFICATION Spec
CHECK_DEADLOCK FALSE
INVARIANT LoopBodyLifetime
