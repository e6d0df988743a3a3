CONSTANTS
    f1 = f1
    f2 = f2
    NoFrame = NoFrame
    FrameId <- MCFrameId
    NumLocals = 2
    MaxPc = 2
    MaxEvents = 6
    WellNested = FALSE
SYMMETRY MCSymmetry
SPECIFICATION Spec
CHECK_DEADLOCK FALSE
INVARIANT FrameStackMatchesEvents
