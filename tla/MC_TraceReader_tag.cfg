CONSTANTS
    f1 = f1
    f2 = f2
    Unknown = Unknown
    NoFrame = NoFrame
    FrameId <- MCFrameId
    NumLocals = 1
    MaxPc = 1
    MaxEvents = 4
    WellNested = TRUE
    \* A supported version, so that only the unknown tag is at issue.
    Version = 1
    SupportedVersions = {1}
    UnknownTags = {Unknown}
SYMMETRY MCSymmetry
SPECIFICATION ReaderSpec
CHECK_DEADLOCK FALSE
INVARIANTS
    UnknownTagIsFatal
