CONSTANTS
    f1 = f1
    f2 = f2
    Unknown = Unknown
    NoFrame = NoFrame
    FrameId <- MCFrameId
    NumLocals = 1
    MaxPc = 1
    MaxEvents = 2
    WellNested = TRUE
    \* The scenario of the specification's testable properties.
    Version = 999
    SupportedVersions = {1}
    UnknownTags = {}
SYMMETRY MCSymmetry
SPECIFICATION ReaderSpec
CHECK_DEADLOCK FALSE
INVARIANTS
    VersionChecked
