\* Every list of up to six children of the five kinds.
SPECIFICATION Spec
CONSTANTS
    Kinds <- MCKinds
    Input <- MCInput
    FormattingKinds <- MCFormatting
INVARIANTS
    NoCommentTwice
    CommentsKept
    OwnLineCommentLeads
CHECK_DEADLOCK FALSE
