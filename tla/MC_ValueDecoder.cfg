SPECIFICATION Spec
CONSTANTS
    Precision = 4
    Lits <- MCLits
    Strs = {"0x2"}
    FieldNames = {"a", "b"}
    TypeNames = {"T"}
    VariantNames = {"V"}
    VariantTags = {0}
    NoVariant = NoVariant
    Inputs <- MCInputs
INVARIANTS
    DecodeMatchesCanonical
CHECK_DEADLOCK FALSE
