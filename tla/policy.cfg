SPECIFICATION Spec

CONSTANT
    Versions <- MCVersions
    Characters = {"1", "0", "."}
    MaxLen = 5
    TTLs <- MCTTLs

INVARIANTS
    GuardMatchesList
    ShortLabelExact
    ShortLabelTypedBack
    StatusTypedBack

PROPERTY
    SeparatorIsNeutral

\* The list is full.
CHECK_DEADLOCK FALSE
