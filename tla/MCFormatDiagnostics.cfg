CONSTANTS
    NoString = NoString
    Inputs <- MCInputs

SPECIFICATION Spec

PROPERTY FormatIdempotent
PROPERTY FormatKeepsNesting
