CONSTANTS
    NoString = NoString
    Inputs <- MCInputs

SPECIFICATION Spec

PROPERTY FormatKeepsTrailingNewline
