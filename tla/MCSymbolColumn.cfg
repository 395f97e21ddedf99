CONSTANTS
    Names <- MCNames
    MaxIndent = 2
    MaxGap = 2

SPECIFICATION Spec

INVARIANT ColumnIsIdentifierStart

\* collect_symbols is a pure function: a line has no successor.
CHECK_DEADLOCK FALSE
