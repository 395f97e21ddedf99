CONSTANTS
    None = None
    Texts <- MCTexts
    MaxLine = 2
    MaxCharacter = 4

SPECIFICATION Spec

INVARIANT WordOnCursorLine

\* A single request: no step follows it.
CHECK_DEADLOCK FALSE
