CONSTANTS
    NoString = NoString
    Alphabet <- MCAlphabet
    MaxChars = 6
    MaxLines = 3

SPECIFICATION Spec

INVARIANT BracketScanSeesLineEnds

\* Typing stops at the bounds.
CHECK_DEADLOCK FALSE
