CONSTANTS
    r1 = r1
    r2 = r2
    Roots = {r1, r2}
    None = None
    Null = Null
    Uris <- MCUris
    Under <- MCUnder
    PathOf <- MCPathOf
    Names <- MCNames
    Texts <- MCTexts
    FileOf <- MCFileOfAliased
    NullTextAllowed = FALSE
    ClientInitializesFirst = FALSE

SPECIFICATION Spec

INVARIANT NoDoubleCounting


\* The process exits after "exit" or at the end of input.
CHECK_DEADLOCK FALSE
