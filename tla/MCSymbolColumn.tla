--------------------------- MODULE MCSymbolColumn ---------------------------
EXTENDS SymbolColumn

\* "add" (spec property 4), and the one-letter names "f", "n" and "x".
MCNames == {<<"a", "d", "d">>, <<"f">>, <<"n">>, <<"x">>}

=============================================================================
