--------------------------- MODULE MCDiagnostics ---------------------------
(* Documents of at most two lines and five characters over the characters  *)
(* the bracket pass tells apart: two kinds of brackets, both quotes and    *)
(* the backslash.                                                          *)
EXTENDS Diagnostics

MCAlphabet == {"(", ")", "[", "]", "\"", "'", "\\"}

=============================================================================
