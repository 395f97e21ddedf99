-------------------------- MODULE MCWordAtPosition --------------------------
(* All texts of up to five characters over a letter, a digit, a blank and  *)
(* a line break, and cursor positions up to two lines and four characters *)
(* in, past the ends of most of them.                                      *)
EXTENDS WordAtPosition

MCTexts == UNION {[1..n -> {"a", "1", " ", "\n"}] : n \in 0..5}

=============================================================================
