---------------------------- MODULE WordAtPosition ----------------------------
(***************************************************************************)
(* pos_to_offset and word_at_position of src/editor/lsp/pua_lsp.py: the   *)
(* word a textDocument/definition request looks up for a cursor position  *)
(* (line, character).  A text is a sequence of characters: "a" stands for *)
(* a letter or "_", "1" for a digit, " " for any other character, "\n" for *)
(* a line break.  A word is the [start, end) offsets of a WORD_RE match.   *)
(***************************************************************************)
EXTENDS Naturals, Sequences, SequencesExt, FiniteSetsExt

CONSTANTS Texts, MaxLine, MaxCharacter, None

IsWordChar(c) == c \in {"a", "1"}   \* [A-Za-z0-9_]

\* The end of the run of word characters from index i on.
RECURSIVE RunEnd(_, _)
RunEnd(s, i) == IF i <= Len(s) /\ IsWordChar(s[i]) THEN RunEnd(s, i + 1) ELSE i

\* WORD_RE.finditer(text): a match starts at a letter and takes the
\* following letters and digits; the search resumes after it.
RECURSIVE Matches(_, _)
Matches(s, i) ==
    IF i > Len(s) THEN <<>>
    ELSE IF s[i] = "a"
         THEN <<[start |-> i - 1, end |-> RunEnd(s, i) - 1]>> \o Matches(s, RunEnd(s, i))
    ELSE Matches(s, i + 1)

\* text.splitlines(keepends=True): a line ends after each "\n".
Breaks(s) == SelectSeq([k \in 1..Len(s) |-> k], LAMBDA k : s[k] = "\n")
LineCount(s) == Len(Breaks(s)) + (IF s # <<>> /\ Last(s) # "\n" THEN 1 ELSE 0)
\* sum(len(lines[i]) for i in range(line))
LineStart(s, j) == IF j = 0 THEN 0 ELSE Breaks(s)[j]

PosToOffset(s, line, character) ==
    IF line >= LineCount(s) THEN Len(s)
    ELSE Min({LineStart(s, line) + character, Len(s)})

\* The first match with m.start() <= offset <= m.end(), or None.
WordAtPosition(s, line, character) ==
    LET off  == PosToOffset(s, line, character)
        ms   == Matches(s, 1)
        hits == {k \in 1..Len(ms) : ms[k].start <= off /\ off <= ms[k].end}
    IN IF hits = {} THEN None ELSE ms[Min(hits)]

-----------------------------------------------------------------------------
(* A definition request: the document and the cursor position it names.    *)
VARIABLES text, line, character, word

Init ==
    /\ text \in Texts
    /\ line \in 0..MaxLine
    /\ character \in 0..MaxCharacter
    /\ word = WordAtPosition(text, line, character)

Spec == Init /\ [][FALSE]_<<text, line, character, word>>

\* The offset just after the last character of line j, before its "\n".
LineEnd(s, j) == IF j < Len(Breaks(s)) THEN Breaks(s)[j + 1] - 1 ELSE Len(s)

\* The word looked up for a cursor on an existing line lies on that line:
\* the protocol counts a character past the end of a line as the end of
\* that line, while pos_to_offset adds it to the line's start offset and
\* so can reach a word on a following line.
WordOnCursorLine ==
    (word # None /\ line < LineCount(text)) =>
        LineStart(text, line) <= word.start /\ word.end <= LineEnd(text, line)

=============================================================================
