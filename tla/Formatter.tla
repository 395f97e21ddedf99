------------------------------ MODULE Formatter ------------------------------
(***************************************************************************)
(* format_pua of src/editor/lsp/pua_lsp.py, the whole-document formatter  *)
(* behind textDocument/formatting, and the document it rewrites.          *)
(*                                                                         *)
(* A text is the string it stands for, kept as its str.splitlines() lines  *)
(* and whether it ends with "\n".  A line is its leading whitespace (the   *)
(* part lstrip() removes; spaces and tabs) and the rest, over the          *)
(* characters "[" and "]" (the fence tokens are "[[" and "]]"), "h" for a  *)
(* block-header keyword (see Diagnostics) and "x" for any other character. *)
(***************************************************************************)
EXTENDS Naturals, Sequences, FiniteSets, SequencesExt

CONSTANT Inputs   \* the texts formatted

WS    == {" ", "\t"}
Chars == {"[", "]", "h", "x"}

Line  == [ws : Seq(WS), content : Seq(Chars)]
Blank == [ws |-> <<>>, content |-> <<>>]
Text  == [lines : Seq(Line), nl : BOOLEAN]

\* A [lines, nl] pair is the splitlines() of its string: no trailing "\n"
\* means the last line is not empty, and "" has no lines.
IsText(t) ==
    /\ t.lines = <<>> => ~t.nl
    /\ (~t.nl /\ t.lines # <<>>) => Last(t.lines) # Blank

ASSUME \A t \in Inputs : t \in Text /\ IsText(t)

Str(l) == l.ws \o l.content

-----------------------------------------------------------------------------
(* update_multiline_string_state: scan the pairs left to right; "[[" opens *)
(* outside a fence, "]]" closes inside one, and a match skips both chars.  *)
RECURSIVE FenceScan(_, _, _)
FenceScan(s, i, inMl) ==
    IF i >= Len(s) THEN inMl
    ELSE IF ~inMl /\ s[i] = "[" /\ s[i + 1] = "["
         THEN FenceScan(s, i + 2, TRUE)
    ELSE IF inMl /\ s[i] = "]" /\ s[i + 1] = "]"
         THEN FenceScan(s, i + 2, FALSE)
    ELSE FenceScan(s, i + 1, inMl)

UpdateMultilineStringState(s, inMl) == FenceScan(s, 1, inMl)

\* The indentation width: 1 per leading space, 4 per leading tab.
Width(ws) == FoldLeft(LAMBDA acc, c : acc + (IF c = " " THEN 1 ELSE 4), 0, ws)

\* Fault model: a dedent pops one level only (if instead of while).
PopToOnce(stack, col) ==
    IF Len(stack) > 1 /\ col < Last(stack) THEN Front(stack) ELSE stack

\* Pop while more than the base entry is left and the top exceeds col.
RECURSIVE PopTo(_, _)
PopTo(stack, col) ==
    IF Len(stack) > 1 /\ col < Last(stack) THEN PopTo(Front(stack), col) ELSE stack

\* Fault model: one level too deep (len(indent_stack) instead of - 1).
IndentTooDeep(depth) == [k \in 1..(2 * depth + 2) |-> " "]

Indent(depth) == [k \in 1..(2 * depth) |-> " "]

\* line.lstrip()
Stripped(l) == l.content

\* The loop of format_pua from line i on, with indent_stack and
\* in_multiline_string; returns the out list.
RECURSIVE FormatFrom(_, _, _, _)
FormatFrom(ls, i, stack, inMl) ==
    IF i > Len(ls) THEN <<>>
    ELSE LET l == ls[i] IN
         IF inMl
         THEN <<l>> \o FormatFrom(ls, i + 1, stack, UpdateMultilineStringState(Str(l), TRUE))
         ELSE IF Stripped(l) = <<>>
         THEN <<Blank>> \o FormatFrom(ls, i + 1, stack, FALSE)
         ELSE LET col == Width(l.ws)
                  st  == IF col > Last(stack) THEN Append(stack, col)
                         ELSE IF col < Last(stack) THEN PopTo(stack, col)
                         ELSE stack
                  normalized == [ws |-> Indent(Len(st) - 1), content |-> Stripped(l)]
              IN <<normalized>> \o
                 FormatFrom(ls, i + 1, st, UpdateMultilineStringState(Str(normalized), FALSE))

\* "\n".join(out) + ("\n" if the input ended with one), read back as the
\* [lines, nl] of that string.
JoinLines(out, nl) ==
    IF out = <<>> THEN [lines |-> IF nl THEN <<Blank>> ELSE <<>>, nl |-> nl]
    ELSE IF ~nl /\ Last(out) = Blank
         THEN [lines |-> Front(out), nl |-> Len(out) > 1]
    ELSE [lines |-> out, nl |-> nl]

FormatPua(t) == JoinLines(FormatFrom(t.lines, 1, <<0>>, FALSE), t.nl)

-----------------------------------------------------------------------------
(* The document of a formatting client: each textDocument/formatting       *)
(* request replaces it by the returned whole-range edit.                   *)
VARIABLES text, formatted

Init == text \in Inputs /\ formatted = FALSE

FormatRequest ==
    /\ text' = FormatPua(text)
    /\ formatted' = TRUE

Spec == Init /\ [][FormatRequest]_<<text, formatted>>

\* Formatting already formatted text changes nothing (spec property 1):
\* the indent stack, the tab width and the fenced-string state must agree
\* between a text and its own output.
FormatIdempotent == [][formatted => text' = text]_<<text, formatted>>

(* Reference nesting of an input text, without an indent stack.  The     *)
(* code lines are the non-blank lines outside a fenced string; W is their *)
(* width as format_pua measures it (a tab is 4).                          *)
FencedBefore(ls, i) ==
    FoldLeft(LAMBDA inMl, l : UpdateMultilineStringState(Str(l), inMl), FALSE,
             SubSeq(ls, 1, i - 1))
CodeLines(ls) == {i \in 1..Len(ls) : ls[i].content # <<>> /\ ~FencedBefore(ls, i)}
W(ls, i) == Width(ls[i].ws)

\* The widths of the blocks still open at line i: earlier code lines with
\* no code line between them and i indented less.
OpenWidths(ls, i) ==
    {W(ls, j) : j \in {j \in CodeLines(ls) :
                          j < i /\ \A k \in CodeLines(ls) : j < k /\ k < i => W(ls, k) >= W(ls, j)}}

\* Every code line either indents past all open blocks or returns to the
\* width of one of them (or to column 0).
ConsistentIndent(ls) ==
    \A i \in CodeLines(ls) :
        W(ls, i) \in OpenWidths(ls, i) \cup {0} \/ \A v \in OpenWidths(ls, i) : v < W(ls, i)

\* The blocks enclosing code line i, itself included: the distinct open
\* widths above column 0 and up to its own.
BlockDepth(ls, i) ==
    Cardinality({v \in OpenWidths(ls, i) \cup {W(ls, i)} : 0 < v /\ v <= W(ls, i)})

\* For a consistently indented text, format_pua indents every code line
\* by two spaces per block that encloses it in the input, across tabs,
\* blank lines and fenced strings: the indent stack must pop every level
\* a dedent closes and push exactly one per indent.  (A dedent to a column
\* between two open levels is excluded: spec 4.7's stack then pops to the
\* outer level without pushing, so the next line at the same column is
\* indented one level deeper.)
FormatKeepsNesting ==
    [][~formatted /\ ConsistentIndent(text.lines) =>
         \A i \in CodeLines(text.lines) :
            Len(text'.lines[i].ws) = 2 * BlockDepth(text.lines, i)]_<<text, formatted>>

\* The output ends with "\n" if and only if the input did (spec 4.7).
FormatKeepsTrailingNewline ==
    [][~formatted => text'.nl = text.nl]_<<text, formatted>>

=============================================================================
