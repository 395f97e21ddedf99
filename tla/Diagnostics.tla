----------------------------- MODULE Diagnostics -----------------------------
(***************************************************************************)
(* build_diagnostics of src/editor/lsp/pua_lsp.py: the three passes over   *)
(* text.splitlines(), and the diagnostics publish_diagnostics sends after *)
(* every change of a document.                                             *)
(*                                                                         *)
(* A document is the list of its lines, a line a sequence of characters.  *)
(* "h" stands for a block-header keyword and the boundary after it (the    *)
(* text HEADER_RE matches), "x" for any other character that none of the *)
(* passes looks at.  A diagnostic keeps its range, its severity and which *)
(* of the six messages it carries; the wording is left out.               *)
(***************************************************************************)
EXTENDS Naturals, Sequences, SequencesExt, FiniteSetsExt

CONSTANT NoString

Openers == {"(", "[", "{"}
\* pairs = {")": "(", "]": "[", "}": "{"}
Pairs   == (")" :> "(") @@ ("]" :> "[") @@ ("}" :> "{")
Quotes  == {"\"", "'"}
Spaces  == {" ", "\t"}    \* what str.lstrip() removes from these lines

Diag(ln, c0, c1, sev, msg) ==
    [line |-> ln, start |-> c0, end |-> c1, severity |-> sev, message |-> msg]

\* str.lstrip(chars)
RECURSIVE LStrip(_, _)
LStrip(s, chars) == IF s # <<>> /\ Head(s) \in chars THEN LStrip(Tail(s), chars) ELSE s

IndentOf(l) == Len(l) - Len(LStrip(l, Spaces))

-----------------------------------------------------------------------------
(* Pass 1: a tab anywhere warns for the line and skips the odd check.      *)
WhitespaceDiag(ls, i) ==
    LET line     == ls[i]
        stripped == LStrip(line, {" "})
        indent   == Len(line) - Len(stripped)
    IN IF "\t" \in ToSet(line)
       THEN {Diag(i - 1, 0, IF Len(line) > 1 THEN Len(line) ELSE 1, 2, "tab")}
       ELSE IF stripped # <<>> /\ indent % 2 # 0
       THEN {Diag(i - 1, 0, indent, 2, "odd_indent")}
       ELSE {}

(* Pass 2: a header line must be followed, past blank lines, by a line     *)
(* indented further (both indents by str.lstrip(), a tab counting 1).      *)
IsHeader(l) == LET s == LStrip(l, Spaces) IN s # <<>> /\ Head(s) = "h"

HeaderDiag(ls, i) ==
    LET line  == ls[i]
        later == {j \in (i + 1)..Len(ls) : LStrip(ls[j], Spaces) # <<>>}
    IN IF ~IsHeader(line) THEN {}
       ELSE IF later = {}
       THEN {Diag(i - 1, 0, Len(line), 1, "no_block_at_eof")}
       ELSE IF IndentOf(ls[Min(later)]) <= IndentOf(line)
       THEN {Diag(i - 1, 0, Len(line), 1, "no_indented_block")}
       ELSE {}

(* Pass 3: one scan over the characters of all lines in order, a position  *)
(* being [ch, ln, col]; the string and escape state carry over from one    *)
(* line to the next, and the line ends themselves are not scanned.         *)
LinePositions(ls, i) == [k \in 1..Len(ls[i]) |-> [ch |-> ls[i][k], ln |-> i - 1, col |-> k - 1]]
Positions(ls) == FlattenSeq([i \in 1..Len(ls) |-> LinePositions(ls, i)])

ScanStart == [stack |-> <<>>, inString |-> NoString, escape |-> FALSE, diags |-> {}]

Unmatched(p) == Diag(p.ln, p.col, p.col + 1, 1, "unmatched")

\* Fault model: a closer pops any opener (the kind of the top is not checked).
BracketStepNoKindCheck(s, p) ==
    CASE s.inString # NoString /\ s.escape    -> [s EXCEPT !.escape = FALSE]
      [] s.inString # NoString /\ p.ch = "\\" -> [s EXCEPT !.escape = TRUE]
      [] s.inString # NoString /\ p.ch = s.inString -> [s EXCEPT !.inString = NoString]
      [] s.inString # NoString                -> s
      [] p.ch \in Quotes  -> [s EXCEPT !.inString = p.ch]
      [] p.ch \in Openers -> [s EXCEPT !.stack = Append(@, p)]
      [] p.ch \in DOMAIN Pairs /\ s.stack = <<>> ->
            [s EXCEPT !.diags = @ \cup {Unmatched(p)}]
      [] p.ch \in DOMAIN Pairs -> [s EXCEPT !.stack = Front(@)]
      [] OTHER -> s

BracketStep(s, p) ==
    CASE s.inString # NoString /\ s.escape    -> [s EXCEPT !.escape = FALSE]
      [] s.inString # NoString /\ p.ch = "\\" -> [s EXCEPT !.escape = TRUE]
      [] s.inString # NoString /\ p.ch = s.inString -> [s EXCEPT !.inString = NoString]
      [] s.inString # NoString                -> s
      [] p.ch \in Quotes  -> [s EXCEPT !.inString = p.ch]
      [] p.ch \in Openers -> [s EXCEPT !.stack = Append(@, p)]
      [] p.ch \in DOMAIN Pairs /\ (s.stack = <<>> \/ Last(s.stack).ch # Pairs[p.ch]) ->
            [s EXCEPT !.diags = @ \cup {Unmatched(p)}]
      [] p.ch \in DOMAIN Pairs -> [s EXCEPT !.stack = Front(@)]
      [] OTHER -> s

\* The scan, then one "unclosed" error per opener left on the stack.
RECURSIVE ScanFrom(_, _, _)
ScanFrom(ps, i, s) == IF i > Len(ps) THEN s ELSE ScanFrom(ps, i + 1, BracketStep(s, ps[i]))
BracketScan(ps) ==
    LET s == ScanFrom(ps, 1, ScanStart)
    IN s.diags \cup {Diag(p.ln, p.col, p.col + 1, 1, "unclosed") : p \in ToSet(s.stack)}

BracketPass(ls) == BracketScan(Positions(ls))

BuildDiagnostics(ls) ==
    UNION {WhitespaceDiag(ls, i) \cup HeaderDiag(ls, i) : i \in 1..Len(ls)}
        \cup BracketPass(ls)

-----------------------------------------------------------------------------
(* An open document and the diagnostics last published for it.  The      *)
(* client types: each didChange sends the whole text with one more         *)
(* character, or one more line break, at its end; update_doc publishes.    *)
CONSTANTS Alphabet, MaxChars, MaxLines

VARIABLES doc, published

Init == doc = <<>> /\ published = BuildDiagnostics(<<>>)

Publish(t) == doc' = t /\ published' = BuildDiagnostics(t)

TypeChar ==
    \E c \in Alphabet :
        /\ Len(FlattenSeq(doc)) < MaxChars
        /\ Publish(IF doc = <<>> THEN <<<<c>>>> ELSE [doc EXCEPT ![Len(doc)] = Append(@, c)])

TypeNewline ==
    /\ 0 < Len(doc) /\ Len(doc) < MaxLines
    /\ Publish(Append(doc, <<>>))

Spec == Init /\ [][TypeChar \/ TypeNewline]_<<doc, published>>

-----------------------------------------------------------------------------
(* Reference definitions.                                                  *)
BracketMessages == {"unmatched", "unclosed"}

\* The characters outside string literals: a quote opens a literal that the
\* next unescaped quote of the same kind closes; a backslash in a literal
\* escapes the next character.
RECURSIVE CodeChars(_), AfterLiteral(_, _)
CodeChars(s) ==
    IF s = <<>> THEN <<>>
    ELSE IF Head(s) \in Quotes THEN CodeChars(AfterLiteral(Tail(s), Head(s)))
    ELSE <<Head(s)>> \o CodeChars(Tail(s))
AfterLiteral(s, q) ==
    IF s = <<>> THEN <<>>
    ELSE IF Head(s) = "\\" THEN AfterLiteral(IF Len(s) > 1 THEN Tail(Tail(s)) ELSE <<>>, q)
    ELSE IF Head(s) = q THEN Tail(s)
    ELSE AfterLiteral(Tail(s), q)

\* A bracket sequence is balanced when cancelling adjacent matching pairs
\* (the Dyck reduction) leaves nothing.
RECURSIVE Balanced(_)
Balanced(s) ==
    LET adj == {k \in 1..(Len(s) - 1) : s[k + 1] \in DOMAIN Pairs /\ s[k] = Pairs[s[k + 1]]}
    IN IF adj = {} THEN s = <<>>
       ELSE Balanced(SubSeq(s, 1, Min(adj) - 1) \o SubSeq(s, Min(adj) + 2, Len(s)))

BracketsOf(s) == SelectSeq(CodeChars(s), LAMBDA c : c \in Openers \cup DOMAIN Pairs)

\* The bracket pass reports nothing exactly when the brackets outside
\* string literals are balanced: the stack of build_diagnostics must pop
\* only on the matching opener and report every leftover opener.
BracketVerdict ==
    ({d \in published : d.message \in BracketMessages} = {})
        <=> Balanced(BracketsOf(FlattenSeq(doc)))

\* The characters of "\n".join(lines): the end of every line but the last
\* is a character of the scan too.
TextPositions(ls) ==
    LET LineEnd(i) == IF i < Len(ls) THEN <<[ch |-> "\n", ln |-> i - 1, col |-> Len(ls[i])]>>
                      ELSE <<>>
    IN FlattenSeq([i \in 1..Len(ls) |-> LinePositions(ls, i) \o LineEnd(i)])

\* Spec 4.6 describes the bracket pass as a single left-to-right scan of the
\* document's text: the diagnostics are those of scanning the whole text,
\* line ends included, so a backslash that ends a line inside a string
\* literal escapes the line end and not the first character of the next line.
BracketScanSeesLineEnds ==
    {d \in published : d.message \in BracketMessages} = BracketScan(TextPositions(doc))

=============================================================================
