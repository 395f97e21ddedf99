---------------------------- MODULE SymbolColumn ----------------------------
(***************************************************************************)
(* The column collect_symbols (src/editor/lsp/pua_lsp.py) records for a   *)
(* declaration: col = line.find(name), the first occurrence of the name    *)
(* anywhere in the line.  Lines are character sequences of the two header  *)
(* shapes FUNC_RE and ASSIGN_RE match; the column is what definition and   *)
(* documentSymbol report as the start of the declared identifier.          *)
(***************************************************************************)
EXTENDS Naturals, Sequences, SequencesExt, FiniteSets

CONSTANTS Names,      \* identifiers, as character sequences
          MaxIndent,  \* leading spaces
          MaxGap      \* spaces between "fn" and the name

Spaces(k) == [i \in 1..k |-> " "]

\* "<indent>fn<gap><name>(" and "<indent><name> =", the lines FUNC_RE and
\* ASSIGN_RE match, with the column where the identifier starts.
FnHeader(i, g, n) == Spaces(i) \o <<"f", "n">> \o Spaces(g) \o n \o <<"(">>
Assignment(i, n)  == Spaces(i) \o n \o <<" ", "=">>

\* str.find: the lowest index at which sub occurs in s, or -1.
Find(s, sub) ==
    LET hits == {k \in 0..(Len(s) - Len(sub)) : SubSeq(s, k + 1, k + Len(sub)) = sub}
    IN IF hits = {} THEN -1 ELSE Min(hits)

VARIABLES line, name, start, col

\* One declaration line, the name the regex captured and where it starts.
Init ==
    /\ \E i \in 0..MaxIndent, n \in Names :
          \/ \E g \in 1..MaxGap :
                /\ line = FnHeader(i, g, n)
                /\ start = i + 2 + g
          \/ /\ line = Assignment(i, n)
             /\ start = i
          /\ name = n
    /\ col = Find(line, name)

\* collect_symbols is a pure function of the line: nothing else happens.
Spec == Init /\ [][FALSE]_<<line, name, start, col>>

\* The recorded column is where the declared identifier begins (spec 4.4
\* and testable property 4), so that definition jumps to it.
ColumnIsIdentifierStart == col = start

=============================================================================
