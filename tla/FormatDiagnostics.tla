-------------------------- MODULE FormatDiagnostics --------------------------
(***************************************************************************)
(* The formatter and the diagnostics engine on one document.  A client     *)
(* asks for textDocument/formatting, applies the returned whole-document  *)
(* edit and sends it back with didChange; update_doc then publishes the   *)
(* diagnostics of the formatted text, as it did those of the text before. *)
(* Both read the same lines: format_pua's [ws, content] lines are their   *)
(* strings.                                                               *)
(***************************************************************************)
EXTENDS Formatter

CONSTANT NoString

D == INSTANCE Diagnostics WITH Alphabet <- {}, MaxChars <- 0, MaxLines <- 0,
                               doc <- <<>>, published <- {}

\* text.splitlines() as the diagnostics passes see it.
AsLines(t) == [i \in 1..Len(t.lines) |-> Str(t.lines[i])]

\* The diagnostics update_doc publishes when the client sends t.
Published(t) == D!BuildDiagnostics(AsLines(t))

HeaderErrors(ds) ==
    {<<d.line, d.message>> : d \in {d \in ds : d.message \in {"no_indented_block", "no_block_at_eof"}}}

\* Formatting, which spec 4.7 calls indentation normalising, never makes the
\* block-header pass report a header without an indented block that it did
\* not report before: format_pua measures a tab as 4 columns and copies
\* fenced lines, build_diagnostics counts every leading blank as 1.
FormattingAddsNoBlockErrors ==
    [][~formatted => HeaderErrors(Published(text')) \subseteq HeaderErrors(Published(text))]_<<text, formatted>>

=============================================================================
