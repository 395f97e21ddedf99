# TLA+ models of the pua language server

This directory holds TLA+ models of `src/editor/lsp/pua_lsp.py`, the language
server for the pua scripting language (see `spec.md`), and the TLC
configurations that check them. The other sources (`src/benchmarks/*`,
`src/examples/perf.py`, `src/tests/26_json_perf.py`) are standalone timing
scripts. They share no state or protocol with the server and are not modelled.

## 1. Inventory

### Components and their state

| Component | Code | State | Operations |
|---|---|---|---|
| Transport / protocol engine | `read_message`, `send`, `respond`, `notify`, `run` (281-316, 541-560) | the input stream; nothing else | read one framed message; end of input or bad `Content-Length` → loop ends; bad JSON body → uncaught exception; dispatch request / notification; exception → error response (request) or nothing (notification) |
| Lifecycle | `run`, `handle_request` initialize/shutdown, `handle_notification` exit | `running`, `shutdown_requested` | initialize, shutdown, exit, end of input; exit code `0 if shutdown_requested else 1` |
| Document store | `self.docs`, `update_doc`, didOpen/didChange/didSave/didClose | dict uri → text (insertion ordered) | store / replace whole text, pop |
| Symbol extractor | `collect_symbols` (58-80) | pure | per line: `FUNC_RE` then `ASSIGN_RE`, first `(name, kind)` wins, `col = line.find(name)` |
| Workspace symbol index | `_index_text`, `refresh_workspace_index`, `find_symbol_location`, completion, definition (327-379, 414-445) | `workspace_symbols` name → [(uri, Symbol)], `workspace_roots` | local reindex of one uri (open/change); full rebuild: open docs in dict order, then `*.pua` under every root that is not open, read failures skipped (initialize, save, close, folder change); definition lookup preferring the requesting uri |
| Diagnostics engine | `build_diagnostics` (136-270) | pure | whitespace pass, block-header pass, bracket/string pass; published after every text change |
| Formatter | `format_pua` (83-133) | pure | indent stack + fenced-string (`[[ ]]`) state, trailing newline from the input |

### How they interact

One loop (`run`) reads a message, calls one handler to completion, and writes
at most one response. Handlers mutate the document store and the index and
publish diagnostics. The symbol extractor feeds the index and the
documentSymbol/completion handlers. The diagnostics engine and the formatter
are pure functions of a stored text. The only other actor is the file system:
other programs can edit `*.pua` files at any time, and the server reads them
during a full reindex.

### What is hard here

There is no concurrency inside the server, so the hard behaviours come from
sequences of messages:

* **Partial failure.** A handler exception is swallowed for notifications,
  after part of the handler ran (`update_doc` stores the text before indexing
  it). A full reindex clears the index first and raises at the first bad
  document.
* **Derived state.** The index is a cache of the open buffers plus the disk.
  It must never let a disk copy replace a buffer, keep a closed buffer, or
  keep files of a removed root. The disk changes behind its back.
* **Identity.** Open documents are keyed by the client's URI string. Disk
  files are keyed by `Path.resolve().as_uri()`.
* **Ordering.** Diagnostics are published after the text is stored; folder
  changes add and then remove; the definition sort relies on `sorted` being
  stable.
* **Protocol sequence.** The lifecycle is not enforced by the code at all,
  and the exit code depends only on one flag.
* **Character-level algorithms.** The column of a declaration, the
  formatter's stack/tab/fence interplay, and the bracket scanner's string
  state that crosses line ends.

### Properties that make each component correct

* Lifecycle: the spec's state machine (Uninitialized → Running →
  ShutdownRequested → Exited) and exit code 0 exactly for shutdown-then-exit.
* Store + index: the entries under an open uri are exactly the symbols of its
  buffer. No entry is orphaned (every entry comes from an open doc or a file
  below a current root). No file is counted twice.
* Diagnostics publication: the last diagnostics sent for an open document are
  those of its current text.
* Definition: locality. A name declared in the requesting document resolves
  to that document's first declaration.
* Symbol extractor: the recorded column is the identifier's start.
* Formatter: idempotent, changes only indentation, keeps the trailing newline
  iff present.
* Document store: a document is in the store only between its didOpen and
  its didClose.
* Diagnostics engine: the bracket pass reports nothing exactly when the
  brackets outside strings are balanced. It behaves like one scan of the
  whole text, line ends included.
* Formatter: formatting its own output changes nothing, and each line of a
  consistently indented text is indented two spaces per enclosing block.
* Formatter × diagnostics: formatting adds no block-header error.
* Definition position: the word looked up for a cursor lies on the cursor's
  line.

The hazards are listed, each at its line, under `hazards` in `PROJECT.json`.

## 2. Plan

Modules, in order of importance (✓ = done):

1. ✓ `LspServer`: the server loop as one action per handler. It covers
   lifecycle, store, index, roots, publication, the file system as
   environment, and the fault models used as mutants. `MCLspServer`
   instantiates it, and `LspLifecycle` is the abstract lifecycle from the
   spec, refined by a mapping in `MCLspServer`.
2. ✓ `Formatter`: `format_pua` as a RECURSIVE operator over character-level
   lines, plus a client that keeps formatting the document.
3. ✓ `SymbolColumn`: the column computation of `collect_symbols`.
4. ✓ `Diagnostics`: the three passes over character-level lines. The bracket
   pass is checked against a reference Dyck definition, and the string state
   is checked across line ends.
5. ✓ `FormatDiagnostics`: the formatter's output as the diagnostics engine
   sees it.
6. ✓ `WordAtPosition`: the `pos_to_offset` / `word_at_position` boundaries.
7. ✓ `WorkspaceIndex`: the abstract index of spec 4.5, refined by
   `LspServer` through the mapping `OpenDocs` in `MCLspServer`.
8. Next: feed the definition request from `WordAtPosition` instead of a free
   word. This needs texts that are both character-level and line-level, so
   it is held back by the size of the state space.

## 3. Modules

### `LspServer.tla` (core)

* State: `docs` (`self.docs` as a sequence of `<<uri, text>>` pairs in dict
  order), `index` (`workspace_symbols` as a set of `[uri, name, line, kind]`
  entries; within a uri the code's list order is the line order, which `line`
  records), `roots`, `running`, `shutdownRequested`, `exitCode` (`None` while
  the loop runs), `disk` (file contents), `published` (text of the last
  diagnostics sent per uri), `out` (the response written by the step). It also
  has two history variables, which are not in the code. `initialized` is used
  by the lifecycle refinement. `opened` is the set of URIs opened by didOpen
  and not closed since, and is used by `DocsWereOpened`.
* Data: a text is a sequence of lines, each a function header, an assignment
  or another line (`FnLine`, `AssignLine`, `OtherLine`). URIs are numbers,
  ordered as their strings sort (the sort key of `find_symbol_location`).
  Roots are folder URIs (model values). `PathOf[f]` is `uri_to_path(f)`, and
  `workspace_roots` holds these paths. `Under[p]` is the set of file URIs
  (`path_to_uri`) below path `p`. `Null` is a
  JSON null sent where a text belongs.
* Actions: one per handler (`Initialize`, `Shutdown`, `Completion`,
  `Definition`, `DocumentSymbol`, `Formatting`, `UnknownRequest`, `DidOpen`,
  `DidChange`, `DidSave`, `DidClose`, `DidChangeWorkspaceFolders`, `Exit`),
  `Ignored` (an `initialized` or unknown notification, or a message without
  a method, which `run()` skips), the read outcomes (`StreamEnd`,
  `ReadCrash`) and the environment (`DiskWrite`). Each handler's trailing
  full reindex is part of its action (`Refresh`). Read failures are a
  nondeterministic subset `readOk` of the files the reindex tries to read
  (`ToRead`). A didChange with an empty `contentChanges` returns before any
  effect and is a stuttering step.
* Left out: JSON framing and encoding; completion item kinds and sort texts;
  the capabilities payload; keyword completions (a constant list); the
  formatter's and the diagnostics' output inside the server (modelled in
  their own modules).

### `LspLifecycle.tla`

This is the lifecycle promised by spec 4.2 and 6, written from the spec,
with states Uninitialized, Running, ShutdownRequested, Exited (by exit) and
Disconnected (end of input or a fatal transport error, code 1).
`MCLspServer!LifecycleSpec` checks `LspServer` against it with the mapping
`LifecycleState`. Its only run expects a violation, and TLC stops at the first
one. Its breadth-first search reaches that violation at depth 3
(initialize, shutdown, end of input), so the exit paths of the mapping are
checked only in the behaviours of up to that length.

### `WorkspaceIndex.tla`

This is the index promised by spec 4.5, written from the spec. Its open
documents are a function from URI to text. The index changes only in two
ways:

* `LocalUpdate(u, t)`: the entries of `u` are replaced by those of `t`.
* `Rebuild`: the entries of every open document, plus those of some of the
  unopened files below the current roots, read from the disk as it is now.

`FileEdit` changes the disk and leaves the index alone. How the store and the
roots change is left to `LspServer`. In `MCLspServer`, `Ws` instantiates the
module with `open <- OpenDocs` and `Symbols <- Entries`, and
`WorkspaceIndexSpec == Ws!Spec` is a property of the server_core run. The
property fails if a closed buffer, a removed folder or an older disk version
of a file leaves entries behind after a rebuild. It also fails if a file's
disk copy replaces an open buffer. It cannot catch a file that is still below
a root being dropped, because a rebuild may omit any file as a read failure.
For the same reason, a local update that also wipes entries of unopened files
would pass as a rebuild.

### `Formatter.tla`

A text is its `splitlines()` lines plus whether it ends with `"\n"`. A line
is its leading whitespace (spaces, tabs) and the rest, over `[`, `]`, `h` (a
block-header keyword) and `x` (any other character). `FenceScan` is `update_multiline_string_state`.
`FormatFrom` is the loop with `indent_stack` and `in_multiline_string`.
`JoinLines` is the final join read back as a text. The state machine is a
client whose document is replaced by each formatting response.

`FormatKeepsNesting` checks the indent stack against a reference defined
without one. `OpenWidths(ls, i)` is the set of widths of earlier code lines
whose block is still open at line `i`, meaning no code line in between is
indented less. `BlockDepth` counts the open blocks that enclose the line. A
text is `ConsistentIndent` when every dedent returns to an open width. The
other case follows spec 4.7's algorithm and is excluded from the property.
For example, in `if a:` / 4-space `x` / 2-space `y` / 2-space `z`, `y` pops
to column 0 and `z` is then pushed one level deep.

### `Diagnostics.tla`

A document is its list of lines, and a line is a sequence of characters.
`h` stands for a header keyword and the word boundary after it. A diagnostic
is its range, its severity and one of six message kinds; the wording is left
out.

* `WhitespaceDiag` is the first loop.
* `HeaderDiag` is the second loop. Its forward search is the smallest later
  non-blank line.
* `BracketStep` is one iteration of the character loop of the third pass,
  over the state `[stack, inString, escape, diags]`. `BracketScan` runs it
  over the positions of all lines and reports the leftover openers.
* The state machine is a client typing one character or one line break per
  didChange. `update_doc` publishes after each one.

Two definitions are references rather than translations of the code:
`CodeChars` (the characters outside string literals) and `Balanced` (Dyck
reduction). `TextPositions` is the scan of spec 4.6, in which line ends are
characters.

### `FormatDiagnostics.tla`

This module EXTENDS `Formatter` and instantiates `Diagnostics`. `Published(t)`
is what `update_doc` publishes when the client sends the formatted text. The
formatter's lines are turned into character strings (`AsLines`).

### `WordAtPosition.tla`

A text is a character sequence over a letter, a digit, a blank and a line
break.

* `Matches` is `WORD_RE.finditer`.
* `PosToOffset` is `pos_to_offset`, with `splitlines(keepends=True)` given by
  the line-break positions.
* `WordAtPosition` is the first match with `start <= offset <= end`.

One state is one definition request: a text and a cursor position.

### `SymbolColumn.tla`

Header and assignment lines as character sequences, `str.find`, and the
column `collect_symbols` records.

## 4. Runs

| Run | Config | Expect | Checks |
|---|---|---|---|
| server_core | `MCLspServer.cfg` | pass | `TypeOK`, `IndexMatchesOpenDocs`, `IndexHasNoOrphans`, `DiagnosticsMatchOpenDocs`, `DefinitionPrefersCurrentDoc`, and the refinement `WorkspaceIndexSpec`, under every sequence of well-formed messages and disk writes (140,640 states) |
| server_uri_alias | `MCLspServer_alias.cfg` | violation | `NoDoubleCounting` when client URI 2 names disk file 1 |
| server_null_text | `MCLspServer_null.cfg` | violation | `IndexMatchesOpenDocs` when a client may send a null text |
| server_unopened_docs | `MCLspServer_opened.cfg` | violation | `DocsWereOpened`: didChange of a URI never opened |
| lifecycle_eof_after_shutdown | `MCLspServer_eof.cfg` | violation | `LifecycleSpec` with a client that initializes first |
| formatter | `MCFormatDiagnostics.cfg` | pass | `FormatIdempotent`, `FormatKeepsNesting` for all 790,531 texts of ≤ 4 lines |
| formatter_trailing_newline | `MCFormatDiagnostics_newline.cfg` | violation | `FormatKeepsTrailingNewline` |
| format_adds_block_errors | `MCFormatDiagnostics_blocks.cfg` | violation | `FormattingAddsNoBlockErrors` |
| diagnostics_brackets | `MCDiagnostics.cfg` | pass | `BracketVerdict` for all documents of ≤ 3 lines and ≤ 6 characters (3,686,880 states) |
| diagnostics_line_end | `MCDiagnostics_lineend.cfg` | violation | `BracketScanSeesLineEnds` |
| symbol_column | `MCSymbolColumn.cfg` | violation | `ColumnIsIdentifierStart` |
| word_past_line_end | `MCWordAtPosition.cfg` | violation | `WordOnCursorLine` |

Every property of a passing run has a fault-model operator, defined just
before the definition it replaces:

* `StoreDocAppend`
* `IndexTextNoDrop`
* `DidCloseNoRefresh`
* `UpdateDocPublishFirst`
* `FindSymbolLocationNoLocality`
* `RefreshNoClear` (the index is not cleared before a rebuild)
* `IndentTooDeep`
* `PopToOnce` (a dedent pops one level only)
* `BracketStepNoKindCheck`

Each one models a plausible slip in the code. TLC finds the property
violated when the fault model replaces the real definition.

With `ClientInitializesFirst = FALSE`, `LifecycleSpec` fails in one step:
shutdown is served before initialize (line 410). The code has no lifecycle
guard at all.

### Findings

1. **Double counting through URI aliases**
   (`refresh_workspace_index`, line 353). The open-document skip compares
   `Path.resolve().as_uri()` with the client's string. A buffer opened
   through a symlinked folder, or through an escaped Windows drive letter, is
   indexed twice: once from the buffer, once from its stale disk copy.
2. **One null text poisons every full reindex** (lines 343, 362). The `None`
   stays in `self.docs`. Every later save, close or folder change clears the
   index and raises at it, so later documents and all workspace files
   disappear.
3. **Exit code 0 without exit** (line 560). End of input after shutdown
   returns 0. Spec 6 gives 0 only for shutdown followed by exit.
4. **Formatter adds a trailing newline** (line 133). For example, `"\n "`
   formats to `"\n"`.
5. **Wrong declaration column** (line 65). `line.find(name)` finds `n` or
   `f` inside `fn`.
6. **Documents that were never opened** (line 360). didChange, and didSave
   with text, store any URI. Spec 3 says a document exists only from its
   open to its close.
7. **Escape across a line end** (line 223). The bracket scan never sees line
   ends. For the lines `'\` and `'[`, the backslash escapes the second
   quote, and nothing is reported. A scan of the whole text reports `[`.
8. **Formatting creates block errors** (line 178). The header pass counts a
   tab as 1 column, and the formatter counts it as 4. Take `<tab>if ...`
   followed by a body indented by two spaces: the diagnostics accept it, and
   after formatting they report "Expected an indented block".
9. **A cursor past a line end selects a word on the next line** (line 47).
   `pos_to_offset` clamps only to the text length, so `"\na"` at (0, 1)
   looks up `a`.

## 5. Bounds and why they suffice

* `MCLspServer`:
  * Two URIs: 1 is a disk file, 2 is an unsaved buffer, and in the alias run
    2 is another spelling of 1.
  * Two folder URIs `r1` and `r2`, with the paths `/w1` and `/w 2` (the
    second is percent-encoded in its URI). Both paths contain file 1, so
    removing one root must keep the file.
  * Names `a` and `b`.
  * Three texts: empty; `fn a` on line 0; and `b = / fn a / other / b = /
    fn b`. The third has a duplicate assignment, the same name with two
    kinds, and `a` on another line than in the second text.

  With these, a name is declared both in the requesting document and in a
  lower URI, which is what the locality key decides. A buffer can shadow its
  disk copy, and a close can leave a file that is or is not below a root.
  The depth of the state graph is 9. `rootUri` is enumerated only when no
  folder is sent, because the code reads it only then. A read failure is
  chosen among the files the reindex reads. These choices cut duplicate
  transitions and leave every reachable state in the model.
* `MCFormatDiagnostics`: up to four lines. Leading whitespace is one of
  `""`, `" "`, `"  "` and a tab, so the widths are 0, 1, 2 and 4 (push, pop
  to a level, pop between levels, tab versus spaces). Contents are empty,
  plain, a header, `[[`, `]]` or `[[]]` (open, close, and both on one line).
* `MCDiagnostics`: up to three lines and six characters in total, over `(`,
  `)`, `[`, `]`, both quotes and the backslash. This covers a wrong-kind
  closer under a right-kind opener (`([)]`), quotes of the other kind inside
  a literal, an escaped quote, and a literal that spans a line end.
* `MCWordAtPosition`: texts of up to five characters, and cursors up to line
  2 and character 4. Every text has positions before, at, and past the end of
  its lines.
* `MCSymbolColumn`: indentation and gap up to 2; names `add` (spec case 4),
  `f`, `n` and `x`.

## 6. Fairness and liveness

The server processes messages only when the client sends them, and the loop
may block forever in `read_message`. No progress of the server is guaranteed
without assumptions on the client, so the current runs check safety only.
The only terminal states are the end of `run()`, so the configurations of
`LspServer` disable deadlock checking. The specs of `SymbolColumn` and
`WordAtPosition` have no steps, and the typing client of `Diagnostics` stops
at its bounds, so their configurations disable deadlock checking too.
`WF_vars` on a server action would claim that the client keeps sending
messages, which nothing in the code guarantees. For that reason no liveness
property is stated.

## 7. Not modelled

* JSON-RPC framing and serialisation, and the capabilities payload: I/O and
  formatting with no state.
* Benchmarks and performance probes: not part of the server.
* Clearing diagnostics on close (line 524). didClose publishes nothing, so a
  client keeps showing a closed document's diagnostics. Neither the spec nor
  the code says what should happen, so no property is stated.
* Root spellings (line 536). A removed folder is matched by exact path
  string, so a folder removed under another spelling of its URI stays a
  root. The model compares paths as the code does (`PathOf`), but the
  instances give every folder one spelling.
* Liveness. Every step of the server is the handling of a message the client
  chose to send. No operation is one the server must perform by itself, so
  no fairness is justified (section 6).
* The definition request takes its word as a free input. Cursor positions
  are checked separately in `WordAtPosition`.
