------------------------------ MODULE LspServer ------------------------------
(***************************************************************************)
(* The pua language server of src/editor/lsp/pua_lsp.py (class LspServer): *)
(* one step of the model is one turn of the read-dispatch-write loop in    *)
(* LspServer.run, i.e. one whole handler.  The server is single-threaded,  *)
(* so the only other actor is the file system, whose files may be edited  *)
(* by other programs between two messages.                                 *)
(*                                                                         *)
(* Data is abstracted: a text is a sequence of Lines (a function header,   *)
(* an assignment, or any other line); URIs are numbers ordered as their    *)
(* strings sort; the workspace symbol index is the set of its (uri,symbol) *)
(* entries (the per-name lists of the code keep, per uri, the line order   *)
(* of collect_symbols, which the line number already records).            *)
(***************************************************************************)
EXTENDS Naturals, Sequences, FiniteSets, SequencesExt

CONSTANTS
    Uris,            \* document URIs; their order is the order of the strings
    Roots,           \* workspace folder URIs a client may send
    PathOf,          \* PathOf[f]: uri_to_path(f), the unquoted path of a file:
                     \* URI, the URI itself for any other scheme
    Names,           \* identifiers
    Texts,           \* document texts a client or the disk may hold
    Under,           \* Under[p]: URIs (path_to_uri) of the *.pua files below
                     \* path p; {} when p is not an existing directory
    FileOf,          \* FileOf[u]: the canonical URI of the file a client URI names
    NullTextAllowed, \* may a client send "text": null in didOpen/didChange?
    ClientInitializesFirst, \* does the client send nothing before initialize?
    None,            \* Python None
    Null             \* a JSON null received where a text was expected

Line == [kind : {"function", "variable", "other"}, name : Names \cup {None}]
FnLine(n)     == [kind |-> "function", name |-> n]   \* matches FUNC_RE
AssignLine(n) == [kind |-> "variable", name |-> n]   \* matches ASSIGN_RE
OtherLine     == [kind |-> "other", name |-> None]

\* The root paths the folders convert to (uri_to_path).
Paths == {PathOf[f] : f \in Roots}
RootPaths(fs) == {PathOf[f] : f \in fs}

DiskUris == UNION {Under[p] : p \in Paths}

ASSUME /\ Texts \subseteq Seq(Line)
       /\ <<>> \in Texts                 \* the default "" of every .get(..., "")
       /\ Under \in [Paths -> SUBSET Uris]
       /\ FileOf \in [Uris -> Uris]
       /\ NullTextAllowed \in BOOLEAN
       /\ ClientInitializesFirst \in BOOLEAN

VARIABLES
    docs,              \* self.docs: <<uri, text>> pairs in dict insertion order
    index,             \* self.workspace_symbols, as a set of entries
    roots,             \* self.workspace_roots, a set of paths
    running,           \* self.running
    shutdownRequested, \* self.shutdown_requested
    exitCode,          \* value returned by run(); None while the loop runs
    disk,              \* contents of the .pua files on disk
    published,         \* published[u]: text of the last diagnostics sent for u
    out,               \* the response written by the last step, or None
    initialized,       \* history: an initialize request has been handled
    opened             \* history: URIs opened by didOpen and not closed since

vars == <<docs, index, roots, running, shutdownRequested, exitCode, disk, published,
          out, initialized, opened>>

Symbol == [name : Names, line : Nat, kind : {"function", "variable"}]
Entry  == [uri : Uris, name : Names, line : Nat, kind : {"function", "variable"}]

-----------------------------------------------------------------------------
(* collect_symbols: one top-down pass; a function header wins over an      *)
(* assignment on the same line and only the first (name, kind) is kept.   *)
RECURSIVE ScanLines(_, _, _)
ScanLines(text, i, seen) ==
    IF i > Len(text) THEN {}
    ELSE LET l == text[i]
             key == <<l.name, l.kind>>
         IN IF l.kind # "other" /\ key \notin seen
            THEN {[name |-> l.name, line |-> i - 1, kind |-> l.kind]}
                    \cup ScanLines(text, i + 1, seen \cup {key})
            ELSE ScanLines(text, i + 1, seen)

CollectSymbols(text) == ScanLines(text, 1, {})

Entries(u, text) ==
    {[uri |-> u, name |-> s.name, line |-> s.line, kind |-> s.kind] :
        s \in CollectSymbols(text)}

(* The document store, a Python dict: keys keep their first position.     *)
DocUris == {p[1] : p \in ToSet(docs)}
DocText(u) == (CHOOSE p \in ToSet(docs) : p[1] = u)[2]
\* self.docs.get(uri, "")
GetText(u) == IF u \in DocUris THEN DocText(u) ELSE <<>>

\* Fault model: the store as a list that appends instead of replacing.
StoreDocAppend(u, t) == Append(docs, <<u, t>>)

StoreDoc(u, t) ==
    IF u \in DocUris
    THEN [i \in 1..Len(docs) |-> IF docs[i][1] = u THEN <<u, t>> ELSE docs[i]]
    ELSE Append(docs, <<u, t>>)

PopDoc(u) == SelectSeq(docs, LAMBDA p : p[1] # u)

(* _index_text: drop every entry of uri, then add the entries of its text. *)
DropUri(idx, u) == {e \in idx : e.uri # u}
\* Fault model: re-adding a document's symbols without dropping its old ones.
IndexTextNoDrop(idx, u, t) == idx \cup Entries(u, t)
IndexText(idx, u, t) == DropUri(idx, u) \cup Entries(u, t)

(* refresh_workspace_index over the store ds and the roots rs.  The open   *)
(* documents are indexed in dict order; _index_text raises on a null text  *)
(* and the exception leaves the loop with what was indexed so far.  Else   *)
(* every file below a root that is not an open document and whose read    *)
(* succeeded (readOk) is indexed with its disk contents.                   *)
FirstNull(ds) ==
    IF \E i \in 1..Len(ds) : ds[i][2] = Null
    THEN CHOOSE i \in 1..Len(ds) : ds[i][2] = Null /\ \A j \in 1..(i-1) : ds[j][2] # Null
    ELSE Len(ds) + 1

\* The files below the roots rs that are not open documents: the ones
\* refresh_workspace_index tries to read.
ToRead(ds, rs) == {d \in UNION {Under[r] : r \in rs} : d \notin {p[1] : p \in ToSet(ds)}}

\* Fault model: the entries of the last reindex are kept, not cleared first.
RefreshNoClear(ds, rs, readOk) ==
    LET k == FirstNull(ds)
        fromDocs == UNION {Entries(ds[i][1], ds[i][2]) : i \in 1..(k - 1)}
        files == ToRead(ds, rs) \cap readOk
        fromDisk == UNION {Entries(d, disk[d]) : d \in files}
    IN IF k <= Len(ds) THEN [index |-> index \cup fromDocs, raised |-> TRUE]
                       ELSE [index |-> index \cup fromDocs \cup fromDisk, raised |-> FALSE]

Refresh(ds, rs, readOk) ==
    LET k == FirstNull(ds)
        fromDocs == UNION {Entries(ds[i][1], ds[i][2]) : i \in 1..(k - 1)}
        files == ToRead(ds, rs) \cap readOk
        fromDisk == UNION {Entries(d, disk[d]) : d \in files}
    IN IF k <= Len(ds) THEN [index |-> fromDocs, raised |-> TRUE]
                       ELSE [index |-> fromDocs \cup fromDisk, raised |-> FALSE]

(* find_symbol_location: sort by (not the current uri, uri) and take the   *)
(* first; sorted() is stable, so within a uri the first declaration wins. *)
KeyBefore(a, b) ==
    \/ a[1] < b[1]
    \/ a[1] = b[1] /\ a[2] < b[2]
    \/ a[1] = b[1] /\ a[2] = b[2] /\ a[3] =< b[3]

\* Fault model: candidates ordered by uri only, without the locality key.
FindSymbolLocationNoLocality(cur, n) ==
    LET cands == {e \in index : e.name = n}
        Key(e) == <<0, e.uri, e.line>>
    IN IF cands = {} THEN None
       ELSE LET e == CHOOSE e \in cands : \A f \in cands : KeyBefore(Key(e), Key(f))
            IN [uri |-> e.uri, line |-> e.line]

FindSymbolLocation(cur, n) ==
    LET cands == {e \in index : e.name = n}
        Key(e) == <<IF e.uri = cur THEN 0 ELSE 1, e.uri, e.line>>
    IN IF cands = {} THEN None
       ELSE LET e == CHOOSE e \in cands : \A f \in cands : KeyBefore(Key(e), Key(f))
            IN [uri |-> e.uri, line |-> e.line]

-----------------------------------------------------------------------------
(* Inputs a client may send.                                               *)
TextArg == IF NullTextAllowed THEN Texts \cup {Null} ELSE Texts

Response(m, u, w, err, r) ==
    [method |-> m, uri |-> u, word |-> w, error |-> err, result |-> r]

\* The while loop of run() has not returned yet.
LoopActive == exitCode = None

Init ==
    /\ docs = <<>>
    /\ index = {}
    /\ roots = {}
    /\ running = TRUE
    /\ shutdownRequested = FALSE
    /\ exitCode = None
    /\ disk \in [DiskUris -> Texts]
    /\ published = [u \in Uris |-> None]
    /\ out = None
    /\ initialized = FALSE
    /\ opened = {}

\* Fault model: publish_diagnostics called before the new text is stored.
UpdateDocPublishFirst(u, t) ==
    /\ docs' = StoreDoc(u, t)
    /\ IF t = Null
       THEN /\ index' = DropUri(index, u)
            /\ UNCHANGED published
       ELSE /\ index' = IndexText(index, u, t)
            /\ published' = IF u \in DocUris /\ DocText(u) # Null
                            THEN [published EXCEPT ![u] = DocText(u)]
                            ELSE published

(* update_doc: store, reindex the uri, publish its diagnostics.  With a    *)
(* null text collect_symbols raises after the old entries were dropped;    *)
(* the text stays stored and nothing is published.                         *)
UpdateDoc(u, t) ==
    /\ docs' = StoreDoc(u, t)
    /\ IF t = Null
       THEN /\ index' = DropUri(index, u)
            /\ UNCHANGED published
       ELSE /\ index' = IndexText(index, u, t)
            /\ published' = [published EXCEPT ![u] = t]

(* handle_request "initialize": roots from workspaceFolders, else rootUri; *)
(* full reindex; an exception in it becomes an error response.            *)
Initialize(folders, rootUri) ==
    LET rs == IF folders # {} THEN RootPaths(folders)
              ELSE IF rootUri # None THEN RootPaths({rootUri}) ELSE {}
    IN /\ LoopActive
       /\ \E readOk \in SUBSET ToRead(docs, rs) :
            LET r == Refresh(docs, rs, readOk) IN
            /\ index' = r.index
            /\ out' = Response("initialize", None, None, r.raised, None)
       /\ roots' = rs
       /\ initialized' = TRUE
       /\ UNCHANGED <<docs, running, shutdownRequested, exitCode, disk, published, opened>>

Shutdown ==
    /\ LoopActive
    /\ shutdownRequested' = TRUE
    /\ out' = Response("shutdown", None, None, FALSE, None)
    /\ UNCHANGED <<docs, index, roots, running, exitCode, disk, published, initialized, opened>>

(* The read-only requests: only the response changes.  collect_symbols and *)
(* word_at_position raise on a null text.                                  *)
Completion(u) ==
    /\ LoopActive
    /\ out' = IF GetText(u) = Null
              THEN Response("completion", u, None, TRUE, None)
              ELSE Response("completion", u, None, FALSE,
                            {e.name : e \in index} \cup
                            {s.name : s \in CollectSymbols(GetText(u))})
    /\ UNCHANGED <<docs, index, roots, running, shutdownRequested, exitCode, disk,
                   published, initialized, opened>>

\* w is the word under the cursor (word_at_position); "" has no word.
Definition(u, w) ==
    /\ LoopActive
    /\ out' = IF GetText(u) = Null
              THEN Response("definition", u, w, TRUE, None)
              ELSE IF GetText(u) = <<>> \/ w = None
              THEN Response("definition", u, None, FALSE, None)
              ELSE Response("definition", u, w, FALSE, FindSymbolLocation(u, w))
    /\ UNCHANGED <<docs, index, roots, running, shutdownRequested, exitCode, disk,
                   published, initialized, opened>>

DocumentSymbol(u) ==
    /\ LoopActive
    /\ out' = IF GetText(u) = Null
              THEN Response("documentSymbol", u, None, TRUE, None)
              ELSE Response("documentSymbol", u, None, FALSE, CollectSymbols(GetText(u)))
    /\ UNCHANGED <<docs, index, roots, running, shutdownRequested, exitCode, disk,
                   published, initialized, opened>>

\* format_pua (module Formatter) of the stored text, as one whole-range edit.
Formatting(u) ==
    /\ LoopActive
    /\ out' = Response("formatting", u, None, GetText(u) = Null, None)
    /\ UNCHANGED <<docs, index, roots, running, shutdownRequested, exitCode, disk,
                   published, initialized, opened>>

\* An unknown request method gets a null result.
UnknownRequest ==
    /\ LoopActive
    /\ out' = Response("unknown", None, None, FALSE, None)
    /\ UNCHANGED <<docs, index, roots, running, shutdownRequested, exitCode, disk,
                   published, initialized, opened>>

-----------------------------------------------------------------------------
(* handle_notification.  Notifications write no response.                 *)
DidOpen(u, t) ==
    /\ LoopActive
    /\ UpdateDoc(u, t)
    /\ out' = None
    /\ opened' = opened \cup {u}
    /\ UNCHANGED <<roots, running, shutdownRequested, exitCode, disk, initialized>>

\* Whole-document sync: the text of the last content change replaces the
\* document (an empty change list returns without a step).
DidChange(u, t) ==
    /\ LoopActive
    /\ UpdateDoc(u, t)
    /\ out' = None
    /\ UNCHANGED <<roots, running, shutdownRequested, exitCode, disk, initialized, opened>>

\* With a text (t # None) as didChange, else republish the stored text;
\* then a full reindex.
DidSave(u, t) ==
    LET ds == IF t # None THEN StoreDoc(u, t) ELSE docs
    IN /\ LoopActive
       /\ docs' = ds
       /\ published' =
            IF t # None THEN [published EXCEPT ![u] = t]
            ELSE IF u \in DocUris /\ DocText(u) # Null
                 THEN [published EXCEPT ![u] = DocText(u)]
                 ELSE published
       /\ \E readOk \in SUBSET ToRead(ds, roots) : index' = Refresh(ds, roots, readOk).index
       /\ out' = None
       /\ UNCHANGED <<roots, running, shutdownRequested, exitCode, disk, initialized, opened>>

\* Fault model: didClose without the full reindex.
DidCloseNoRefresh(u) ==
    /\ LoopActive
    /\ docs' = PopDoc(u)
    /\ out' = None
    /\ opened' = opened \ {u}
    /\ UNCHANGED <<index, roots, running, shutdownRequested, exitCode, disk, published, initialized>>

DidClose(u) ==
    /\ LoopActive
    /\ docs' = PopDoc(u)
    /\ \E readOk \in SUBSET ToRead(PopDoc(u), roots) :
          index' = Refresh(PopDoc(u), roots, readOk).index
    /\ out' = None
    /\ opened' = opened \ {u}
    /\ UNCHANGED <<roots, running, shutdownRequested, exitCode, disk, published, initialized>>

\* Added folders are appended first, then every removed folder is filtered out.
DidChangeWorkspaceFolders(added, removed) ==
    LET rs == (roots \cup RootPaths(added)) \ RootPaths(removed)
    IN /\ LoopActive
       /\ roots' = rs
       /\ \E readOk \in SUBSET ToRead(docs, rs) : index' = Refresh(docs, rs, readOk).index
       /\ out' = None
       /\ UNCHANGED <<docs, running, shutdownRequested, exitCode, disk, published, initialized, opened>>

\* "exit" clears self.running; the loop ends and run() returns.
Exit ==
    /\ LoopActive
    /\ running' = FALSE
    /\ exitCode' = IF shutdownRequested THEN 0 ELSE 1
    /\ out' = None
    /\ UNCHANGED <<docs, index, roots, shutdownRequested, disk, published, initialized, opened>>

\* "initialized", a notification of no other handled method, and a message
\* without a method (skipped by run()) change nothing and write nothing.
Ignored ==
    /\ LoopActive
    /\ out' = None
    /\ UNCHANGED <<docs, index, roots, running, shutdownRequested, exitCode, disk,
                   published, initialized, opened>>

-----------------------------------------------------------------------------
(* read_message.                                                           *)
\* End of input, or a missing or non-positive Content-Length: the loop breaks.
StreamEnd ==
    /\ LoopActive
    /\ exitCode' = IF shutdownRequested THEN 0 ELSE 1
    /\ out' = None
    /\ UNCHANGED <<docs, index, roots, running, shutdownRequested, disk, published, initialized, opened>>

\* A body that is not JSON (or a bad Content-Length) raises outside the
\* try block of run(): the interpreter dies with status 1.
ReadCrash ==
    /\ LoopActive
    /\ exitCode' = 1
    /\ out' = None
    /\ UNCHANGED <<docs, index, roots, running, shutdownRequested, disk, published, initialized, opened>>

\* Another program writes a .pua file.
DiskWrite(d, t) ==
    /\ LoopActive
    /\ disk' = [disk EXCEPT ![d] = t]
    /\ out' = None
    /\ UNCHANGED <<docs, index, roots, running, shutdownRequested, exitCode, published, initialized, opened>>

\* A well-behaved client sends initialize before any other message; the
\* code itself accepts every message in every state.
ClientReady == ~ClientInitializesFirst \/ initialized

Next ==
    \* rootUri is read only when no workspace folder is sent
    \/ \E fs \in SUBSET Roots \ {{}} : Initialize(fs, None)
    \/ \E ru \in Roots \cup {None} : Initialize({}, ru)
    \/ /\ ClientReady
       /\ \/ Shutdown
          \/ UnknownRequest
          \/ \E u \in Uris :
                \/ Completion(u)
                \/ DocumentSymbol(u)
                \/ Formatting(u)
                \/ DidClose(u)
                \/ \E w \in Names \cup {None} : Definition(u, w)
                \/ \E t \in TextArg : DidOpen(u, t) \/ DidChange(u, t)
                \/ \E t \in Texts \cup {None} : DidSave(u, t)
          \/ \E a, r \in SUBSET Roots : DidChangeWorkspaceFolders(a, r)
          \/ Exit
          \/ Ignored
    \/ StreamEnd
    \/ ReadCrash
    \/ \E d \in DiskUris, t \in Texts : DiskWrite(d, t)

Spec == Init /\ [][Next]_vars


-----------------------------------------------------------------------------
(* Properties.                                                              *)

\* The type invariant; self.docs has one pair per key.
TypeOK ==
    /\ docs \in Seq(Uris \X (Texts \cup {Null}))
    /\ \A i, j \in 1..Len(docs) : docs[i][1] = docs[j][1] => i = j
    /\ index \subseteq Entry
    /\ roots \subseteq Paths
    /\ running \in BOOLEAN
    /\ shutdownRequested \in BOOLEAN
    /\ exitCode \in {None, 0, 1}
    /\ disk \in [DiskUris -> Texts]
    /\ published \in [Uris -> Texts \cup {None}]
    /\ initialized \in BOOLEAN
    /\ opened \subseteq Uris

\* The index holds, under the uri of every open document, exactly the
\* symbols of its in-memory text: didOpen/didChange reindex the uri locally
\* (_index_text), and a full reindex (save, close, folders, initialize) must
\* neither lose the buffer nor let the disk copy of the file replace it.
IndexMatchesOpenDocs ==
    \A u \in DocUris :
        DocText(u) # Null =>
            {e \in index : e.uri = u} = Entries(u, DocText(u))

\* Every index entry comes from an open document or from a file below a
\* current workspace root: closing a document and removing a folder
\* (didClose, didChangeWorkspaceFolders) leave nothing behind.
IndexHasNoOrphans ==
    \A e \in index : e.uri \in DocUris \/ \E r \in roots : e.uri \in Under[r]

\* The diagnostics the client last received for an open document are those
\* of its current text (update_doc publishes after storing; didSave without
\* text republishes the stored text).
DiagnosticsMatchOpenDocs ==
    \A u \in DocUris : DocText(u) # Null => published[u] = DocText(u)

\* A definition request for a name the requesting open document declares
\* answers with that document's first declaration of it, whatever other
\* open documents or workspace files declare (find_symbol_location's
\* locality preference, spec property 5).
DeclLines(u, n) == {s.line : s \in {s \in CollectSymbols(DocText(u)) : s.name = n}}

DefinitionPrefersCurrentDoc ==
    (/\ out # None
     /\ out.method = "definition"
     /\ out.word # None
     /\ out.uri \in DocUris
     /\ DocText(out.uri) # Null
     /\ DeclLines(out.uri, out.word) # {})
    => out.result = [uri |-> out.uri, line |-> Min(DeclLines(out.uri, out.word))]

\* No file is counted twice in the index: the disk copy of an open document
\* is skipped during a full reindex (spec 4.5, "avoid double counting").
NoDoubleCounting ==
    \A e, f \in index : e.uri # f.uri => FileOf[e.uri] # FileOf[f.uri]

\* A document is in the store only between its didOpen and its didClose
\* (spec 3: a Document "exists from a document opened event until a
\* document closed event"): didChange and didSave with text of a URI that
\* is not open, e.g. one sent just after didClose, must not recreate it.
DocsWereOpened == DocUris \subseteq opened

=============================================================================
