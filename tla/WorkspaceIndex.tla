--------------------------- MODULE WorkspaceIndex ---------------------------
(***************************************************************************)
(* What the workspace symbol index promises (spec.md 4.5), abstracted     *)
(* from dict order, exceptions and the rest of the server.  The open       *)
(* documents are a function from URI to text.  The index changes in two    *)
(* ways only:                                                              *)
(*   - a local update of one URI (open/change): its entries are replaced   *)
(*     by those of its new text, nothing else is touched;                  *)
(*   - a rebuild (save, close, folder change, initialize), after which   *)
(*     the index holds the entries of every open document, plus those of  *)
(*     some of the files below the roots that are not open, as the disk    *)
(*     holds them at that moment (a file whose read fails is omitted).     *)
(* How the store and the roots change is not this module's concern.       *)
(* Between two such steps other programs may edit the files on disk; the  *)
(* index keeps the snapshot of the last rebuild.                           *)
(***************************************************************************)
CONSTANTS
    Uris,           \* document URIs
    Roots,          \* workspace folders
    Texts,          \* texts of documents and files
    Under,          \* Under[r]: the files below root r
    Symbols(_, _)   \* Symbols(u, t): the index entries of text t at URI u

VARIABLES open, roots, disk, index

Files(rs) == UNION {Under[r] : r \in rs}

OpenEntries(o) == UNION {Symbols(u, o[u]) : u \in DOMAIN o}

Put(o, u, t) == [v \in DOMAIN o \cup {u} |-> IF v = u THEN t ELSE o[v]]
Remove(o, u) == [v \in DOMAIN o \ {u} |-> o[v]]

Init ==
    /\ open = [u \in {} |-> <<>>]
    /\ roots = {}
    /\ disk \in [Files(Roots) -> Texts]
    /\ index = {}

LocalUpdate(u, t) ==
    /\ UNCHANGED <<roots, disk>>
    /\ open' = Put(open, u, t)
    /\ index' = {e \in index : e.uri # u} \cup Symbols(u, t)

\* Whatever the store and the roots have become, the index is rebuilt
\* from them.
Rebuild ==
    LET o == open' IN
    /\ \E D \in SUBSET Uris : o \in [D -> Texts]
    /\ roots' \in SUBSET Roots
    /\ \E read \in SUBSET (Files(roots') \ DOMAIN o) :
          index' = OpenEntries(o) \cup UNION {Symbols(f, disk[f]) : f \in read}
    /\ UNCHANGED disk

FileEdit(f, t) ==
    /\ disk' = [disk EXCEPT ![f] = t]
    /\ UNCHANGED <<open, roots, index>>

Next ==
    \/ \E u \in Uris, t \in Texts : LocalUpdate(u, t)
    \/ Rebuild
    \/ \E f \in Files(Roots), t \in Texts : FileEdit(f, t)

Spec == Init /\ [][Next]_<<open, roots, disk, index>>

=============================================================================
