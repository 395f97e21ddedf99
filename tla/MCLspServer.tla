---------------------------- MODULE MCLspServer ----------------------------
(* Model-checking instance of LspServer: two URIs (1 is a file on disk,   *)
(* 2 is an unsaved buffer), two folders whose paths both contain file 1,  *)
(* two names and three texts that cover duplicate, multi-kind and       *)
(* shadowed declarations.                                                 *)
EXTENDS LspServer

CONSTANTS r1, r2

MCUris == {1, 2}

\* r1 and r2 are folder URIs such as file:///w1 and file:///w%202.
MCPathOf == (r1 :> "/w1") @@ (r2 :> "/w 2")

MCUnder == ("/w1" :> {1}) @@ ("/w 2" :> {1})

MCNames == {"a", "b"}

\* "", "fn a(...)" and
\* "b = ...\nfn a(...)\n...\nb = ...\nfn b(...)"
MCTexts ==
    { <<>>,
      <<FnLine("a")>>,
      <<AssignLine("b"), FnLine("a"), OtherLine, AssignLine("b"), FnLine("b")>> }

\* Every URI names its own file.
MCFileOf == [u \in MCUris |-> u]

\* URI 2 is another spelling (e.g. a symlink or a differently escaped
\* drive letter) of the disk file 1.
MCFileOfAliased == [u \in MCUris |-> 1]


\* The lifecycle state the code's variables stand for.
LifecycleState ==
    IF exitCode # None THEN (IF running THEN "Disconnected" ELSE "Exited")
    ELSE IF shutdownRequested THEN "ShutdownRequested"
    ELSE IF initialized THEN "Running"
    ELSE "Uninitialized"

Lifecycle == INSTANCE LspLifecycle WITH state <- LifecycleState, code <- exitCode

\* The server's initialize/shutdown/exit handling and its exit code (run()
\* returns 0 iff shutdown_requested) implement the lifecycle of spec 4.2/6.
LifecycleSpec == Lifecycle!Spec

\* The open documents as the abstract index sees them: URI to text.
OpenDocs == [u \in DocUris |-> DocText(u)]

Ws == INSTANCE WorkspaceIndex WITH open <- OpenDocs, Symbols <- Entries, Roots <- Paths

\* Every change of the workspace index is a local update of one URI or a
\* rebuild from the open documents and a snapshot of the files below the
\* current roots (spec 4.5): no entry of a closed document, a removed
\* folder or an older version of a disk file outlives the next rebuild,
\* and open documents always win over their disk copies.
WorkspaceIndexSpec == Ws!Spec

=============================================================================
