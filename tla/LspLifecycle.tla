---------------------------- MODULE LspLifecycle ----------------------------
(***************************************************************************)
(* The lifecycle the server promises (spec.md 4.2 and 6), abstracted from  *)
(* everything else: Uninitialized -> Running -> ShutdownRequested ->       *)
(* Exited, and the process exit code, which is 0 only after a clean       *)
(* shutdown-then-exit sequence.  The end of the input stream (or a fatal   *)
(* transport error) disconnects the server from any state with code 1.    *)
(***************************************************************************)
CONSTANT None

VARIABLES state, code

States == {"Uninitialized", "Running", "ShutdownRequested", "Exited", "Disconnected"}

Init == state = "Uninitialized" /\ code = None

InitializeRequest ==
    /\ state = "Uninitialized"
    /\ state' = "Running"
    /\ UNCHANGED code

ShutdownRequest ==
    /\ state = "Running"
    /\ state' = "ShutdownRequested"
    /\ UNCHANGED code

ExitNotification ==
    /\ state \in {"Running", "ShutdownRequested"}
    /\ state' = "Exited"
    /\ code' = IF state = "ShutdownRequested" THEN 0 ELSE 1

TransportEnd ==
    /\ state \notin {"Exited", "Disconnected"}
    /\ state' = "Disconnected"
    /\ code' = 1

Next == InitializeRequest \/ ShutdownRequest \/ ExitNotification \/ TransportEnd

Spec == Init /\ [][Next]_<<state, code>>

=============================================================================
