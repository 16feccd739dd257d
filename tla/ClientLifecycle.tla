--------------------------- MODULE ClientLifecycle ---------------------------
(***************************************************************************)
(* What the server promises about one connection's phase (spec 3, Client   *)
(* lifecycle): it starts in FirstPhase when the connection is accepted,    *)
(* moves from Authorization to Registration on a good password and from    *)
(* Registration to Normal on NICK+USER, and ends in Terminated from any    *)
(* open phase.  A phase never goes back, and Terminated is final.  Every   *)
(* step moves one client only.                                             *)
(***************************************************************************)
CONSTANTS Client, FirstPhase

VARIABLE phase

\* The phases in which the connection is open.
OpenPhase == {"Authorization", "Registration", "Normal"}

\* The listener's connection becomes a client (NewClient).
Start(c) ==
    /\ phase[c] = "Unconnected"
    /\ phase' = [phase EXCEPT ![c] = FirstPhase]

\* PASS with the configured password.
Authorize(c) ==
    /\ phase[c] = "Authorization"
    /\ phase' = [phase EXCEPT ![c] = "Registration"]

\* NICK and USER both given.
Register(c) ==
    /\ phase[c] = "Registration"
    /\ phase' = [phase EXCEPT ![c] = "Normal"]

\* QUIT, a failed PASS, a misplaced command, KILL or a timeout.
Terminate(c) ==
    /\ phase[c] \in OpenPhase
    /\ phase' = [phase EXCEPT ![c] = "Terminated"]

Init == phase = [c \in Client |-> "Unconnected"]

Next == \E c \in Client : Start(c) \/ Authorize(c) \/ Register(c) \/ Terminate(c)

Spec == Init /\ [][Next]_phase

=============================================================================
