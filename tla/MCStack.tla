------------------------------ MODULE MCStack ------------------------------
(* A stack with two remotes, for TLC. *)
EXTENDS TcpStack

CONSTANTS local, alice, bob, elsewhere

Remotes == {alice, bob}

All == {local} \cup Remotes

Bob == {bob}

\* Where the application calls connect(): on a closed session, on one that is open, and
\* again after its own close().
Again == {"CLOSED", "ESTABLISHED", "TIME_WAIT"}

=============================================================================
