---------------------------- MODULE MCConnection ----------------------------
(* Constants of the TLC runs of TcpConnection.                             *)
EXTENDS TcpConnection, TLC

CONSTANTS client, server  \* two stacks

Both == {client, server}
Client == {client}
None == {}

\* Initial sequence numbers: far apart; two for the client that opens twice;
\* and one just below the wrap-around of the 64 words.
IssApart == (client :> {10}) @@ (server :> {40})
IssTwice == (client :> {10, 20}) @@ (server :> {40})
IssWrap == (client :> {62}) @@ (server :> {40})

\* The number of bytes the client and the server send.
Bytes(m, n) == (client :> m) @@ (server :> n)
Bytes00 == Bytes(0, 0)
Bytes20 == Bytes(2, 0)
Bytes31 == Bytes(3, 1)
Bytes30 == Bytes(3, 0)
Bytes40 == Bytes(4, 0)

\* Where the application calls connect(): on a closed session, and again while it has
\* no answer.
Closed == {"CLOSED"}
UntilAnswered == {"CLOSED", "SYN_SENT"}

\* What the theorems about the streams suppose holds of the constants of every run
\* but the one that connects a session again before it is answered.
ASSUME StreamHypothesis == ConnectsClosed => StreamAssumption
=============================================================================
