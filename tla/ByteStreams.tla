----------------------------- MODULE ByteStreams -----------------------------
(***************************************************************************)
(* What a connection promises the two applications: one stream of bytes in *)
(* each direction.  A byte arrives only after it has been written, takes   *)
(* its place in a buffer of bounded size, and is read in the order in      *)
(* which it was written.  A byte that has arrived stays until it is read,  *)
(* or until the session of its side ends: with that every byte is lost     *)
(* that has not been read, and nothing is written, arrives or is read any  *)
(* more unless the side is a server and begins another session.            *)
(***************************************************************************)
EXTENDS Naturals, Sequences

CONSTANTS
  Side,       \* the two ends
  Servers,    \* the ends that may serve one connection after the other
  Capacity    \* the size of the buffers

VARIABLES
  live,       \* whether each side has a session
  written,    \* the number of bytes that each side has written
  arrived,    \* the number of its peer's bytes that have reached it
  read        \* the bytes that it has read, named by their positions

vars == <<live, written, arrived, read>>

Other(e) == CHOOSE d \in Side : d # e

\* A server has no session before it is connected to.
Init ==
  /\ live = [e \in Side |-> e \notin Servers]
  /\ written = [e \in Side |-> 0]
  /\ arrived = [e \in Side |-> 0]
  /\ read = [e \in Side |-> <<>>]

Write(e) ==
  /\ live[e]
  /\ \E n \in 0..Capacity : written' = [written EXCEPT ![e] = @ + n]
  /\ UNCHANGED <<live, arrived, read>>

Arrive(e) ==
  /\ live[e]
  /\ \E n \in arrived[e]..written[Other(e)] :
       /\ n - Len(read[e]) <= Capacity
       /\ arrived' = [arrived EXCEPT ![e] = n]
  /\ UNCHANGED <<live, written, read>>

Read(e) ==
  /\ live[e]
  /\ \E n \in Len(read[e])..arrived[e] :
       read' = [read EXCEPT ![e] = [i \in 1..n |-> i]]
  /\ UNCHANGED <<live, written, arrived>>

\* The session ends, and with it goes what has arrived and has not been read.
End(e) ==
  /\ live[e] /\ live' = [live EXCEPT ![e] = FALSE]
  /\ arrived' = [arrived EXCEPT ![e] = Len(read[e])]
  /\ UNCHANGED <<written, read>>

\* A server whose session has ended, or has not begun, accepts the next connection.
Begin(e) ==
  /\ e \in Servers
  /\ ~live[e] /\ live' = [live EXCEPT ![e] = TRUE]
  /\ written' = [written EXCEPT ![e] = 0]
  /\ arrived' = [arrived EXCEPT ![e] = 0]
  /\ read' = [read EXCEPT ![e] = <<>>]

Next == \E e \in Side : Write(e) \/ Arrive(e) \/ Read(e) \/ End(e) \/ Begin(e)

Spec == Init /\ [][Next]_vars

=============================================================================
