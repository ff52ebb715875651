------------------------------ MODULE TimerSet ------------------------------
(***************************************************************************)
(* What TimerManager promises its session: a set of running timers, one    *)
(* per sequence number, and the 2MSL timer.  It is the view that           *)
(* TcpSession.tla has of the timers; TimerManager.tla implements it with   *)
(* libuv handles.                                                          *)
(***************************************************************************)
EXTENDS Naturals

CONSTANT SeqNum   \* the sequence numbers that key the timers

VARIABLES
  running,        \* the keys of the running retransmission timers
  mslRunning,     \* the 2MSL timer runs
  alive           \* the manager, and with it the session, exists

vars == <<running, mslRunning, alive>>

Init == running = {} /\ mslRunning = FALSE /\ alive = TRUE

Start(n) == running' = running \cup {n} /\ UNCHANGED <<mslRunning, alive>>

Stop(n) == running' = running \ {n} /\ UNCHANGED <<mslRunning, alive>>

StopUpTo(ack) ==
  /\ running' = {n \in running : n >= ack}
  /\ UNCHANGED <<mslRunning, alive>>

StopRetransmissions == running' = {} /\ UNCHANGED <<mslRunning, alive>>

StopAll == running' = {} /\ mslRunning' = FALSE /\ UNCHANGED alive

StartMsl == mslRunning' = TRUE /\ UNCHANGED <<running, alive>>

\* A timer that fires is no longer running unless its callback starts it again.
Expire(n) ==
  /\ n \in running
  /\ running' \in {running, running \ {n}}
  /\ UNCHANGED <<mslRunning, alive>>

\* Whatever ends the session, no retransmission timer runs on.  The 2MSL timer may:
\* the destructor does not stop it.
Destroy == running' = {} /\ mslRunning' \in {mslRunning, FALSE} /\ alive' = FALSE

Next ==
  /\ alive
  /\ \/ \E n \in SeqNum : Start(n) \/ Stop(n) \/ StopUpTo(n) \/ Expire(n)
     \/ StopRetransmissions \/ StopAll \/ StartMsl \/ Destroy

Spec == Init /\ [][Next]_vars

=============================================================================
