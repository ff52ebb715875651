------------------------------ MODULE MCTimers ------------------------------
(* The timers of a session with three packets, for TLC. *)
EXTENDS TimerManager

CONSTANTS h1, h2, h3, h4, nil

SeqNumbers == 1..3

Handles == {h1, h2, h3, h4}

=============================================================================
