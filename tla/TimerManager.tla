---------------------------- MODULE TimerManager ----------------------------
(***************************************************************************)
(* The timers of one session (network/TimerManager.h, TimerManager.cpp,    *)
(* and the 2MSL timer of tcb.cpp) as libuv handles that are allocated,     *)
(* run, stopped, closed and freed.                                         *)
(*                                                                         *)
(* A handle is memory: "free" memory may be allocated again.  uv_close     *)
(* makes a handle "closing"; a later turn of the loop calls back and the   *)
(* callback deletes it.  _2msl_timer lives and dies with the manager; the  *)
(* loop is not told of its death.                                          *)
(*                                                                         *)
(* The session calls the functions of the manager in any order.  Its       *)
(* retransmission callback stops the timer that fired and may start it     *)
(* again.                                                                  *)
(***************************************************************************)
EXTENDS Naturals

CONSTANTS
  SeqNum,      \* the sequence numbers that key the timers
  Handle,      \* bound: the uv_timer_t that may exist at the same time
  NoHandle     \* timers_ has no entry

ASSUME TimerAssumption == SeqNum \subseteq Nat /\ NoHandle \notin Handle

VARIABLES
  mgr,         \* the map timers_, the status of each handle, and whether the
               \* loop will fire _2msl_timer
  ended        \* who destroyed the manager: "nobody" as long as it exists

vars == <<mgr, ended>>

Manager ==
  [timers_ : [SeqNum -> Handle \cup {NoHandle}],
   status  : [Handle -> {"free", "active", "stopped", "closing"}],
   msl     : BOOLEAN]

Init ==
  /\ mgr = [timers_ |-> [n \in SeqNum |-> NoHandle],
            status |-> [h \in Handle |-> "free"], msl |-> FALSE]
  /\ ended = "nobody"

-----------------------------------------------------------------------------
(* The functions of TimerManager, from the manager before to that after.   *)

\* The handles behind a set of keys.
Mapped(m, keys) == {m.timers_[n] : n \in keys} \ {NoHandle}

Below(ack) == {n \in SeqNum : n < ack}

\* uv_timer_stop on the handles of the keys.
Stop(m, keys) ==
  [m EXCEPT !.status = [h \in Handle |-> IF h \in Mapped(m, keys) THEN "stopped"
                                                                  ELSE @[h]]]

\* Mutant: the entries are erased and the handles only stopped.
DropWithoutClose(m, keys) ==
  [Stop(m, keys) EXCEPT
     !.timers_ = [n \in SeqNum |-> IF n \in keys THEN NoHandle ELSE @[n]]]

\* Mutant: the handles are closed and their entries stay.
DropWithoutErase(m, keys) ==
  [m EXCEPT !.status = [h \in Handle |-> IF h \in Mapped(m, keys) THEN "closing"
                                                                  ELSE @[h]]]

\* uv_timer_stop, uv_close and erase.
Drop(m, keys) ==
  [m EXCEPT !.status = [h \in Handle |-> IF h \in Mapped(m, keys) THEN "closing"
                                                                  ELSE @[h]],
            !.timers_ = [n \in SeqNum |-> IF n \in keys THEN NoHandle ELSE @[n]]]

stop_timer(m, n) == Stop(m, {n})

stop_timers_up_to(m, ack) == Stop(m, Below(ack))

drop_timer(m, n) == Drop(m, {n})

drop_timer_up_to(m, ack) == Drop(m, Below(ack))

drop_all_timers(m) == Drop(m, SeqNum)

\* Mutant: a running timer of the same number is forgotten, not stopped.
StartOverRunning(m, n, h) ==
  [m EXCEPT !.status[h] = "active", !.timers_[n] = h]

\* h is the memory that new returns.  The entry of an old handle, which has
\* been stopped but not closed, is overwritten.
start_timer(m, n, h) ==
  [stop_timer(m, n) EXCEPT !.status[h] = "active", !.timers_[n] = h]

\* Mutant: the 2MSL timer is left running.
StopAllButMsl(m) == Stop(m, SeqNum)

stop_all_timers(m) == [Stop(m, SeqNum) EXCEPT !.msl = FALSE]

\* Mutant: the destructor leaves the timers to the loop.
DestroyedOnly(m) == m

\* The destructor closes what the map holds and frees _2msl_timer as it is.
Destroyed(m) == Drop(m, SeqNum)

-----------------------------------------------------------------------------
(* Calls of the session.                                                   *)

alive == ended = "nobody"

Free(h) == mgr.status[h] = "free"

Call(m) == alive /\ mgr' = m /\ UNCHANGED ended

StartTimer(n) == \E h \in Handle : Free(h) /\ Call(start_timer(mgr, n, h))

StopTimer(n) == Call(stop_timer(mgr, n))

StopTimersUpTo(ack) == Call(stop_timers_up_to(mgr, ack))

DropTimer(n) == Call(drop_timer(mgr, n))

DropTimerUpTo(ack) == Call(drop_timer_up_to(mgr, ack))

DropAllTimers == Call(drop_all_timers(mgr))

StopAllTimers == Call(stop_all_timers(mgr))

_start_2msl_timer == Call([mgr EXCEPT !.msl = TRUE])

End(m, owner) == alive /\ mgr' = Destroyed(m) /\ ended' = owner

\* handle_reset stops everything before on_closed_cb_ erases the session.
Reset == End(stop_all_timers(mgr), "session")

\* handle_last_ack stops the FIN's timer and erases the session.  The 2MSL timer may
\* be running: connect() can have reused a session in TIME_WAIT.
LastAcked(n) == End(stop_timer(mgr, n), "last_ack")

\* TcpStack::stop_and_destory clears the table, whatever its sessions do.
Cleared == End(mgr, "stack")

-----------------------------------------------------------------------------
(* Callbacks of the loop.                                                  *)

\* A timer fires once.  libuv has stopped it before it calls back.
Fired(n) == stop_timer(mgr, n)

Running(n) == mgr.timers_[n] # NoHandle /\ mgr.status[mgr.timers_[n]] = "active"

\* _handle_retransmit gives up, or starts the timer again.
GiveUp(n) == Running(n) /\ Call(stop_timer(Fired(n), n))

Retransmit(n) ==
  /\ Running(n)
  /\ \E h \in Handle : Free(h) /\ Call(start_timer(stop_timer(Fired(n), n), n, h))

\* _handle_2msl_timeout: on_closed_cb_ destroys the session from its own timer.
_handle_2msl_timeout == mgr.msl /\ End([mgr EXCEPT !.msl = FALSE], "session")

\* The callback of uv_close deletes the handle.
CloseCallback(h) ==
  /\ mgr.status[h] = "closing"
  /\ mgr' = [mgr EXCEPT !.status[h] = "free"]
  /\ UNCHANGED ended

Session(n) == StartTimer(n) \/ StopTimer(n) \/ DropTimer(n) \/ LastAcked(n)

Acknowledged(ack) == StopTimersUpTo(ack) \/ DropTimerUpTo(ack)

Loop(n) == GiveUp(n) \/ Retransmit(n)

Next ==
  \/ \E n \in SeqNum : Session(n) \/ Acknowledged(n) \/ Loop(n)
  \/ DropAllTimers \/ StopAllTimers \/ _start_2msl_timer
  \/ Reset \/ Cleared \/ _handle_2msl_timeout
  \/ \E h \in Handle : CloseCallback(h)

Spec == Init /\ [][Next]_vars

-----------------------------------------------------------------------------
(* Properties.                                                             *)

TypeOK == mgr \in Manager /\ ended \in {"nobody", "session", "last_ack", "stack"}

\* The map never holds a handle that has been closed or deleted, and no handle
\* twice: stop_timer and drop_timer never touch freed memory and uv_close is
\* never called twice on a handle.
MapIsSound ==
  /\ \A n \in SeqNum : mgr.timers_[n] # NoHandle =>
       mgr.status[mgr.timers_[n]] \in {"active", "stopped"}
  /\ \A a, b \in SeqNum : mgr.timers_[a] = mgr.timers_[b] =>
       a = b \/ mgr.timers_[a] = NoHandle

\* A handle that may still fire is in the map, where stop_all_timers and the
\* destructor find it.  Otherwise its callback would run in a session that is
\* closed or destroyed (the danger named at tcb.h:126-127).
ActiveIsMapped ==
  \A h \in Handle : mgr.status[h] = "active" => \E n \in SeqNum : mgr.timers_[n] = h

\* A RST, and the 2MSL timer itself, leave no 2MSL timer running when they erase the
\* session.  handle_last_ack and stop_and_destory can: the destructor then frees
\* _2msl_timer while the loop still has it (TcpStack says when the first happens:
\* LastAckLeavesNoTimer).
MslEndsWithSession == mgr.msl => ended \in {"nobody", "last_ack", "stack"}

Lost(m) == {h \in Handle : /\ m.status[h] \in {"active", "stopped"}
                           /\ \A n \in SeqNum : m.timers_[n] # h}

\* The loop can close only when every handle has been closed.  A handle is lost
\* to the manager, and never closed, only when start_timer overwrites the entry
\* of its number.
LostOnlyByRestart ==
  [][\A h \in Lost(mgr') \ Lost(mgr) :
       \E n \in SeqNum : mgr.timers_[n] = h /\ mgr'.timers_[n] \notin {h, NoHandle}]_vars

\* The manager implements the set of running timers that the session relies on.
RunningSet == {n \in SeqNum : Running(n)}

Abstract == INSTANCE TimerSet WITH
  running <- RunningSet, mslRunning <- mgr.msl, alive <- alive

TimerSetSpec == Abstract!Spec

=============================================================================
