------------------------- MODULE TimerManagerProofs -------------------------
(***************************************************************************)
(* TimerManager keeps its map sound and implements TimerSet, for every set *)
(* of sequence numbers and of handles.                                     *)
(***************************************************************************)
EXTENDS TimerManager, TLAPS

\* The invariant of a manager.  ActiveIsMapped needs the rest: the handle that
\* start_timer overwrites is the only one the map had for that number, and it
\* has been stopped just before.
MapOf(m) ==
  /\ \A n \in SeqNum : m.timers_[n] # NoHandle =>
       m.status[m.timers_[n]] \in {"active", "stopped"}
  /\ \A a, b \in SeqNum : m.timers_[a] = m.timers_[b] =>
       a = b \/ m.timers_[a] = NoHandle

ActiveOf(m) ==
  \A h \in Handle : m.status[h] = "active" => \E n \in SeqNum : m.timers_[n] = h

Sound(m) == m \in Manager /\ MapOf(m) /\ ActiveOf(m)

RunningOf(m) ==
  {n \in SeqNum : m.timers_[n] # NoHandle /\ m.status[m.timers_[n]] = "active"}

IInv ==
  /\ Sound(mgr)
  /\ ended \in {"nobody", "session", "last_ack", "stack"}
  /\ MslEndsWithSession

-----------------------------------------------------------------------------
(* What the functions of the manager do.                                   *)

\* Stopping keeps the map, and the timers of the other numbers run on.
LEMMA StopLemma ==
  ASSUME NEW m, Sound(m), NEW keys \in SUBSET SeqNum
  PROVE  /\ Sound(Stop(m, keys))
         /\ RunningOf(Stop(m, keys)) = RunningOf(m) \ keys
         /\ Stop(m, keys).timers_ = m.timers_ /\ Stop(m, keys).msl = m.msl
         /\ \A h \in Handle : m.status[h] = "free" <=> Stop(m, keys).status[h] = "free"
         /\ Lost(Stop(m, keys)) = Lost(m)
<1> DEFINE r == Stop(m, keys)
<1>1. /\ r.timers_ = m.timers_ /\ r.msl = m.msl
      /\ r.status = [h \in Handle |-> IF h \in Mapped(m, keys) THEN "stopped"
                                                               ELSE m.status[h]]
      /\ r \in Manager
  BY DEF Stop, Sound, Manager
<1>2. /\ m.timers_ \in [SeqNum -> Handle \cup {NoHandle}] /\ MapOf(m) /\ ActiveOf(m)
      /\ m \in Manager
  BY DEF Sound, Manager
<1>3. \A h \in Handle : h \in Mapped(m, keys) => \E n \in keys : m.timers_[n] = h
  BY DEF Mapped
<1>4. \A n \in SeqNum : m.timers_[n] # NoHandle =>
        /\ m.timers_[n] \in Handle
        /\ (m.timers_[n] \in Mapped(m, keys) <=> n \in keys)
  BY <1>2, TimerAssumption DEF Mapped, MapOf
<1> HIDE DEF r
<1>5. MapOf(r)
  BY <1>1, <1>2, <1>4 DEF MapOf
<1>6. ActiveOf(r)
  BY <1>1, <1>2 DEF ActiveOf
<1>7. RunningOf(r) = RunningOf(m) \ keys
  BY <1>1, <1>4 DEF RunningOf
<1>8. \A h \in Handle : h \in Mapped(m, keys) => m.status[h] \in {"active", "stopped"}
  BY <1>2, <1>3, TimerAssumption DEF MapOf
<1>9. Lost(r) = Lost(m)
  BY <1>1, <1>8 DEF Lost
<1> QED
  BY <1>1, <1>5, <1>6, <1>7, <1>8, <1>9 DEF Sound, r

\* Dropping empties the entries and loses no handle.
LEMMA DropLemma ==
  ASSUME NEW m, Sound(m), NEW keys \in SUBSET SeqNum
  PROVE  /\ Sound(Drop(m, keys))
         /\ RunningOf(Drop(m, keys)) = RunningOf(m) \ keys
         /\ Drop(m, keys).msl = m.msl
         /\ Lost(Drop(m, keys)) = Lost(m)
<1> DEFINE r == Drop(m, keys)
<1>1. /\ r.msl = m.msl
      /\ r.timers_ = [n \in SeqNum |-> IF n \in keys THEN NoHandle ELSE m.timers_[n]]
      /\ r.status = [h \in Handle |-> IF h \in Mapped(m, keys) THEN "closing"
                                                               ELSE m.status[h]]
      /\ r \in Manager
  BY DEF Drop, Sound, Manager
<1>2. /\ m.timers_ \in [SeqNum -> Handle \cup {NoHandle}] /\ MapOf(m) /\ ActiveOf(m)
      /\ m \in Manager
  BY DEF Sound, Manager
<1>3. \A h \in Handle : h \in Mapped(m, keys) => \E n \in keys : m.timers_[n] = h
  BY DEF Mapped
<1>4. \A n \in SeqNum : m.timers_[n] # NoHandle =>
        /\ m.timers_[n] \in Handle
        /\ (m.timers_[n] \in Mapped(m, keys) <=> n \in keys)
  BY <1>2, TimerAssumption DEF Mapped, MapOf
<1>0. NoHandle \notin Handle /\ keys \subseteq SeqNum
  BY TimerAssumption
<1> HIDE DEF r
<1>5. MapOf(r)
  BY <1>0, <1>1, <1>2, <1>4 DEF MapOf
<1>6. ActiveOf(r)
  <2> SUFFICES ASSUME NEW h \in Handle, r.status[h] = "active"
               PROVE  \E n \in SeqNum : r.timers_[n] = h
    BY DEF ActiveOf
  <2>1. h \notin Mapped(m, keys) /\ m.status[h] = "active"
    BY <1>1
  <2>2. PICK n \in SeqNum : m.timers_[n] = h
    BY <1>2, <2>1 DEF ActiveOf
  <2>3. n \notin keys
    BY <1>0, <1>4, <2>1, <2>2
  <2> QED
    BY <1>1, <2>2, <2>3
<1>7. RunningOf(r) = RunningOf(m) \ keys
  <2>1. ASSUME NEW n \in SeqNum PROVE n \in RunningOf(r) <=> n \in RunningOf(m) \ keys
    <3>1. CASE n \in keys
      BY <1>1, <3>1 DEF RunningOf
    <3>2. CASE n \notin keys
      <4>1. r.timers_[n] = m.timers_[n]
        BY <1>1, <3>2
      <4>2. m.timers_[n] # NoHandle => r.status[m.timers_[n]] = m.status[m.timers_[n]]
        BY <1>1, <1>4, <3>2
      <4> QED
        BY <3>2, <4>1, <4>2 DEF RunningOf
    <3> QED
      BY <3>1, <3>2
  <2> QED
    BY <2>1 DEF RunningOf
<1>8. Lost(r) = Lost(m)
  <2>1. ASSUME NEW h \in Handle PROVE h \in Lost(r) <=> h \in Lost(m)
    <3>1. CASE h \in Mapped(m, keys)
      BY <1>0, <1>1, <1>3, <3>1 DEF Lost
    <3>2. CASE h \notin Mapped(m, keys)
      <4>1. ASSUME NEW n \in SeqNum PROVE m.timers_[n] = h <=> r.timers_[n] = h
        <5>1. CASE n \in keys
          BY <1>0, <1>1, <1>4, <3>2, <5>1
        <5>2. CASE n \notin keys
          BY <1>1, <5>2
        <5> QED
          BY <5>1, <5>2
      <4> QED
        BY <1>1, <3>2, <4>1 DEF Lost
    <3> QED
      BY <3>1, <3>2
  <2> QED
    BY <2>1 DEF Lost
<1> QED
  BY <1>1, <1>5, <1>6, <1>7, <1>8 DEF Sound, r

\* Starting puts a fresh handle into the map; the handle it replaces is lost.
LEMMA StartLemma ==
  ASSUME NEW m, Sound(m), NEW n \in SeqNum, NEW h \in Handle, m.status[h] = "free"
  PROVE  /\ Sound(start_timer(m, n, h))
         /\ RunningOf(start_timer(m, n, h)) = RunningOf(m) \cup {n}
         /\ start_timer(m, n, h).msl = m.msl
         /\ start_timer(m, n, h).timers_ = [m.timers_ EXCEPT ![n] = h]
         /\ \A g \in Lost(start_timer(m, n, h)) \ Lost(m) : g = m.timers_[n] /\ g # h
<1> DEFINE s == Stop(m, {n})
           r == start_timer(m, n, h)
<1>1. /\ Sound(s) /\ RunningOf(s) = RunningOf(m) \ {n}
      /\ s.timers_ = m.timers_ /\ s.msl = m.msl
      /\ s.status[h] = "free" /\ Lost(s) = Lost(m)
  BY StopLemma
<1>2. /\ s \in Manager /\ MapOf(s) /\ ActiveOf(s)
      /\ s.timers_ \in [SeqNum -> Handle \cup {NoHandle}]
      /\ s.status \in [Handle -> {"free", "active", "stopped", "closing"}]
  BY <1>1 DEF Sound, Manager
<1>3. /\ r = [s EXCEPT !.status[h] = "active", !.timers_[n] = h]
      /\ r.timers_ = [s.timers_ EXCEPT ![n] = h]
      /\ r.status = [s.status EXCEPT ![h] = "active"]
      /\ r.msl = s.msl /\ r \in Manager
  BY <1>2 DEF start_timer, stop_timer, Manager
<1>4. s.timers_[n] # NoHandle => s.status[s.timers_[n]] = "stopped"
  <2>1. n \notin RunningOf(s)
    BY <1>1
  <2> QED
    BY <1>2, <2>1 DEF RunningOf, MapOf
<1>5. \A k \in SeqNum : s.timers_[k] # h
  BY <1>1, <1>2, TimerAssumption DEF MapOf
<1>6. NoHandle \notin Handle
  BY TimerAssumption
<1> HIDE DEF s, r
<1>7. MapOf(r)
  BY <1>2, <1>3, <1>5, <1>6 DEF MapOf
<1>8. ActiveOf(r)
  <2> SUFFICES ASSUME NEW g \in Handle, r.status[g] = "active"
               PROVE  \E k \in SeqNum : r.timers_[k] = g
    BY DEF ActiveOf
  <2>1. CASE g = h
    BY <1>2, <1>3, <2>1
  <2>2. CASE g # h
    <3>1. s.status[g] = "active"
      BY <1>2, <1>3, <2>2
    <3>2. PICK k \in SeqNum : s.timers_[k] = g
      BY <1>2, <3>1 DEF ActiveOf
    <3>3. k # n
      BY <1>4, <1>6, <3>1, <3>2
    <3> QED
      BY <1>2, <1>3, <3>2, <3>3
  <2> QED
    BY <2>1, <2>2
<1>9. RunningOf(r) = RunningOf(m) \cup {n}
  <2>1. ASSUME NEW k \in SeqNum PROVE k \in RunningOf(r) <=> k \in RunningOf(s) \cup {n}
    BY <1>2, <1>3, <1>5, <1>6, <2>1 DEF RunningOf
  <2> QED
    BY <1>1, <2>1 DEF RunningOf
<1>10. ASSUME NEW g \in Lost(r), g \notin Lost(m) PROVE g = m.timers_[n] /\ g # h
  <2>1. g \in Handle /\ g # h /\ s.status[g] \in {"active", "stopped"}
    BY <1>2, <1>3, <1>10 DEF Lost
  <2>2. PICK k \in SeqNum : s.timers_[k] = g
    BY <1>1, <1>10, <2>1 DEF Lost
  <2>3. k = n
    BY <1>2, <1>3, <1>10, <2>2 DEF Lost
  <2> QED
    BY <1>1, <2>1, <2>2, <2>3
<1> QED
  BY <1>1, <1>3, <1>7, <1>8, <1>9, <1>10 DEF Sound, r

\* uv_close's callback frees a handle that no entry names.
LEMMA FreeLemma ==
  ASSUME NEW m, Sound(m), NEW h \in Handle, m.status[h] = "closing"
  PROVE  /\ Sound([m EXCEPT !.status[h] = "free"])
         /\ RunningOf([m EXCEPT !.status[h] = "free"]) = RunningOf(m)
         /\ [m EXCEPT !.status[h] = "free"].msl = m.msl
         /\ Lost([m EXCEPT !.status[h] = "free"]) = Lost(m)
<1> DEFINE r == [m EXCEPT !.status[h] = "free"]
<1>1. /\ m \in Manager /\ MapOf(m) /\ ActiveOf(m)
      /\ m.status \in [Handle -> {"free", "active", "stopped", "closing"}]
  BY DEF Sound, Manager
<1>2. /\ r.timers_ = m.timers_ /\ r.msl = m.msl /\ r \in Manager
      /\ r.status = [m.status EXCEPT ![h] = "free"]
  BY <1>1 DEF Manager
<1>3. \A n \in SeqNum : m.timers_[n] # h
  BY <1>1, TimerAssumption DEF MapOf
<1> HIDE DEF r
<1>4. MapOf(r)
  BY <1>1, <1>2, <1>3 DEF MapOf
<1>5. ActiveOf(r)
  BY <1>1, <1>2 DEF ActiveOf
<1>6. RunningOf(r) = RunningOf(m)
  <2>1. ASSUME NEW n \in SeqNum PROVE n \in RunningOf(r) <=> n \in RunningOf(m)
    BY <1>1, <1>2, <1>3 DEF RunningOf
  <2> QED
    BY <2>1 DEF RunningOf
<1>7. Lost(r) = Lost(m)
  <2>1. ASSUME NEW g \in Handle PROVE g \in Lost(r) <=> g \in Lost(m)
    BY <1>1, <1>2, <2>1 DEF Lost
  <2> QED
    BY <2>1 DEF Lost
<1> QED
  BY <1>2, <1>4, <1>5, <1>6, <1>7 DEF Sound, r

\* The 2MSL timer is apart from the others.
LEMMA MslLemma ==
  ASSUME NEW m, Sound(m), NEW b \in BOOLEAN
  PROVE  /\ Sound([m EXCEPT !.msl = b])
         /\ RunningOf([m EXCEPT !.msl = b]) = RunningOf(m)
         /\ [m EXCEPT !.msl = b].msl = b
         /\ Lost([m EXCEPT !.msl = b]) = Lost(m)
<1> DEFINE r == [m EXCEPT !.msl = b]
<1>1. /\ r.timers_ = m.timers_ /\ r.status = m.status /\ r.msl = b
      /\ r \in Manager
  BY DEF Sound, Manager
<1> HIDE DEF r
<1> QED
  BY <1>1 DEF Sound, MapOf, ActiveOf, RunningOf, Lost, r

-----------------------------------------------------------------------------
(* The steps of the manager.                                               *)

\* A handle is lost only to a new one of the same number.
Step ==
  \A h \in Lost(mgr') \ Lost(mgr) :
     \E n \in SeqNum : mgr.timers_[n] = h /\ mgr'.timers_[n] \notin {h, NoHandle}

\* The entry of a lost handle names another one.
LEMMA NewEntry ==
  ASSUME Sound(mgr), NEW n \in SeqNum, NEW h \in Handle, NEW g,
         mgr'.timers_ = [mgr.timers_ EXCEPT ![n] = h],
         g = mgr.timers_[n], g # h
  PROVE  mgr.timers_[n] = g /\ mgr'.timers_[n] \notin {g, NoHandle}
<1>1. mgr.timers_ \in [SeqNum -> Handle \cup {NoHandle}]
  BY DEF Sound, Manager
<1> QED
  BY <1>1, TimerAssumption DEF Sound, Manager

\* drop_timer_up_to walks the ordered map up to the first key that is not below.
LEMMA BelowLemma ==
  ASSUME NEW S, S \subseteq SeqNum, NEW n \in SeqNum
  PROVE  S \ Below(n) = {k \in S : k >= n}
<1>1. ASSUME NEW k \in S PROVE k \in Below(n) <=> ~(k >= n)
  <2>1. k \in SeqNum /\ k \in Nat /\ n \in Nat
    BY TimerAssumption
  <2> QED
    BY <2>1 DEF Below
<1> QED
  BY <1>1

\* A call of the session, or a timer that fires, keeps the manager sound.
LEMMA CallStep ==
  ASSUME IInv, NEW n \in SeqNum, Session(n) \/ Acknowledged(n) \/ Loop(n)
  PROVE  Step /\ IInv' /\ Abstract!Next
<1>1. Sound(mgr) /\ n \in Nat /\ {n} \subseteq SeqNum /\ Below(n) \subseteq SeqNum
  BY TimerAssumption DEF IInv, Below
<1>2. /\ RunningSet = RunningOf(mgr)
      /\ RunningSet' = RunningOf(mgr')
  BY DEF RunningSet, Running, RunningOf
<1>3. RunningOf(mgr) \subseteq SeqNum
  BY DEF RunningOf
<1>4. CASE StartTimer(n)
  <2>1. PICK h \in Handle : Free(h) /\ Call(start_timer(mgr, n, h))
    BY <1>4 DEF StartTimer
  <2>2. /\ Sound(mgr') /\ RunningOf(mgr') = RunningOf(mgr) \cup {n}
        /\ mgr'.msl = mgr.msl /\ mgr'.timers_ = [mgr.timers_ EXCEPT ![n] = h]
        /\ \A g \in Lost(mgr') \ Lost(mgr) : g = mgr.timers_[n] /\ g # h
    BY <1>1, <2>1, StartLemma DEF Call, Free
  <2>3. Step
    BY <1>1, <2>2, NewEntry DEF Step
  <2>4. IInv'
    BY <2>1, <2>2 DEF IInv, MslEndsWithSession, Call
  <2>5. Abstract!Next
    BY <1>2, <2>1, <2>2 DEF Call, alive, Abstract!Next, Abstract!Start
  <2> QED
    BY <2>3, <2>4, <2>5
<1>5. CASE StopTimer(n) \/ StopTimersUpTo(n)
  <2>1. PICK keys \in {{n}, Below(n)} : Call(Stop(mgr, keys))
    BY <1>5 DEF StopTimer, StopTimersUpTo, stop_timer, stop_timers_up_to
  <2>2. /\ Sound(mgr') /\ RunningOf(mgr') = RunningOf(mgr) \ keys
        /\ mgr'.msl = mgr.msl /\ Lost(mgr') = Lost(mgr)
    BY <1>1, <2>1, StopLemma DEF Call
  <2>3. Step /\ IInv'
    BY <2>1, <2>2 DEF Step, IInv, MslEndsWithSession, Call
  <2>4. RunningOf(mgr) \ Below(n) = {k \in RunningOf(mgr) : k >= n}
    BY <1>3, BelowLemma
  <2>5. Abstract!Next
    BY <1>2, <2>1, <2>2, <2>4
    DEF Call, alive, Abstract!Next, Abstract!Stop, Abstract!StopUpTo
  <2> QED
    BY <2>3, <2>5
<1>6. CASE DropTimer(n) \/ DropTimerUpTo(n)
  <2>1. PICK keys \in {{n}, Below(n)} : Call(Drop(mgr, keys))
    BY <1>6 DEF DropTimer, DropTimerUpTo, drop_timer, drop_timer_up_to
  <2>2. /\ Sound(mgr') /\ RunningOf(mgr') = RunningOf(mgr) \ keys
        /\ mgr'.msl = mgr.msl /\ Lost(mgr') = Lost(mgr)
    BY <1>1, <2>1, DropLemma DEF Call
  <2>3. Step /\ IInv'
    BY <2>1, <2>2 DEF Step, IInv, MslEndsWithSession, Call
  <2>4. RunningOf(mgr) \ Below(n) = {k \in RunningOf(mgr) : k >= n}
    BY <1>3, BelowLemma
  <2>5. Abstract!Next
    BY <1>2, <2>1, <2>2, <2>4
    DEF Call, alive, Abstract!Next, Abstract!Stop, Abstract!StopUpTo
  <2> QED
    BY <2>3, <2>5
<1>7. CASE LastAcked(n)
  <2> DEFINE s == stop_timer(mgr, n)
  <2>1. /\ Sound(s) /\ s.msl = mgr.msl /\ Lost(s) = Lost(mgr) /\ alive
        /\ mgr' = Drop(s, SeqNum) /\ ended' = "last_ack"
    BY <1>1, <1>7, StopLemma DEF LastAcked, End, Destroyed, stop_timer
  <2>2. /\ Sound(mgr') /\ RunningOf(mgr') = {} /\ mgr'.msl = mgr.msl
        /\ Lost(mgr') = Lost(mgr)
    <3>1. /\ Sound(mgr') /\ RunningOf(mgr') = RunningOf(s) \ SeqNum
          /\ mgr'.msl = s.msl /\ Lost(mgr') = Lost(s)
      <4> HIDE DEF s
      <4> QED
        BY <2>1, DropLemma
    <3> QED
      BY <2>1, <3>1 DEF RunningOf
  <2>3. Step /\ IInv'
    BY <2>1, <2>2 DEF Step, IInv, MslEndsWithSession
  <2>4. Abstract!Next
    BY <1>2, <2>1, <2>2 DEF alive, Abstract!Next, Abstract!Destroy
  <2> QED
    BY <2>3, <2>4
<1> DEFINE f == stop_timer(Fired(n), n)
<1>8. Sound(f) /\ RunningOf(f) = RunningOf(mgr) \ {n} /\ f.timers_ = mgr.timers_
      /\ f.msl = mgr.msl /\ Lost(f) = Lost(mgr)
      /\ \A h \in Handle : mgr.status[h] = "free" => f.status[h] = "free"
  <2>1. /\ Sound(Fired(n)) /\ RunningOf(Fired(n)) = RunningOf(mgr) \ {n}
        /\ Fired(n).timers_ = mgr.timers_ /\ Fired(n).msl = mgr.msl
        /\ Lost(Fired(n)) = Lost(mgr)
        /\ \A h \in Handle : mgr.status[h] = "free" => Fired(n).status[h] = "free"
    BY <1>1, StopLemma DEF Fired, stop_timer
  <2> QED
    BY <1>1, <2>1, StopLemma DEF stop_timer
<1> HIDE DEF f
<1>9. CASE GiveUp(n)
  <2>1. Running(n) /\ Call(f)
    BY <1>9 DEF GiveUp, f
  <2>2. Step /\ IInv'
    BY <1>8, <2>1 DEF Step, IInv, MslEndsWithSession, Call
  <2>3. n \in RunningSet /\ RunningSet' = RunningSet \ {n}
    BY <1>2, <1>8, <2>1 DEF RunningSet, Call
  <2>4. Abstract!Next
    BY <1>8, <2>1, <2>3 DEF Call, alive, Abstract!Next, Abstract!Expire
  <2> QED
    BY <2>2, <2>4
<1>10. CASE Retransmit(n)
  <2>1. PICK h \in Handle : Free(h) /\ Call(start_timer(f, n, h))
    BY <1>10 DEF Retransmit, f
  <2>2. Running(n)
    BY <1>10 DEF Retransmit
  <2>3. /\ Sound(mgr') /\ RunningOf(mgr') = RunningOf(f) \cup {n}
        /\ mgr'.msl = f.msl /\ mgr'.timers_ = [f.timers_ EXCEPT ![n] = h]
        /\ \A g \in Lost(mgr') \ Lost(f) : g = f.timers_[n] /\ g # h
    BY <1>8, <2>1, StartLemma DEF Call, Free
  <2>4. Step
    BY <1>1, <1>8, <2>3, NewEntry DEF Step
  <2>5. IInv'
    BY <1>8, <2>1, <2>3 DEF IInv, MslEndsWithSession, Call
  <2>6. n \in RunningSet /\ RunningSet' = RunningSet
    BY <1>2, <1>8, <2>2, <2>3 DEF RunningSet
  <2>7. Abstract!Next
    BY <1>8, <2>1, <2>3, <2>6 DEF Call, alive, Abstract!Next, Abstract!Expire
  <2> QED
    BY <2>4, <2>5, <2>7
<1> QED
  BY <1>4, <1>5, <1>6, <1>7, <1>9, <1>10 DEF Session, Acknowledged, Loop

\* So does everything else.
LEMMA OtherStep ==
  ASSUME IInv,
         \/ DropAllTimers \/ StopAllTimers \/ _start_2msl_timer
         \/ Reset \/ Cleared \/ _handle_2msl_timeout
         \/ \E h \in Handle : CloseCallback(h)
  PROVE  Step /\ IInv' /\ (Abstract!Next \/ UNCHANGED Abstract!vars)
<1>1. Sound(mgr) /\ SeqNum \subseteq SeqNum /\ RunningOf(mgr) \ SeqNum = {}
      /\ mgr.msl \in BOOLEAN
  BY DEF IInv, RunningOf, Sound, Manager
<1>2. /\ RunningSet = RunningOf(mgr)
      /\ RunningSet' = RunningOf(mgr')
  BY DEF RunningSet, Running, RunningOf
<1>3. CASE DropAllTimers
  <2>1. /\ Sound(mgr') /\ RunningOf(mgr') = {} /\ mgr'.msl = mgr.msl
        /\ Lost(mgr') = Lost(mgr) /\ alive /\ UNCHANGED ended
    BY <1>1, <1>3, DropLemma DEF DropAllTimers, drop_all_timers, Call
  <2> QED
    BY <1>2, <2>1
    DEF Step, IInv, MslEndsWithSession, alive, Abstract!Next, Abstract!StopRetransmissions
<1>4. CASE StopAllTimers
  <2>1. /\ Sound(Stop(mgr, SeqNum)) /\ RunningOf(Stop(mgr, SeqNum)) = {}
        /\ Lost(Stop(mgr, SeqNum)) = Lost(mgr)
    BY <1>1, StopLemma
  <2>2. /\ mgr' = [Stop(mgr, SeqNum) EXCEPT !.msl = FALSE]
        /\ alive /\ UNCHANGED ended
    BY <1>4 DEF StopAllTimers, stop_all_timers, Call
  <2>3. /\ Sound(mgr') /\ RunningOf(mgr') = {} /\ mgr'.msl = FALSE
        /\ Lost(mgr') = Lost(mgr)
    BY <2>1, <2>2, MslLemma
  <2> QED
    BY <1>2, <2>2, <2>3
    DEF Step, IInv, MslEndsWithSession, alive, Abstract!Next, Abstract!StopAll
<1>5. CASE _start_2msl_timer
  <2>1. /\ Sound(mgr') /\ RunningOf(mgr') = RunningOf(mgr) /\ mgr'.msl = TRUE
        /\ Lost(mgr') = Lost(mgr) /\ alive /\ UNCHANGED ended
    BY <1>1, <1>5, MslLemma DEF _start_2msl_timer, Call
  <2> QED
    BY <1>2, <2>1
    DEF Step, IInv, MslEndsWithSession, alive, Abstract!Next, Abstract!StartMsl
<1>6. ASSUME NEW m, Sound(m), Lost(m) = Lost(mgr), NEW owner \in {"session", "stack"},
             m.msl \in {mgr.msl, FALSE}, m.msl => owner = "stack", End(m, owner)
      PROVE  Step /\ IInv' /\ Abstract!Next
  <2>1. /\ Sound(mgr') /\ RunningOf(mgr') = RunningOf(m) \ SeqNum
        /\ mgr'.msl = m.msl /\ Lost(mgr') = Lost(m)
        /\ alive /\ ended' = owner
    BY <1>6, DropLemma DEF End, Destroyed
  <2>2. RunningOf(mgr') = {}
    BY <2>1 DEF RunningOf
  <2>3. Step
    BY <1>6, <2>1 DEF Step
  <2>4. IInv'
    BY <1>6, <2>1 DEF IInv, MslEndsWithSession
  <2>5. Abstract!Destroy
    BY <1>2, <1>6, <2>1, <2>2 DEF alive, Abstract!Destroy
  <2> QED
    BY <2>1, <2>3, <2>4, <2>5 DEF alive, Abstract!Next
<1>7. CASE Reset
  <2>1. /\ Sound(Stop(mgr, SeqNum)) /\ Lost(Stop(mgr, SeqNum)) = Lost(mgr)
    BY <1>1, StopLemma
  <2>2. /\ Sound(stop_all_timers(mgr)) /\ stop_all_timers(mgr).msl = FALSE
        /\ Lost(stop_all_timers(mgr)) = Lost(mgr)
    BY <2>1, MslLemma DEF stop_all_timers
  <2> QED
    BY <1>6, <1>7, <2>2 DEF Reset
<1>8. CASE Cleared
  <2>1. End(mgr, "stack") /\ Sound(mgr) /\ mgr.msl \in {mgr.msl, FALSE}
    BY <1>1, <1>8 DEF Cleared
  <2> QED
    BY <1>6, <2>1
<1>9. CASE _handle_2msl_timeout
  <2> DEFINE m == [mgr EXCEPT !.msl = FALSE]
  <2>1. Sound(m) /\ Lost(m) = Lost(mgr) /\ m.msl = FALSE
    BY <1>1, MslLemma
  <2>2. End(m, "session")
    BY <1>9 DEF _handle_2msl_timeout
  <2> HIDE DEF m
  <2> QED
    BY <1>6, <2>1, <2>2
<1>10. CASE \E h \in Handle : CloseCallback(h)
  <2>1. PICK h \in Handle : CloseCallback(h)
    BY <1>10
  <2>2. /\ Sound(mgr') /\ RunningOf(mgr') = RunningOf(mgr) /\ mgr'.msl = mgr.msl
        /\ Lost(mgr') = Lost(mgr) /\ UNCHANGED ended
    BY <1>1, <2>1, FreeLemma DEF CloseCallback
  <2>3. UNCHANGED Abstract!vars
    BY <1>2, <2>2 DEF alive, Abstract!vars
  <2> QED
    BY <2>2, <2>3 DEF Step, IInv, MslEndsWithSession
<1> QED
  BY <1>3, <1>4, <1>5, <1>7, <1>8, <1>9, <1>10

LEMMA NextStep ==
  ASSUME IInv, [Next]_vars
  PROVE  IInv' /\ (Step \/ UNCHANGED vars) /\ (Abstract!Next \/ UNCHANGED Abstract!vars)
<1>1. CASE \E n \in SeqNum : Session(n) \/ Acknowledged(n) \/ Loop(n)
  BY <1>1, CallStep
<1>2. CASE UNCHANGED vars
  BY <1>2
  DEF vars, IInv, MslEndsWithSession, Sound, MapOf, ActiveOf, Abstract!vars,
      RunningSet, Running, alive
<1> QED
  BY <1>1, <1>2, OtherStep DEF Next

\* The empty manager of the constructor.
LEMMA InitIInv == Init => IInv
<1> SUFFICES ASSUME Init PROVE IInv
  OBVIOUS
<1>1. /\ mgr.timers_ = [n \in SeqNum |-> NoHandle]
      /\ mgr.status = [h \in Handle |-> "free"] /\ mgr.msl = FALSE
      /\ mgr \in Manager
  BY DEF Init, Manager
<1>2. MapOf(mgr) /\ ActiveOf(mgr)
  BY <1>1 DEF MapOf, ActiveOf
<1> QED
  BY <1>1, <1>2 DEF Init, IInv, Sound, MslEndsWithSession

\* The invariant holds in every reachable state.
THEOREM Invariant == Spec => []IInv
<1>1. IInv /\ [Next]_vars => IInv'
  BY NextStep
<1> QED
  BY InitIInv, <1>1, PTL DEF Spec

\* The variables keep their types.
THEOREM TypesKept == Spec => []TypeOK
<1>1. IInv => TypeOK
  BY DEF IInv, Sound, TypeOK
<1> QED
  BY Invariant, <1>1, PTL

\* stop_timer, drop_timer and the destructor never touch a handle that has been
\* closed or deleted, and no handle is closed twice.
THEOREM NoUseAfterClose == Spec => []MapIsSound
<1>1. IInv => MapIsSound
  BY DEF IInv, Sound, MapOf, MapIsSound
<1> QED
  BY Invariant, <1>1, PTL

\* Every timer that can fire is found by stop_all_timers and the destructor.
THEOREM NoStrayTimer == Spec => []ActiveIsMapped
<1>1. IInv => ActiveIsMapped
  BY DEF IInv, Sound, ActiveOf, ActiveIsMapped
<1> QED
  BY Invariant, <1>1, PTL

\* A session that a RST or its 2MSL timer ends leaves no 2MSL timer behind.
THEOREM NoStrayMsl == Spec => []MslEndsWithSession
<1>1. IInv => MslEndsWithSession
  BY DEF IInv
<1> QED
  BY Invariant, <1>1, PTL

\* Handles are lost only where start_timer overwrites an entry.
THEOREM OnlyRestartsLose == Spec => LostOnlyByRestart
<1>1. IInv /\ [Next]_vars =>
        [\A h \in Lost(mgr') \ Lost(mgr) :
           \E n \in SeqNum : mgr.timers_[n] = h /\ mgr'.timers_[n] \notin {h, NoHandle}]_vars
  BY NextStep DEF Step
<1> QED
  BY Invariant, <1>1, PTL DEF Spec, LostOnlyByRestart

\* The handles implement the set of running timers that TcpSession uses.
THEOREM HandlesImplementTimerSet == Spec => TimerSetSpec
<1>1. Init => Abstract!Init
  BY InitIInv DEF Init, Abstract!Init, RunningSet, Running, alive
<1>2. IInv /\ [Next]_vars => [Abstract!Next]_(Abstract!vars)
  BY NextStep
<1> QED
  BY Invariant, <1>1, <1>2, PTL DEF Spec, TimerSetSpec, Abstract!Spec

=============================================================================
