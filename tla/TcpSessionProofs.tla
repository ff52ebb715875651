-------------------------- MODULE TcpSessionProofs --------------------------
(***************************************************************************)
(* Lemmas about the operators of TcpSession: every handler maps a          *)
(* well-formed session to a well-formed session.                           *)
(***************************************************************************)
EXTENDS TcpSession, SequenceTheorems, TLAPS

\* uint32_t arithmetic stays inside a word.
LEMMA WordArith ==
  /\ SeqMod \in Nat \ {0} /\ 0 \in Word
  /\ \A a, b \in Int : Plus(a, b) \in Word /\ Minus(a, b) \in Word
<1>1. SeqMod \in Nat \ {0}
  BY SessionAssumption, SMT
<1> QED
  BY <1>1 DEF Word, Plus, Minus

\* Half of a natural number is a natural number that is no larger.
LEMMA Halve == ASSUME NEW n \in Nat PROVE n \div 2 \in Nat /\ n \div 2 <= n
OBVIOUS

\* Half of a word is a word.
LEMMA HalfWord == ASSUME NEW w \in Word PROVE w \div 2 \in Word
<1>1. SeqMod \in Nat /\ w \in Nat /\ w <= SeqMod - 1
  BY WordArith DEF Word
<1>2. ASSUME NEW n \in Nat, NEW k \in Nat, NEW h \in Nat, h <= n, n <= k - 1
      PROVE  h \in 0..(k - 1)
  BY <1>2
<1> QED
  BY <1>1, <1>2, Halve DEF Word

\* The octet swap of a word is a number.
LEMMA SwapType == ASSUME NEW x \in Word PROVE htonl(x) \in Nat
<1>1. Radix \in Nat \ {0} /\ x \in Nat
  BY SessionAssumption, WordArith DEF Word
<1>2. x % Radix \in Nat /\ x \div Radix \in Nat
  BY <1>1
<1>3. (x % Radix) * Radix \in Nat
  BY <1>1, <1>2
<1> QED
  BY <1>2, <1>3 DEF htonl

\* What every operator below preserves: the types, and the capacity of the
\* two buffers.
WellFormed(s) ==
  /\ s \in Session
  /\ Len(s.send_buffer) <= BufferCapacity /\ Len(s.recv_buffer) <= BufferCapacity

\* The operators that only send and keep timers leave these fields alone.
Keeps(r, s) ==
  /\ r.self = s.self /\ r.state = s.state /\ r.send_unack = s.send_unack
  /\ r.dup_ack_count = s.dup_ack_count /\ r.last_ack_received = s.last_ack_received
  /\ r.ooo_map = s.ooo_map /\ r.recv_next = s.recv_next
  /\ r.send_buffer = s.send_buffer /\ r.recv_buffer = s.recv_buffer

\* The numbers of a session are words, hence integers.
LEMMA Numbers ==
  ASSUME NEW s, WellFormed(s)
  PROVE  /\ {s.send_next, s.send_unack, s.send_window_size, s.ssthresh,
              s.last_ack_received, s.recv_next} \subseteq Word
         /\ {s.send_next, s.send_unack, s.send_window_size, s.ssthresh,
              s.last_ack_received, s.recv_next} \subseteq Nat
<1>1. Word \subseteq Nat
  BY WordArith DEF Word
<1>2. {s.send_next, s.send_unack, s.send_window_size, s.ssthresh,
       s.last_ack_received, s.recv_next} \subseteq Word
  BY DEF WellFormed, Session
<1> QED
  BY <1>1, <1>2

\* A packet the session builds is a packet; its advertised window is never negative.
LEMMA PacketType ==
  ASSUME NEW s, WellFormed(s), NEW flags \in SUBSET TcpFlag, NEW seq \in Word,
         NEW ack \in Word, NEW payload \in Seq(Byte)
  PROVE  Packet(s, flags, seq, ack, payload) \in myu_tcp_packet
<1>1. get_usable_recv_window_size(s) \in Nat
  BY SessionAssumption DEF get_usable_recv_window_size, WellFormed, Session
<1>2. s.self \in Addr
  BY DEF WellFormed, Session
<1> QED
  BY <1>1, <1>2 DEF Packet, myu_tcp_packet

\* send_packet only appends to what the session has sent.
LEMMA SendPacketType ==
  ASSUME NEW s, WellFormed(s), NEW dest, NEW packet \in myu_tcp_packet
  PROVE  /\ WellFormed(send_packet(s, dest, packet))
         /\ Keeps(send_packet(s, dest, packet), s)
         /\ send_packet(s, dest, packet).timers = s.timers
         /\ send_packet(s, dest, packet).msl_timer = s.msl_timer
<1> DEFINE S == Seq(myu_tcp_packet)
           o == [s.out EXCEPT ![dest] = Append(@, packet)]
<1>1. CASE dest \in Addr
  <2>1. s.out \in [Addr -> S]
    BY DEF WellFormed, Session
  <2>2. o \in [Addr -> S]
    <3>1. Append(s.out[dest], packet) \in S
      BY <1>1, <2>1, AppendProperties
    <3> HIDE DEF S
    <3> QED
      BY <1>1, <2>1, <3>1
  <2>3. send_packet(s, dest, packet) = [s EXCEPT !.out = o]
    BY <1>1 DEF send_packet
  <2>4. ASSUME NEW v \in [Addr -> S]
        PROVE  /\ WellFormed([s EXCEPT !.out = v]) /\ Keeps([s EXCEPT !.out = v], s)
               /\ [s EXCEPT !.out = v].timers = s.timers
               /\ [s EXCEPT !.out = v].msl_timer = s.msl_timer
    BY DEF WellFormed, Session, Keeps
  <2> HIDE DEF o, S
  <2> QED
    BY <2>2, <2>3, <2>4
<1>2. CASE dest \notin Addr
  BY <1>2 DEF send_packet, Keeps
<1> QED
  BY <1>1, <1>2

\* _send_pure_ack only sends: no timer and no counter changes.
LEMMA PureAckType ==
  ASSUME NEW s, WellFormed(s), NEW ack \in Word
  PROVE  /\ WellFormed(send_pure_ack(s, ack)) /\ Keeps(send_pure_ack(s, ack), s)
         /\ send_pure_ack(s, ack).timers = s.timers
         /\ send_pure_ack(s, ack).msl_timer = s.msl_timer
<1>1. {"ACK"} \in SUBSET TcpFlag /\ s.send_next \in Word /\ <<>> \in Seq(Byte)
  BY DEF TcpFlag, WellFormed, Session
<1> QED
  BY <1>1, PacketType, SendPacketType DEF send_pure_ack

\* The operations on timers only change timers, and stop_all_timers leaves none.
LEMMA TimerType ==
  ASSUME NEW s, WellFormed(s)
  PROVE  /\ \A timer \in RetransmitTimer :
              /\ WellFormed(start_timer(s, timer)) /\ Keeps(start_timer(s, timer), s)
              /\ start_timer(s, timer).msl_timer = s.msl_timer
         /\ \A seq : /\ WellFormed(stop_timer(s, seq)) /\ Keeps(stop_timer(s, seq), s)
                     /\ stop_timer(s, seq).msl_timer = s.msl_timer
         /\ \A ack : /\ WellFormed(drop_timer_up_to(s, ack))
                     /\ Keeps(drop_timer_up_to(s, ack), s)
         /\ WellFormed(stop_all_timers(s)) /\ Keeps(stop_all_timers(s), s)
         /\ stop_all_timers(s).timers = {} /\ stop_all_timers(s).msl_timer = FALSE
<1>1. ASSUME NEW v \in SUBSET RetransmitTimer
      PROVE  /\ WellFormed([s EXCEPT !.timers = v]) /\ Keeps([s EXCEPT !.timers = v], s)
             /\ [s EXCEPT !.timers = v].msl_timer = s.msl_timer
  BY DEF WellFormed, Session, Keeps
<1>2. s.timers \in SUBSET RetransmitTimer
  BY DEF WellFormed, Session
<1>3. ASSUME NEW timer \in RetransmitTimer
      PROVE  {t \in s.timers : t.seq # timer.seq} \cup {timer} \in SUBSET RetransmitTimer
  BY <1>2
<1>4. /\ WellFormed(stop_all_timers(s)) /\ Keeps(stop_all_timers(s), s)
      /\ stop_all_timers(s).timers = {} /\ stop_all_timers(s).msl_timer = FALSE
  BY DEF stop_all_timers, WellFormed, Session, Keeps
<1> QED
  BY <1>1, <1>2, <1>3, <1>4 DEF start_timer, stop_timer, drop_timer_up_to

\* _send_control_packet changes only send_next, the timers and what is sent.
LEMMA ControlType ==
  ASSUME NEW s, WellFormed(s), s.remote \in Addr, NEW flags \in SUBSET TcpFlag
  PROVE  LET r == send_control_packet(s, flags)
         IN  WellFormed(r) /\ Keeps(r, s) /\ r.msl_timer = s.msl_timer
<1> DEFINE timer == [seq |-> s.send_next, flags |-> flags, payload |-> <<>>,
                     count |-> 0, dest |-> s.remote]
           started == start_timer(s, timer)
           timed == [started EXCEPT !.send_next = Plus(@, 1)]
           packet == Packet(s, flags, s.send_next, s.recv_next, <<>>)
<1>1. s.send_next \in Word /\ s.recv_next \in Word /\ <<>> \in Seq(Byte)
  BY DEF WellFormed, Session
<1>2. timer \in RetransmitTimer
  BY <1>1 DEF RetransmitTimer
<1>3. WellFormed(started) /\ Keeps(started, s) /\ started.msl_timer = s.msl_timer
  BY <1>2, TimerType
<1>4. packet \in myu_tcp_packet
  BY <1>1, PacketType
<1>5. WellFormed(timed) /\ Keeps(timed, s) /\ timed.msl_timer = s.msl_timer
  <2> HIDE DEF started
  <2>1. Plus(started.send_next, 1) \in Word
    BY <1>3, WordArith, Numbers
  <2>2. timed = [started EXCEPT !.send_next = Plus(started.send_next, 1)]
    OBVIOUS
  <2>3. ASSUME NEW v \in Word
        PROVE  LET r == [started EXCEPT !.send_next = v]
               IN  WellFormed(r) /\ Keeps(r, s) /\ r.msl_timer = s.msl_timer
    BY <1>3 DEF WellFormed, Session, Keeps
  <2> HIDE DEF timed
  <2> QED
    BY <2>1, <2>2, <2>3
<1> DEFINE base == IF flags \cap {"SYN", "FIN"} # {} THEN timed ELSE s
<1>6. WellFormed(base) /\ Keeps(base, s) /\ base.msl_timer = s.msl_timer
  <2> HIDE DEF timed
  <2> QED
    BY <1>5 DEF Keeps
<1>7. send_control_packet(s, flags) = send_packet(base, s.remote, packet)
  BY DEF send_control_packet
<1> HIDE DEF base, packet
<1> QED
  BY <1>4, <1>6, <1>7, SendPacketType DEF Keeps

\* _send_payload_packet changes, besides, only inflight_packets_.
LEMMA PayloadType ==
  ASSUME NEW s, WellFormed(s), NEW payload \in Seq(Byte), NEW flags \in SUBSET TcpFlag
  PROVE  LET r == send_payload_packet(s, payload, flags)
         IN  WellFormed(r) /\ Keeps(r, s) /\ r.msl_timer = s.msl_timer
<1> DEFINE timer == [seq |-> s.send_next, flags |-> flags, payload |-> payload,
                     count |-> 0, dest |-> DefaultAddr]
           started == start_timer(s, timer)
           key == htonl(s.send_next)
           entry == [key |-> key, flags |-> flags, payload |-> payload]
           inflight == IF \E p \in s.inflight_packets : p.key = key
                         THEN s.inflight_packets ELSE s.inflight_packets \cup {entry}
           base == [started EXCEPT !.inflight_packets = inflight,
                                   !.send_next = Plus(@, Len(payload))]
           packet == Packet(s, flags, s.send_next, s.recv_next, payload)
           I == [key : Nat, flags : SUBSET TcpFlag, payload : Seq(Byte)]
<1>1. s.send_next \in Word /\ s.recv_next \in Word /\ s.inflight_packets \in SUBSET I
  BY DEF WellFormed, Session
<1>2. timer \in RetransmitTimer
  BY <1>1 DEF RetransmitTimer
<1>3. WellFormed(started) /\ Keeps(started, s) /\ started.msl_timer = s.msl_timer
  BY <1>2, TimerType
<1>4. packet \in myu_tcp_packet
  BY <1>1, PacketType
<1>5. inflight \in SUBSET I
  <2>1. key \in Nat
    BY <1>1, SwapType
  <2>2. entry \in I
    BY <2>1
  <2> HIDE DEF entry, I
  <2> QED
    BY <1>1, <2>2
<1>6. WellFormed(base) /\ Keeps(base, s) /\ base.msl_timer = s.msl_timer
  <2> HIDE DEF started, inflight
  <2>1. Plus(started.send_next, Len(payload)) \in Word
    BY <1>3, WordArith, Numbers
  <2>2. base = [started EXCEPT !.inflight_packets = inflight,
                               !.send_next = Plus(started.send_next, Len(payload))]
    OBVIOUS
  <2>3. ASSUME NEW v \in Word, NEW w \in SUBSET I
        PROVE  LET r == [started EXCEPT !.inflight_packets = w, !.send_next = v]
               IN  WellFormed(r) /\ Keeps(r, s) /\ r.msl_timer = s.msl_timer
    BY <1>3 DEF WellFormed, Session, Keeps
  <2> HIDE DEF base, I
  <2> QED
    BY <1>5, <2>1, <2>2, <2>3
<1>7. send_payload_packet(s, payload, flags)
        = IF payload = <<>> THEN s ELSE send_packet(base, s.remote, packet)
  BY DEF send_payload_packet
<1> HIDE DEF base, packet
<1> QED
  BY <1>4, <1>6, <1>7, SendPacketType DEF Keeps

\* A part of a byte sequence is a byte sequence, and not longer.
LEMMA PartType ==
  ASSUME NEW q \in Seq(Byte), NEW m \in Nat \ {0}, NEW n \in Nat, n <= Len(q)
  PROVE  SubSeq(q, m, n) \in Seq(Byte) /\ Len(SubSeq(q, m, n)) <= Len(q)
<1>1. \A i \in m..n : q[i] \in Byte
  OBVIOUS
<1>2. /\ SubSeq(q, m, n) \in Seq(Byte)
      /\ Len(SubSeq(q, m, n)) = IF m <= n THEN n - m + 1 ELSE 0
  BY <1>1, SubSeqProperties
<1> QED
  BY <1>2

\* peek_range and pop_front return byte sequences, and popping never lengthens.
LEMMA QueueType ==
  ASSUME NEW q \in Seq(Byte), NEW offset \in Nat, NEW n \in Nat
  PROVE  /\ peek_range(q, offset, n) \in Seq(Byte)
         /\ pop_front(q, n) \in Seq(Byte) /\ Len(pop_front(q, n)) <= Len(q)
<1>1. peek_range(q, offset, n) \in Seq(Byte)
  <2>1. CASE offset >= Len(q) \/ n = 0
    BY <2>1 DEF peek_range
  <2>2. CASE ~(offset >= Len(q) \/ n = 0)
    <3> DEFINE last == IF offset + n > Len(q) THEN Len(q) ELSE offset + n
    <3>1. last \in Nat /\ last <= Len(q) /\ offset + 1 \in Nat \ {0}
      OBVIOUS
    <3> HIDE DEF last
    <3>2. SubSeq(q, offset + 1, last) \in Seq(Byte)
      BY <3>1, PartType
    <3> QED
      BY <2>2, <3>2 DEF peek_range, last
  <2> QED
    BY <2>1, <2>2
<1>2. pop_front(q, n) \in Seq(Byte) /\ Len(pop_front(q, n)) <= Len(q)
  <2> DEFINE k == IF n > Len(q) THEN Len(q) ELSE n
  <2>1. k + 1 \in Nat \ {0} /\ Len(q) \in Nat /\ Len(q) <= Len(q)
    OBVIOUS
  <2> HIDE DEF k
  <2> QED
    BY <2>1, PartType DEF pop_front, k
<1> QED
  BY <1>1, <1>2

\* _handle_try_send sends data in ESTABLISHED and CLOSE_WAIT and is a no-op elsewhere.
LEMMA TrySendType ==
  ASSUME NEW s, WellFormed(s)
  PROVE  /\ WellFormed(handle_try_send(s)) /\ Keeps(handle_try_send(s), s)
         /\ handle_try_send(s).msl_timer = s.msl_timer
         /\ s.state \notin {"ESTABLISHED", "CLOSE_WAIT"} => handle_try_send(s) = s
<1> DEFINE inflight == Minus(s.send_next, s.send_unack)
           allowance == Minus(s.send_window_size, inflight)
           payload == peek_range(s.send_buffer, inflight, allowance)
           quiet == s.state \notin {"ESTABLISHED", "CLOSE_WAIT"} \/ allowance = 0
<1>1. /\ s.send_next \in Int /\ s.send_unack \in Int /\ s.send_window_size \in Int
      /\ s.send_buffer \in Seq(Byte)
  BY DEF WellFormed, Session, Word
<1>2. inflight \in Nat /\ allowance \in Nat
  <2>1. inflight \in Word
    BY <1>1, WordArith
  <2>2. inflight \in Nat
    BY <2>1, WordArith DEF Word
  <2> HIDE DEF inflight
  <2>3. allowance \in Word
    BY <1>1, <2>2, WordArith
  <2> QED
    BY <2>2, <2>3, WordArith DEF Word
<1>3. payload \in Seq(Byte)
  <2> HIDE DEF inflight, allowance
  <2> QED
    BY <1>1, <1>2, QueueType
<1>4. {"ACK"} \in SUBSET TcpFlag
  BY DEF TcpFlag
<1>5. handle_try_send(s) = IF quiet THEN s ELSE send_payload_packet(s, payload, {"ACK"})
  BY DEF handle_try_send
<1>6. s.state \notin {"ESTABLISHED", "CLOSE_WAIT"} => quiet
  OBVIOUS
<1> HIDE DEF payload, quiet
<1> QED
  BY <1>3, <1>4, <1>5, <1>6, PayloadType DEF Keeps

\* A retransmission timer that fires changes timers, ssthresh, the congestion
\* window and what is sent, whether or not it gives up.
LEMMA RetransmitType ==
  ASSUME NEW s, WellFormed(s), NEW timer \in s.timers
  PROVE  LET r == handle_retransmit(s, timer) IN WellFormed(r) /\ Keeps(r, s)
<1> DEFINE next == [timer EXCEPT !.count = timer.count + 1]
           started == start_timer(s, next)
           cwnd == s.send_window_size
           half == IF cwnd % 2 # 0 THEN Plus(cwnd, 1) \div 2 ELSE Plus(cwnd, 1)
           again == [started EXCEPT !.ssthresh = half, !.send_window_size = 1]
           packet == Packet(s, timer.flags, timer.seq, s.recv_next, timer.payload)
<1>1. timer \in RetransmitTimer /\ s.recv_next \in Word
  BY DEF WellFormed, Session
<1>2. next \in RetransmitTimer
  BY <1>1 DEF RetransmitTimer
<1>3. WellFormed(started) /\ Keeps(started, s)
  BY <1>2, TimerType
<1>4. packet \in myu_tcp_packet
  BY <1>1, PacketType DEF RetransmitTimer
<1>5. half \in Word /\ 1 \in Word
  <2>1. Plus(cwnd, 1) \in Word
    BY WordArith, Numbers
  <2>2. \A w \in Word : w \div 2 \in Word
    BY HalfWord
  <2>3. 1 \in Word
    BY SessionAssumption DEF Word
  <2> QED
    BY <2>1, <2>2, <2>3
<1>6. WellFormed(again) /\ Keeps(again, s)
  <2>1. ASSUME NEW v \in Word, NEW w \in Word
        PROVE  LET r == [started EXCEPT !.ssthresh = v, !.send_window_size = w]
               IN  WellFormed(r) /\ Keeps(r, s)
    <3> HIDE DEF started
    <3> QED
      BY <1>3 DEF WellFormed, Session, Keeps
  <2> HIDE DEF started, half
  <2> QED
    BY <1>5, <2>1
<1>7. handle_retransmit(s, timer)
        = IF timer.count + 1 >= MAX_RETRANSMIT_COUNT THEN stop_timer(s, timer.seq)
          ELSE send_packet(again, timer.dest, packet)
  BY DEF handle_retransmit
<1>8. WellFormed(stop_timer(s, timer.seq)) /\ Keeps(stop_timer(s, timer.seq), s)
  BY TimerType
<1> HIDE DEF again, packet
<1> QED
  BY <1>4, <1>6, <1>7, <1>8, SendPacketType DEF Keeps

-----------------------------------------------------------------------------
(* The inductive invariant of a session.                                   *)

\* The states in which no data has been acknowledged, and those after a FIN.
Opening == {"CLOSED", "LISTEN", "SYN_SENT", "SYN_RECEIVED"}
Closing == {"FIN_WAIT_1", "FIN_WAIT_2", "CLOSE_WAIT", "LAST_ACK", "TIME_WAIT"}

\* What the duplicate counter can be, ever and before the handshake is complete.  An
\* application that connects a session that is open carries the counter over.
DupCounts == IF ConnectsClosed THEN {0, 1} ELSE Nat
FreshCounts == IF ConnectsClosed THEN {0} ELSE Nat

\* The duplicate counter can be 1 only when last_ack_received_ is no longer
\* ahead of send_unack_: then every acceptable acknowledgement resets it.
DupInv(s) ==
  /\ s.dup_ack_count \in DupCounts
  /\ s.state \in Opening => s.dup_ack_count \in FreshCounts
  /\ ConnectsClosed /\ s.state = "ESTABLISHED" /\ s.dup_ack_count = 1
       => s.last_ack_received <= s.send_unack

Quiet(s) == s.state \in {"CLOSED", "LISTEN"} => s.timers = {} /\ s.msl_timer = FALSE

SessionInv(s) == WellFormed(s) /\ s.ooo_map = {} /\ DupInv(s) /\ Quiet(s)

\* What the invariant reads, apart from the timers.
Same(r, s) ==
  /\ r.self = s.self /\ r.state = s.state /\ r.send_unack = s.send_unack
  /\ r.dup_ack_count = s.dup_ack_count /\ r.last_ack_received = s.last_ack_received
  /\ r.ooo_map = s.ooo_map

\* Outside CLOSED and LISTEN only the fields in Same matter.
LEMMA SameInv ==
  ASSUME NEW s, NEW r, SessionInv(s), WellFormed(r), Same(r, s),
         s.state \notin {"CLOSED", "LISTEN"}
  PROVE  SessionInv(r)
BY DEF SessionInv, Same, DupInv, Quiet

\* Once a FIN has been sent or received the counter only has to be a legal one.
LEMMA ClosingInv ==
  ASSUME NEW r, WellFormed(r), r.ooo_map = {}, r.dup_ack_count \in DupCounts,
         r.state \in Closing
  PROVE  SessionInv(r)
BY DEF SessionInv, DupInv, Quiet, Closing, Opening

\* During the handshake, and when it completes, the counter is that of a new session.
LEMMA OpenedInv ==
  ASSUME NEW r, WellFormed(r), r.ooo_map = {}, r.dup_ack_count \in FreshCounts,
         r.state \notin {"CLOSED", "LISTEN"}
  PROVE  SessionInv(r)
BY DEF SessionInv, DupInv, Quiet, DupCounts, FreshCounts

\* The constructor's session satisfies the invariant, and so does what is left
\* when a session has been erased.
LEMMA NewSessionInv ==
  ASSUME NEW self \in Addr, NEW remote \in Addr, NEW i \in Word
  PROVE  /\ SessionInv(NewSession(self, remote, i))
         /\ NewSession(self, remote, i).self = self
<1>1. /\ 0 \in Word /\ 1 \in Word /\ INITIAL_SSTHRESH \in Word /\ <<>> \in Seq(Byte)
      /\ Len(<<>>) = 0 /\ BufferCapacity \in Nat
  BY SessionAssumption, WordArith DEF Word
<1>2. NothingSent \in [Addr -> Seq(myu_tcp_packet)]
  <2> DEFINE S == Seq(myu_tcp_packet)
  <2>1. <<>> \in S
    OBVIOUS
  <2> HIDE DEF S
  <2> QED
    BY <2>1 DEF NothingSent
<1>3. "CLOSED" \in TcpState
  BY DEF TcpState
<1>4. ASSUME NEW o \in [Addr -> Seq(myu_tcp_packet)], NEW h \in Word
      PROVE  [self |-> self, remote |-> remote, alive |-> TRUE, state |-> "CLOSED",
   send_unack |-> 0, send_next |-> 0,
   send_window_size |-> 1, ssthresh |-> h,
   last_ack_received |-> i, dup_ack_count |-> 0,
   recv_next |-> 0,
   send_buffer |-> <<>>, recv_buffer |-> <<>>,
   ooo_map |-> {}, inflight_packets |-> {},
   timers |-> {}, msl_timer |-> FALSE,
   user_want_to_close |-> FALSE, peer_usable_window_size |-> 0,
   is_in_ready_queue |-> FALSE, out |-> o] \in Session
  BY <1>1, <1>3 DEF Session
<1>5. NewSession(self, remote, i) \in Session
  BY <1>1, <1>2, <1>4 DEF NewSession
<1> QED
  BY <1>1, <1>5 DEF SessionInv, WellFormed, DupInv, Quiet, Opening, NewSession,
                    DupCounts, FreshCounts

\* An erased session satisfies the invariant.
LEMMA OnClosedInv ==
  ASSUME NEW s, WellFormed(s)
  PROVE  SessionInv(on_closed_cb(s)) /\ on_closed_cb(s).self = s.self
<1> DEFINE n == NewSession(s.self, s.remote, 0)
<1>1. /\ s.self \in Addr /\ s.remote \in Addr /\ 0 \in Word
      /\ s.out \in [Addr -> Seq(myu_tcp_packet)]
  BY WordArith DEF WellFormed, Session
<1>2. SessionInv(n) /\ n.self = s.self
  BY <1>1, NewSessionInv
<1>3. ASSUME NEW o \in [Addr -> Seq(myu_tcp_packet)]
      PROVE  LET r == [n EXCEPT !.alive = FALSE, !.out = o]
             IN  SessionInv(r) /\ r.self = s.self
  <2> HIDE DEF n
  <2> QED
    BY <1>2 DEF SessionInv, WellFormed, Session, DupInv, Quiet
<1> QED
  BY <1>1, <1>3 DEF on_closed_cb

\* The fields that handlers assign directly.
LEMMA FieldType ==
  ASSUME NEW s, WellFormed(s)
  PROVE  /\ \A v \in Word : LET r == [s EXCEPT !.recv_next = v]
                            IN  WellFormed(r) /\ Same(r, s) /\ r.recv_next = v
         /\ \A v \in TcpState :
              LET r == [s EXCEPT !.state = v]
              IN  /\ WellFormed(r) /\ r.state = v /\ r.self = s.self
                  /\ r.dup_ack_count = s.dup_ack_count /\ r.ooo_map = s.ooo_map
                  /\ r.timers = s.timers /\ r.msl_timer = s.msl_timer
         /\ \A v \in BOOLEAN : LET r == [s EXCEPT !.user_want_to_close = v]
                               IN  /\ WellFormed(r) /\ Same(r, s)
                                   /\ r.timers = s.timers /\ r.msl_timer = s.msl_timer
         /\ \A v \in BOOLEAN : LET r == [s EXCEPT !.is_in_ready_queue = v]
                               IN  /\ WellFormed(r) /\ Same(r, s)
                                   /\ r.timers = s.timers /\ r.msl_timer = s.msl_timer
         /\ \A v \in BOOLEAN : LET r == [s EXCEPT !.msl_timer = v]
                               IN  WellFormed(r) /\ Same(r, s)
         /\ \A v \in Nat : LET r == [s EXCEPT !.peer_usable_window_size = v]
                           IN  /\ WellFormed(r) /\ Same(r, s)
                               /\ r.timers = s.timers /\ r.msl_timer = s.msl_timer
<1>1. ASSUME NEW v \in Word
      PROVE  LET r == [s EXCEPT !.recv_next = v]
             IN  /\ WellFormed(r)
                 /\ Same(r, s)
                 /\ r.recv_next = v
  BY DEF WellFormed, Session, Same
<1>2. ASSUME NEW v \in TcpState
      PROVE  LET r == [s EXCEPT !.state = v]
             IN  /\ WellFormed(r)
                 /\ r.state = v
                 /\ r.self = s.self
                 /\ r.dup_ack_count = s.dup_ack_count
                 /\ r.ooo_map = s.ooo_map
                 /\ r.timers = s.timers
                 /\ r.msl_timer = s.msl_timer
  BY DEF WellFormed, Session, Same
<1>3. ASSUME NEW v \in BOOLEAN
      PROVE  LET r == [s EXCEPT !.user_want_to_close = v]
             IN  /\ WellFormed(r)
                 /\ Same(r, s)
                 /\ r.timers = s.timers
                 /\ r.msl_timer = s.msl_timer
  BY DEF WellFormed, Session, Same
<1>4. ASSUME NEW v \in BOOLEAN
      PROVE  LET r == [s EXCEPT !.is_in_ready_queue = v]
             IN  /\ WellFormed(r)
                 /\ Same(r, s)
                 /\ r.timers = s.timers
                 /\ r.msl_timer = s.msl_timer
  BY DEF WellFormed, Session, Same
<1>5. ASSUME NEW v \in BOOLEAN
      PROVE  LET r == [s EXCEPT !.msl_timer = v]
             IN  /\ WellFormed(r)
                 /\ Same(r, s)
  BY DEF WellFormed, Session, Same
<1>6. ASSUME NEW v \in Nat
      PROVE  LET r == [s EXCEPT !.peer_usable_window_size = v]
             IN  /\ WellFormed(r)
                 /\ Same(r, s)
                 /\ r.timers = s.timers
                 /\ r.msl_timer = s.msl_timer
  BY DEF WellFormed, Session, Same
<1> QED
  BY <1>1, <1>2, <1>3, <1>4, <1>5, <1>6

\* The operators that keep the fields in Keeps keep those in Same.
LEMMA KeepsSame == ASSUME NEW r, NEW s, Keeps(r, s) PROVE Same(r, s)
BY DEF Keeps, Same

\* An acceptable acknowledgement releases data; the buffer does not grow.
LEMMA ReleaseType ==
  ASSUME NEW s, WellFormed(s), NEW ack \in Word
  PROVE  LET r == ReleaseAcked(s, ack)
         IN  /\ WellFormed(r) /\ r.self = s.self /\ r.state = s.state
             /\ r.send_unack = ack /\ r.dup_ack_count = s.dup_ack_count
             /\ r.last_ack_received = s.last_ack_received /\ r.ooo_map = s.ooo_map
<1> DEFINE d == drop_timer_up_to(s, Minus(ack, 1))
           n == Minus(ack, s.send_unack)
           buffer == pop_front(d.send_buffer, n)
           inflight == {p \in d.inflight_packets : p.key >= ack}
           I == [key : Nat, flags : SUBSET TcpFlag, payload : Seq(Byte)]
<1>1. WellFormed(d) /\ Keeps(d, s)
  BY TimerType
<1> HIDE DEF d
<1>2. n \in Nat
  <2>1. ack \in Int /\ s.send_unack \in Int
    BY Numbers DEF Word
  <2>2. n \in Word
    BY <2>1, WordArith
  <2> QED
    BY <2>2, WordArith DEF Word
<1>3. buffer \in Seq(Byte) /\ Len(buffer) <= BufferCapacity
  <2>1. d.send_buffer \in Seq(Byte) /\ Len(d.send_buffer) <= BufferCapacity
    BY <1>1 DEF WellFormed, Session
  <2>2. buffer \in Seq(Byte) /\ Len(buffer) <= Len(d.send_buffer)
    <3> HIDE DEF n
    <3> QED
      BY <1>2, <2>1, QueueType
  <2> HIDE DEF buffer
  <2> QED
    BY <2>1, <2>2, SessionAssumption
<1>4. inflight \in SUBSET I
  BY <1>1 DEF WellFormed, Session
<1>5. ASSUME NEW b \in Seq(Byte), Len(b) <= BufferCapacity, NEW i \in SUBSET I
      PROVE  LET r == [d EXCEPT !.send_buffer = b, !.send_unack = ack,
                                !.inflight_packets = i]
             IN  /\ WellFormed(r) /\ r.self = s.self /\ r.state = s.state
                 /\ r.send_unack = ack /\ r.dup_ack_count = s.dup_ack_count
                 /\ r.last_ack_received = s.last_ack_received /\ r.ooo_map = s.ooo_map
  BY <1>1, <1>5 DEF WellFormed, Session, Keeps
<1>6. ReleaseAcked(s, ack) = [d EXCEPT !.send_buffer = buffer, !.send_unack = ack,
                                       !.inflight_packets = inflight]
  BY DEF ReleaseAcked, d
<1> HIDE DEF buffer, inflight, I
<1>7. LET r == [d EXCEPT !.send_buffer = buffer, !.send_unack = ack,
                         !.inflight_packets = inflight]
      IN  /\ WellFormed(r) /\ r.self = s.self /\ r.state = s.state
          /\ r.send_unack = ack /\ r.dup_ack_count = s.dup_ack_count
          /\ r.last_ack_received = s.last_ack_received /\ r.ooo_map = s.ooo_map
  BY <1>3, <1>4, <1>5
<1> QED
  BY <1>6, <1>7

\* CountAck only counts.
LEMMA CountAckType ==
  ASSUME NEW s, WellFormed(s), NEW ack \in Word
  PROVE  LET r == CountAck(s, ack)
         IN  /\ WellFormed(r) /\ r.self = s.self /\ r.state = s.state
             /\ r.send_unack = s.send_unack /\ r.ooo_map = s.ooo_map
             /\ r.last_ack_received = IF s.last_ack_received < ack THEN ack
                                      ELSE s.last_ack_received
             /\ r.dup_ack_count = IF s.last_ack_received < ack THEN 0
                                  ELSE IF s.last_ack_received = ack
                                    THEN s.dup_ack_count + 1
                                  ELSE s.dup_ack_count
<1> DEFINE last == IF s.last_ack_received < ack THEN ack ELSE s.last_ack_received
           dup == IF s.last_ack_received < ack THEN 0
                  ELSE IF s.last_ack_received = ack THEN s.dup_ack_count + 1
                  ELSE s.dup_ack_count
           b == [s EXCEPT !.last_ack_received = last, !.dup_ack_count = dup]
<1>1. s.last_ack_received \in Word /\ s.dup_ack_count \in Nat
  BY DEF WellFormed, Session
<1>2. last \in Word /\ dup \in Nat
  BY <1>1
<1>3. ASSUME NEW l \in Word, NEW k \in Nat
      PROVE  LET r == [s EXCEPT !.last_ack_received = l, !.dup_ack_count = k]
             IN  /\ WellFormed(r) /\ r.self = s.self /\ r.state = s.state
                 /\ r.send_unack = s.send_unack /\ r.ooo_map = s.ooo_map
                 /\ r.last_ack_received = l /\ r.dup_ack_count = k
  BY DEF WellFormed, Session
<1>4. CountAck(s, ack) = b
  BY DEF CountAck
<1>5. /\ WellFormed(b) /\ b.self = s.self /\ b.state = s.state
      /\ b.send_unack = s.send_unack /\ b.ooo_map = s.ooo_map
      /\ b.last_ack_received = last /\ b.dup_ack_count = dup
  <2> HIDE DEF last, dup
  <2> QED
    BY <1>2, <1>3
<1> HIDE DEF b
<1> QED
  BY <1>4, <1>5

\* The fast retransmission sends at most one packet and changes the window.
LEMMA FastRetransmitType ==
  ASSUME NEW s, WellFormed(s), NEW ack \in Word
  PROVE  LET r == FastRetransmit(s, ack)
         IN  /\ WellFormed(r) /\ r.self = s.self /\ r.state = s.state
             /\ r.ooo_map = s.ooo_map
<1> DEFINE stopped == stop_timer(s, ack)
           found == {p \in s.inflight_packets : p.key = ack}
           q == CHOOSE p \in found : TRUE
           again == send_payload_packet(stopped, q.payload, q.flags)
           three == on_recv_three_dup_ack(s, ack)
           half == s.send_window_size \div 2
           wide == Plus(half, 3)
           r == [three EXCEPT !.ssthresh = half, !.send_window_size = wide,
                              !.dup_ack_count = 0]
<1>1. WellFormed(stopped) /\ Keeps(stopped, s)
  BY TimerType
<1>2. found # {} => q \in found
  OBVIOUS
<1>3. found # {} => q.payload \in Seq(Byte) /\ q.flags \in SUBSET TcpFlag
  BY <1>2 DEF WellFormed, Session
<1>4. three = IF found = {} THEN stopped ELSE again
  BY DEF on_recv_three_dup_ack
<1>5. FastRetransmit(s, ack) = IF s.dup_ack_count # 3 THEN s ELSE r
  BY DEF FastRetransmit
<1> HIDE DEF stopped, found, q
<1>6. found # {} => WellFormed(again) /\ Keeps(again, stopped)
  BY <1>1, <1>3, PayloadType
<1> HIDE DEF again, three
<1>7. WellFormed(three) /\ Keeps(three, s)
  BY <1>1, <1>4, <1>6 DEF Keeps
<1>8. half \in Word /\ wide \in Word
  <2>1. half \in Word
    BY Numbers, HalfWord
  <2>2. half \in Int
    BY <2>1, WordArith DEF Word
  <2> HIDE DEF half
  <2> QED
    BY <2>1, <2>2, WordArith
<1>9. ASSUME NEW h \in Word, NEW w \in Word
      PROVE  LET t == [three EXCEPT !.ssthresh = h, !.send_window_size = w,
                                    !.dup_ack_count = 0]
             IN  /\ WellFormed(t) /\ t.self = s.self /\ t.state = s.state
                 /\ t.ooo_map = s.ooo_map
  BY <1>7 DEF WellFormed, Session, Keeps
<1>10. WellFormed(r) /\ r.self = s.self /\ r.state = s.state /\ r.ooo_map = s.ooo_map
  <2> HIDE DEF half, wide
  <2> QED
    BY <1>8, <1>9
<1> HIDE DEF r
<1> QED
  BY <1>5, <1>10

\* GrowWindow changes the window.
LEMMA GrowWindowType ==
  ASSUME NEW s, WellFormed(s)
  PROVE  WellFormed(GrowWindow(s)) /\ Same(GrowWindow(s), s)
<1> DEFINE grown == IF s.send_window_size < s.ssthresh
                      THEN Plus(s.send_window_size, s.send_window_size)
                      ELSE Plus(s.send_window_size, 1)
<1>1. grown \in Word
  BY WordArith, Numbers
<1>2. ASSUME NEW w \in Word
      PROVE  LET r == [s EXCEPT !.send_window_size = w]
             IN  WellFormed(r) /\ Same(r, s)
  BY DEF WellFormed, Session, Same
<1>3. GrowWindow(s) = [s EXCEPT !.send_window_size = grown]
  BY DEF GrowWindow
<1> HIDE DEF grown
<1> QED
  BY <1>1, <1>2, <1>3

\* The heart of the argument, for an application that connects closed sessions only:
\* after _handle_ack has counted an acceptable acknowledgement the counter is 0 or 1,
\* and 1 only if the acknowledgement repeats last_ack_received_, which then equals
\* send_unack_.  The counter never is 3, the fast retransmission is skipped, and the
\* invariant holds.  For any other application the fast retransmission may run.
LEMMA AckInv ==
  ASSUME NEW s, SessionInv(s), s.state = "ESTABLISHED", NEW packet \in myu_tcp_packet
  PROVE  LET r == handle_ack(s, packet)
         IN  SessionInv(r) /\ r.state = s.state /\ r.self = s.self
<1> DEFINE ack == packet.ack
           a == ReleaseAcked(s, ack)
           b == CountAck(a, ack)
           f == FastRetransmit(b, ack)
           g == GrowWindow(f)
<1>1. CASE ~AckAcceptable(s, ack)
  BY <1>1 DEF handle_ack
<1>2. CASE AckAcceptable(s, ack)
  <2>1. ack \in Word /\ ack \in Nat /\ WellFormed(s) /\ s.ooo_map = {}
    BY WordArith DEF myu_tcp_packet, Word, SessionInv
  <2>2. handle_ack(s, packet) = handle_try_send(g)
    BY <1>2 DEF handle_ack
  <2> HIDE DEF ack
  <2>3. /\ WellFormed(a) /\ a.self = s.self /\ a.state = s.state
        /\ a.send_unack = ack /\ a.dup_ack_count = s.dup_ack_count
        /\ a.last_ack_received = s.last_ack_received /\ a.ooo_map = s.ooo_map
    BY <2>1, ReleaseType
  <2> HIDE DEF a
  <2>4. a.last_ack_received \in Word /\ a.last_ack_received \in Nat
    BY <2>3, Numbers
  <2>5. /\ WellFormed(b) /\ b.self = a.self /\ b.state = a.state
        /\ b.send_unack = a.send_unack /\ b.ooo_map = a.ooo_map
        /\ b.last_ack_received = IF a.last_ack_received < ack THEN ack
                                 ELSE a.last_ack_received
        /\ b.dup_ack_count = IF a.last_ack_received < ack THEN 0
                             ELSE IF a.last_ack_received = ack
                               THEN a.dup_ack_count + 1
                             ELSE a.dup_ack_count
    BY <2>1, <2>3, CountAckType
  <2> HIDE DEF b
  <2>6. SessionInv(f) /\ f.self = s.self /\ f.state = s.state
    <3>1. CASE ConnectsClosed
      <4>1. b.dup_ack_count \in {0, 1} /\ (b.dup_ack_count = 1 => b.last_ack_received <= ack)
        <5>1. ack > s.send_unack /\ s.send_unack \in Nat
          BY <1>2, <2>1, Numbers DEF AckAcceptable
        <5>2. a.dup_ack_count = 0
              \/ (a.dup_ack_count = 1 /\ a.last_ack_received <= s.send_unack)
          BY <2>3, <3>1 DEF SessionInv, DupInv, DupCounts
        <5> QED
          BY <2>1, <2>4, <2>5, <5>1, <5>2
      <4>2. f = b
        BY <4>1 DEF FastRetransmit
      <4> QED
        BY <2>1, <2>3, <2>5, <3>1, <4>1, <4>2
        DEF SessionInv, DupInv, Quiet, Opening, DupCounts, FreshCounts
    <3>2. CASE ~ConnectsClosed
      <4>1. WellFormed(f) /\ f.self = b.self /\ f.state = b.state /\ f.ooo_map = b.ooo_map
        BY <2>1, <2>5, FastRetransmitType
      <4> HIDE DEF f
      <4>2. f.dup_ack_count \in Nat
        BY <4>1 DEF WellFormed, Session
      <4> QED
        BY <2>1, <2>3, <2>5, <3>2, <4>1, <4>2
        DEF SessionInv, DupInv, Quiet, DupCounts, FreshCounts
    <3> QED
      BY <3>1, <3>2
  <2> HIDE DEF f
  <2>7. WellFormed(g) /\ Same(g, f)
    BY <2>6, GrowWindowType DEF SessionInv
  <2> HIDE DEF g
  <2>8. SessionInv(g) /\ g.state = s.state /\ g.self = s.self
    BY <2>6, <2>7, SameInv DEF Same
  <2>9. WellFormed(handle_try_send(g)) /\ Same(handle_try_send(g), g)
    BY <2>7, TrySendType, KeepsSame
  <2> QED
    BY <2>2, <2>8, <2>9, SameInv DEF Same
<1> QED
  BY <1>1, <1>2

\* Data that fits is appended; nothing else the invariant reads changes.
LEMMA DeliverableType ==
  ASSUME NEW s, WellFormed(s), NEW payload \in Seq(Byte), HasRoom(s.recv_buffer, payload)
  PROVE  LET r == Deliverable(s, payload) IN WellFormed(r) /\ Same(r, s)
<1> DEFINE q == s.recv_buffer \o payload
           n == Plus(s.recv_next, Len(payload))
<1>1. s.recv_buffer \in Seq(Byte) /\ Len(s.recv_buffer) \in Nat /\ Len(payload) \in Nat
  BY DEF WellFormed, Session
<1>2. q \in Seq(Byte) /\ Len(q) = Len(s.recv_buffer) + Len(payload)
  BY <1>1, ConcatProperties
<1>3. Len(q) <= BufferCapacity
  BY <1>1, <1>2, SessionAssumption DEF HasRoom
<1>4. n \in Word
  BY <1>1, WordArith, Numbers
<1>5. ASSUME NEW b \in Seq(Byte), Len(b) <= BufferCapacity, NEW v \in Word
      PROVE  LET r == [s EXCEPT !.recv_buffer = b, !.recv_next = v]
             IN  WellFormed(r) /\ Same(r, s)
  BY <1>5 DEF WellFormed, Session, Same
<1>6. Deliverable(s, payload) = [s EXCEPT !.recv_buffer = q, !.recv_next = n]
  BY DEF Deliverable, push_batch
<1> HIDE DEF q, n
<1>7. LET r == [s EXCEPT !.recv_buffer = q, !.recv_next = n]
      IN  WellFormed(r) /\ Same(r, s)
  BY <1>2, <1>3, <1>4, <1>5
<1> QED
  BY <1>6, <1>7

\* With a receive window of one byte no packet is ever kept out of order: there
\* is no word strictly between recv_next_ and recv_next_ + 1.
LEMMA NothingInWindow ==
  ASSUME NEW s, WellFormed(s), NEW packet \in myu_tcp_packet
  PROVE  ~InWindow(s, packet)
<1>1. /\ packet.seq \in Int /\ packet.seq >= 0
      /\ s.recv_next \in Int /\ s.recv_next >= 0 /\ s.recv_next < SeqMod
      /\ SeqMod \in Nat \ {0}
  <2>1. packet.seq \in Word /\ s.recv_next \in Word
    BY Numbers DEF myu_tcp_packet
  <2>2. SeqMod \in Nat \ {0}
    BY WordArith
  <2>3. \A w \in Word : w \in Int /\ w >= 0 /\ w < SeqMod
    BY <2>2 DEF Word
  <2> QED
    BY <2>1, <2>2, <2>3
<1>2. CASE s.recv_next + 1 < SeqMod
  <2>1. Plus(s.recv_next, 1) = s.recv_next + 1
    BY <1>1, <1>2 DEF Plus
  <2> QED
    BY <1>1, <2>1 DEF InWindow, recv_window_size
<1>3. CASE s.recv_next + 1 = SeqMod
  <2>1. Plus(s.recv_next, 1) = 0
    BY <1>1, <1>3 DEF Plus
  <2> QED
    BY <1>1, <2>1 DEF InWindow, recv_window_size
<1> QED
  BY <1>1, <1>2, <1>3

\* _handle_incoming_packet keeps everything the invariant reads.
LEMMA IncomingType ==
  ASSUME NEW s, WellFormed(s), s.ooo_map = {}, NEW packet \in myu_tcp_packet
  PROVE  LET r == handle_incoming_packet(s, packet) IN WellFormed(r) /\ Same(r, s)
<1> DEFINE d == Deliverable(s, packet.payload)
           fit == IF HasRoom(s.recv_buffer, packet.payload) THEN d ELSE s
           taken == IF InOrder(s, packet) THEN TakeInOrder(s, packet)
                                          ELSE TakeOutOfOrder(s, packet)
<1>1. packet.payload \in Seq(Byte)
  BY DEF myu_tcp_packet
<1>2. HasRoom(s.recv_buffer, packet.payload) => WellFormed(d) /\ Same(d, s)
  BY <1>1, DeliverableType
<1>3. WellFormed(fit) /\ Same(fit, s)
  <2> HIDE DEF d
  <2> QED
    BY <1>2 DEF Same
<1>4. TakeInOrder(s, packet) = DrainOooMap(fit)
  BY DEF TakeInOrder
<1> HIDE DEF fit
<1>5. fit.ooo_map = {}
  BY <1>3 DEF Same
<1>6. DrainOooMap(fit) = fit
  BY <1>5 DEF DrainOooMap
<1>7. TakeOutOfOrder(s, packet) = s
  BY NothingInWindow DEF TakeOutOfOrder
<1>8. WellFormed(taken) /\ Same(taken, s)
  BY <1>3, <1>4, <1>6, <1>7 DEF Same
<1>9. handle_incoming_packet(s, packet) = send_pure_ack(taken, taken.recv_next)
  BY DEF handle_incoming_packet
<1> HIDE DEF taken
<1>10. taken.recv_next \in Word
  BY <1>8, Numbers
<1>11. LET r == send_pure_ack(taken, taken.recv_next) IN WellFormed(r) /\ Same(r, taken)
  BY <1>8, <1>10, PureAckType, KeepsSame
<1> QED
  BY <1>8, <1>9, <1>11 DEF Same

\* A FIN changes recv_next_ and the state.
LEMMA FinType ==
  ASSUME NEW s, WellFormed(s), NEW packet \in myu_tcp_packet, NEW newState \in TcpState
  PROVE  LET r == AcceptFin(s, packet, newState)
         IN  /\ WellFormed(r) /\ r.self = s.self /\ r.state = newState
             /\ r.dup_ack_count = s.dup_ack_count /\ r.ooo_map = s.ooo_map
<1> DEFINE n == Plus(packet.seq, 1)
           acked == [s EXCEPT !.recv_next = n]
           sent == send_pure_ack(acked, acked.recv_next)
<1>1. n \in Word
  BY WordArith DEF myu_tcp_packet, Word
<1> HIDE DEF n
<1>2. WellFormed(acked) /\ Same(acked, s) /\ acked.recv_next \in Word
  BY <1>1, FieldType
<1>3. AcceptFin(s, packet, newState) = [sent EXCEPT !.state = newState]
  BY DEF AcceptFin, n
<1> HIDE DEF acked
<1>4. WellFormed(sent) /\ Same(sent, acked)
  BY <1>2, PureAckType, KeepsSame
<1> HIDE DEF sent
<1>5. LET r == [sent EXCEPT !.state = newState]
      IN  /\ WellFormed(r) /\ r.self = sent.self /\ r.state = newState
          /\ r.dup_ack_count = sent.dup_ack_count /\ r.ooo_map = sent.ooo_map
  BY <1>4, FieldType
<1> QED
  BY <1>2, <1>3, <1>4, <1>5 DEF Same

\* The acknowledgement of a SYN or FIN changes send_unack_, timers and the state.
LEMMA ControlAckType ==
  ASSUME NEW s, WellFormed(s), NEW ack \in Word, NEW newState \in TcpState
  PROVE  LET r == TakeControlAck(s, ack, newState)
         IN  /\ WellFormed(r) /\ r.self = s.self /\ r.state = newState
             /\ r.dup_ack_count = s.dup_ack_count /\ r.ooo_map = s.ooo_map
<1> DEFINE d == stop_timer(s, Minus(ack, 1))
<1>1. WellFormed(d) /\ Keeps(d, s)
  BY TimerType
<1>2. TakeControlAck(s, ack, newState) = [d EXCEPT !.send_unack = ack, !.state = newState]
  BY DEF TakeControlAck
<1> HIDE DEF d
<1> QED
  BY <1>1, <1>2 DEF WellFormed, Session, Keeps

-----------------------------------------------------------------------------
(* Every handler preserves the invariant and the session's own address.    *)

\* handle_listen: the answer to a SYN starts the handshake.
LEMMA ListenInv ==
  ASSUME NEW s, SessionInv(s), s.state = "LISTEN", NEW packet \in myu_tcp_packet,
         NEW iss \in Word
  PROVE  LET r == handle_listen(s, packet, iss) IN SessionInv(r) /\ r.self = s.self
<1> DEFINE n == Plus(packet.seq, 1)
           b == [s EXCEPT !.send_next = iss, !.send_unack = iss,
                          !.recv_next = n, !.state = "SYN_RECEIVED"]
           r == send_control_packet(b, {"SYN", "ACK"})
<1>1. n \in Word
  BY WordArith DEF myu_tcp_packet, Word
<1>2. s.dup_ack_count \in FreshCounts /\ s.ooo_map = {} /\ WellFormed(s)
  BY DEF SessionInv, DupInv, Opening
<1> HIDE DEF n
<1>3. /\ WellFormed(b) /\ b.self = s.self /\ b.state = "SYN_RECEIVED"
      /\ b.dup_ack_count \in FreshCounts /\ b.ooo_map = {}
  BY <1>1, <1>2 DEF WellFormed, Session, TcpState
<1>4. handle_listen(s, packet, iss) = IF ~Has(packet, "SYN") THEN s ELSE r
  BY DEF handle_listen, n
<1> HIDE DEF b
<1>5. b.remote \in Addr /\ {"SYN", "ACK"} \in SUBSET TcpFlag
  BY <1>3 DEF WellFormed, Session, TcpFlag
<1>6. WellFormed(r) /\ Keeps(r, b)
  BY <1>3, <1>5, ControlType
<1> HIDE DEF r
<1>7. SessionInv(r) /\ r.self = s.self
  BY <1>3, <1>6, OpenedInv DEF Keeps
<1> QED
  BY <1>4, <1>7

\* The states in which _handle_try_send may send keep the invariant.
LEMMA TrySendInv ==
  ASSUME NEW s, SessionInv(s)
  PROVE  LET r == handle_try_send(s)
         IN  SessionInv(r) /\ r.self = s.self /\ r.state = s.state
<1>1. WellFormed(s)
  BY DEF SessionInv
<1>2. CASE s.state \in {"CLOSED", "LISTEN"}
  BY <1>1, <1>2, TrySendType
<1>3. CASE s.state \notin {"CLOSED", "LISTEN"}
  <2>1. WellFormed(handle_try_send(s)) /\ Same(handle_try_send(s), s)
    BY <1>1, TrySendType, KeepsSame
  <2> QED
    BY <1>3, <2>1, SameInv DEF Same
<1> QED
  BY <1>2, <1>3

\* handle_syn_sent: both ways out of SYN_SENT leave the counter as it is.
LEMMA SynSentInv ==
  ASSUME NEW s, SessionInv(s), s.state = "SYN_SENT", NEW packet \in myu_tcp_packet
  PROVE  LET r == handle_syn_sent(s, packet) IN SessionInv(r) /\ r.self = s.self
<1> DEFINE n == Plus(packet.seq, 1)
           synced == [s EXCEPT !.recv_next = n]
           sent == send_pure_ack(synced, synced.recv_next)
           established == TakeControlAck(sent, packet.ack, "ESTABLISHED")
           received == [synced EXCEPT !.state = "SYN_RECEIVED"]
           answered == send_control_packet(received, {"SYN", "ACK"})
           done == Has(packet, "SYN") /\ Has(packet, "ACK") /\ packet.ack = ExpectedAck(s)
           crossed == Has(packet, "SYN") /\ ~Has(packet, "ACK")
<1>1. n \in Word /\ packet.ack \in Word
  BY WordArith DEF myu_tcp_packet, Word
<1>2. s.dup_ack_count \in FreshCounts /\ s.ooo_map = {} /\ WellFormed(s)
  BY DEF SessionInv, DupInv, Opening
<1>0. {"ESTABLISHED", "SYN_RECEIVED"} \subseteq TcpState
  BY DEF TcpState
<1>3. handle_syn_sent(s, packet)
        = CASE done -> handle_try_send(established)
            [] crossed -> answered
            [] OTHER -> s
  BY DEF handle_syn_sent
<1> HIDE DEF n
<1>4. WellFormed(synced) /\ Same(synced, s) /\ synced.recv_next \in Word
  BY <1>1, <1>2, FieldType
<1> HIDE DEF synced
<1>5. WellFormed(sent) /\ Same(sent, synced)
  BY <1>4, PureAckType, KeepsSame
<1> HIDE DEF sent
<1>6. /\ WellFormed(established) /\ established.self = s.self
      /\ established.state = "ESTABLISHED"
      /\ established.dup_ack_count \in FreshCounts /\ established.ooo_map = {}
  <2>1. /\ WellFormed(established) /\ established.self = sent.self
        /\ established.state = "ESTABLISHED"
        /\ established.dup_ack_count = sent.dup_ack_count
        /\ established.ooo_map = sent.ooo_map
    BY <1>0, <1>1, <1>5, ControlAckType
  <2> QED
    BY <1>2, <1>4, <1>5, <2>1 DEF Same
<1> HIDE DEF established
<1>7. SessionInv(handle_try_send(established)) /\ handle_try_send(established).self = s.self
  BY <1>6, OpenedInv, TrySendInv
<1>8. /\ WellFormed(received) /\ received.self = s.self
      /\ received.state = "SYN_RECEIVED"
      /\ received.dup_ack_count \in FreshCounts /\ received.ooo_map = {}
  BY <1>0, <1>2, <1>4, FieldType DEF Same
<1> HIDE DEF received
<1>9. SessionInv(answered) /\ answered.self = s.self
  <2>1. received.remote \in Addr /\ {"SYN", "ACK"} \in SUBSET TcpFlag
    BY <1>8 DEF WellFormed, Session, TcpFlag
  <2>2. WellFormed(answered) /\ Keeps(answered, received)
    BY <1>8, <2>1, ControlType
  <2> HIDE DEF answered
  <2> QED
    BY <1>8, <2>2, OpenedInv DEF Keeps
<1> HIDE DEF answered, done, crossed
<1> QED
  BY <1>3, <1>7, <1>9

\* handle_syn_received: the handshake leaves the counter as it is.
LEMMA SynReceivedInv ==
  ASSUME NEW s, SessionInv(s), s.state = "SYN_RECEIVED", NEW packet \in myu_tcp_packet
  PROVE  LET r == handle_syn_received(s, packet) IN SessionInv(r) /\ r.self = s.self
<1> DEFINE established == TakeControlAck(s, packet.ack, "ESTABLISHED")
<1>1. packet.ack \in Word /\ "ESTABLISHED" \in TcpState
  BY DEF myu_tcp_packet, TcpState
<1>2. s.dup_ack_count \in FreshCounts /\ s.ooo_map = {} /\ WellFormed(s)
  BY DEF SessionInv, DupInv, Opening
<1>3. /\ WellFormed(established) /\ established.self = s.self
      /\ established.state = "ESTABLISHED"
      /\ established.dup_ack_count \in FreshCounts /\ established.ooo_map = {}
  BY <1>1, <1>2, ControlAckType
<1>4. handle_syn_received(s, packet) = s
      \/ handle_syn_received(s, packet) = handle_try_send(established)
  BY DEF handle_syn_received
<1> HIDE DEF established
<1>5. SessionInv(handle_try_send(established)) /\ handle_try_send(established).self = s.self
  BY <1>3, OpenedInv, TrySendInv
<1> QED
  BY <1>4, <1>5

\* handle_established: acknowledgement, data and FIN, in this order.
LEMMA EstablishedInv ==
  ASSUME NEW s, SessionInv(s), s.state = "ESTABLISHED", NEW packet \in myu_tcp_packet
  PROVE  LET r == handle_established(s, packet) IN SessionInv(r) /\ r.self = s.self
<1> DEFINE h == handle_ack(s, packet)
           acked == IF Has(packet, "ACK") THEN handle_try_send(h) ELSE s
           taken == handle_incoming_packet(acked, packet)
           read == CASE packet.payload = <<>> -> acked
                     [] packet.payload # <<>> /\ InOrder(acked, packet) -> on_data_cb(taken)
                     [] OTHER -> taken
           fin == AcceptFin(read, packet, "CLOSE_WAIT")
<1>1. SessionInv(acked) /\ acked.self = s.self /\ acked.state = "ESTABLISHED"
  <2>1. SessionInv(h) /\ h.self = s.self /\ h.state = s.state
    BY AckInv
  <2> HIDE DEF h
  <2> QED
    BY <2>1, TrySendInv
<1>2. handle_established(s, packet)
        = IF Has(packet, "FIN") THEN on_data_cb(fin) ELSE read
  BY DEF handle_established
<1> HIDE DEF acked
<1>3. SessionInv(taken) /\ Same(taken, acked)
  <2>1. WellFormed(taken) /\ Same(taken, acked)
    BY <1>1, IncomingType DEF SessionInv
  <2> QED
    BY <1>1, <2>1, SameInv
<1> HIDE DEF taken
<1>4. ASSUME NEW r, SessionInv(r), r.state \notin {"CLOSED", "LISTEN"}
      PROVE  SessionInv(on_data_cb(r)) /\ Same(on_data_cb(r), r)
  <2>1. WellFormed(on_data_cb(r)) /\ Same(on_data_cb(r), r)
    BY <1>4, FieldType DEF on_data_cb, SessionInv
  <2> QED
    BY <1>4, <2>1, SameInv
<1>5. SessionInv(read) /\ read.self = s.self
  <2>1. /\ SessionInv(on_data_cb(taken)) /\ on_data_cb(taken).self = s.self
        /\ SessionInv(taken) /\ taken.self = s.self
    BY <1>1, <1>3, <1>4 DEF Same
  <2>2. read \in {acked, taken, on_data_cb(taken)}
    OBVIOUS
  <2> HIDE DEF read
  <2> QED
    BY <1>1, <2>1, <2>2
<1> HIDE DEF read
<1>6. SessionInv(fin) /\ fin.self = s.self /\ fin.state = "CLOSE_WAIT"
  <2>1. "CLOSE_WAIT" \in TcpState \cap Closing
    BY DEF TcpState, Closing
  <2>2. WellFormed(read) /\ read.ooo_map = {} /\ read.dup_ack_count \in DupCounts
    BY <1>5 DEF SessionInv, DupInv
  <2>3. /\ WellFormed(fin) /\ fin.self = read.self /\ fin.state = "CLOSE_WAIT"
        /\ fin.dup_ack_count = read.dup_ack_count /\ fin.ooo_map = read.ooo_map
    BY <2>1, <2>2, FinType
  <2> HIDE DEF fin
  <2> QED
    BY <1>5, <2>1, <2>2, <2>3, ClosingInv
<1> HIDE DEF fin
<1>7. SessionInv(on_data_cb(fin)) /\ on_data_cb(fin).self = s.self
  BY <1>4, <1>6 DEF Same
<1> QED
  BY <1>2, <1>5, <1>7

\* AcceptFin into a closing state, from any session with a legal counter.
LEMMA FinInv ==
  ASSUME NEW s, WellFormed(s), s.ooo_map = {}, s.dup_ack_count \in DupCounts,
         NEW packet \in myu_tcp_packet, NEW newState \in Closing
  PROVE  LET r == AcceptFin(s, packet, newState)
         IN  SessionInv(r) /\ r.self = s.self /\ r.state = newState
<1> DEFINE r == AcceptFin(s, packet, newState)
<1>1. newState \in TcpState
  BY DEF Closing, TcpState
<1>2. /\ WellFormed(r) /\ r.self = s.self /\ r.state = newState
      /\ r.dup_ack_count = s.dup_ack_count /\ r.ooo_map = s.ooo_map
  BY <1>1, FinType
<1> HIDE DEF r
<1>3. SessionInv(r)
  BY <1>2, ClosingInv
<1> QED
  BY <1>2, <1>3 DEF r

\* handle_fin_wait_1: the FIN's acknowledgement and the peer's FIN, in one packet or two.
LEMMA FinWait1Inv ==
  ASSUME NEW s, SessionInv(s), s.state = "FIN_WAIT_1", NEW packet \in myu_tcp_packet
  PROVE  LET r == handle_fin_wait_1(s, packet) IN SessionInv(r) /\ r.self = s.self
<1> DEFINE t == TakeControlAck(s, packet.ack, "FIN_WAIT_2")
           acked == IF Has(packet, "ACK") /\ packet.ack = ExpectedAck(s) THEN t ELSE s
           fin == AcceptFin(acked, packet, "CLOSE_WAIT")
<1>1. /\ packet.ack \in Word /\ "FIN_WAIT_2" \in TcpState
      /\ "CLOSE_WAIT" \in Closing /\ "FIN_WAIT_2" \in Closing
  BY DEF myu_tcp_packet, TcpState, Closing
<1>2. WellFormed(s) /\ s.ooo_map = {} /\ s.dup_ack_count \in DupCounts
  BY DEF SessionInv, DupInv
<1>3. /\ WellFormed(t) /\ t.self = s.self /\ t.state = "FIN_WAIT_2"
      /\ t.dup_ack_count = s.dup_ack_count /\ t.ooo_map = s.ooo_map
  BY <1>1, <1>2, ControlAckType
<1>4. handle_fin_wait_1(s, packet) = IF Has(packet, "FIN") THEN fin ELSE acked
  BY DEF handle_fin_wait_1
<1> HIDE DEF t
<1>5. SessionInv(t)
  BY <1>1, <1>2, <1>3, ClosingInv
<1>6. /\ SessionInv(acked) /\ acked.self = s.self /\ WellFormed(acked)
      /\ acked.ooo_map = {} /\ acked.dup_ack_count \in DupCounts
  BY <1>2, <1>3, <1>5
<1> HIDE DEF acked
<1>7. SessionInv(fin) /\ fin.self = s.self
  BY <1>1, <1>6, FinInv
<1> HIDE DEF fin
<1> QED
  BY <1>4, <1>6, <1>7

\* handle_fin_wait_2 and handle_timed_wait: the peer's FIN.
LEMMA TimeWaitInv ==
  ASSUME NEW s, SessionInv(s), s.state \notin {"CLOSED", "LISTEN"},
         NEW packet \in myu_tcp_packet
  PROVE  /\ LET r == handle_fin_wait_2(s, packet) IN SessionInv(r) /\ r.self = s.self
         /\ LET r == handle_timed_wait(s, packet) IN SessionInv(r) /\ r.self = s.self
<1> DEFINE fin == AcceptFin(s, packet, "TIME_WAIT")
           timed == [fin EXCEPT !.msl_timer = TRUE]
<1>1. "TIME_WAIT" \in Closing
  BY DEF Closing
<1>2. WellFormed(s) /\ s.ooo_map = {} /\ s.dup_ack_count \in DupCounts
  BY DEF SessionInv, DupInv
<1>3. SessionInv(fin) /\ fin.self = s.self /\ fin.state = "TIME_WAIT"
  BY <1>1, <1>2, FinInv
<1>4. /\ handle_fin_wait_2(s, packet) = IF Has(packet, "FIN") THEN timed ELSE s
      /\ handle_timed_wait(s, packet) = IF Has(packet, "FIN") THEN fin ELSE s
  BY DEF handle_fin_wait_2, handle_timed_wait
<1> HIDE DEF fin
<1>5. WellFormed(timed) /\ Same(timed, fin)
  BY <1>3, FieldType DEF SessionInv
<1> HIDE DEF timed
<1>6. SessionInv(timed) /\ timed.self = s.self
  BY <1>3, <1>5, SameInv DEF Same
<1> QED
  BY <1>3, <1>4, <1>6

\* A control packet in a closing state.
LEMMA ControlInv ==
  ASSUME NEW s, WellFormed(s), s.ooo_map = {}, s.dup_ack_count \in DupCounts,
         s.state \in Closing, NEW flags \in SUBSET TcpFlag
  PROVE  LET r == send_control_packet(s, flags)
         IN  SessionInv(r) /\ r.self = s.self /\ r.state = s.state
<1> DEFINE r == send_control_packet(s, flags)
<1>1. s.remote \in Addr
  BY DEF WellFormed, Session
<1>2. WellFormed(r) /\ Keeps(r, s)
  BY <1>1, ControlType
<1> HIDE DEF r
<1>3. SessionInv(r) /\ r.self = s.self /\ r.state = s.state
  BY <1>2, ClosingInv DEF Keeps
<1> QED
  BY <1>3 DEF r

\* handle_close_wait: the acknowledgement, and the late FIN of a simultaneous close.
LEMMA CloseWaitInv ==
  ASSUME NEW s, SessionInv(s), s.state = "CLOSE_WAIT", NEW packet \in myu_tcp_packet
  PROVE  LET r == handle_close_wait(s, packet) IN SessionInv(r) /\ r.self = s.self
<1> DEFINE sent == send_pure_ack(s, s.recv_next)
           tried == handle_try_send(sent)
           stopped == stop_all_timers(tried)
           fin == send_control_packet(stopped, {"FIN"})
           n == Plus(fin.send_next, 1)
           last == [fin EXCEPT !.send_next = n, !.state = "LAST_ACK"]
           over == /\ tried.user_want_to_close
                   /\ tried.send_buffer = <<>>
                   /\ tried.send_unack = tried.send_next
<1>1. WellFormed(s) /\ s.ooo_map = {} /\ s.dup_ack_count \in DupCounts
  BY DEF SessionInv, DupInv
<1>0. /\ {"FIN"} \in SUBSET TcpFlag /\ "CLOSE_WAIT" \in Closing
      /\ "LAST_ACK" \in Closing /\ "LAST_ACK" \in TcpState
  BY DEF TcpFlag, Closing, TcpState
<1>2. handle_close_wait(s, packet) = IF over THEN last ELSE tried
  BY DEF handle_close_wait
<1>3. WellFormed(sent) /\ Same(sent, s)
  BY <1>1, Numbers, PureAckType, KeepsSame
<1> HIDE DEF sent
<1>4. SessionInv(sent)
  BY <1>3, SameInv
<1>5. SessionInv(tried) /\ tried.self = s.self /\ tried.state = s.state
  BY <1>3, <1>4, TrySendInv DEF Same
<1> HIDE DEF tried
<1>6. /\ WellFormed(stopped) /\ stopped.self = s.self /\ stopped.state = "CLOSE_WAIT"
      /\ stopped.ooo_map = {} /\ stopped.dup_ack_count \in DupCounts
  BY <1>5, TimerType DEF SessionInv, DupInv, Keeps
<1> HIDE DEF stopped
<1>7. SessionInv(fin) /\ fin.self = s.self
  BY <1>0, <1>6, ControlInv
<1> HIDE DEF fin
<1>8. n \in Word
  <2>1. fin.send_next \in Nat
    BY <1>7, Numbers DEF SessionInv
  <2> QED
    BY <2>1, WordArith
<1> HIDE DEF n
<1>9. /\ WellFormed(last) /\ last.self = s.self /\ last.state = "LAST_ACK"
      /\ last.ooo_map = {} /\ last.dup_ack_count \in DupCounts
  <2>1. WellFormed(fin) /\ fin.ooo_map = {} /\ fin.dup_ack_count \in DupCounts
    BY <1>7 DEF SessionInv, DupInv
  <2> QED
    BY <1>0, <1>7, <1>8, <2>1 DEF WellFormed, Session
<1> HIDE DEF last
<1>10. SessionInv(last)
  BY <1>0, <1>9, ClosingInv
<1> HIDE DEF over
<1> QED
  BY <1>2, <1>5, <1>9, <1>10

\* handle_last_ack: the last acknowledgement erases the session.
LEMMA LastAckInv ==
  ASSUME NEW s, SessionInv(s), NEW packet \in myu_tcp_packet
  PROVE  LET r == handle_last_ack(s, packet) IN SessionInv(r) /\ r.self = s.self
<1> DEFINE t == TakeControlAck(s, packet.ack, "CLOSED")
<1>1. packet.ack \in Word /\ "CLOSED" \in TcpState /\ WellFormed(s)
  BY DEF myu_tcp_packet, TcpState, SessionInv
<1>2. WellFormed(t) /\ t.self = s.self
  BY <1>1, ControlAckType
<1>3. handle_last_ack(s, packet) \in {s, on_closed_cb(t)}
  BY DEF handle_last_ack
<1> HIDE DEF t
<1>4. SessionInv(on_closed_cb(t)) /\ on_closed_cb(t).self = s.self
  BY <1>2, OnClosedInv
<1> QED
  BY <1>3, <1>4

\* handle_reset and _handle_2msl_timeout erase the session.
LEMMA EraseInv ==
  ASSUME NEW s, SessionInv(s)
  PROVE  /\ SessionInv(handle_reset(s)) /\ handle_reset(s).self = s.self
         /\ SessionInv(handle_2msl_timeout(s)) /\ handle_2msl_timeout(s).self = s.self
<1> DEFINE t == stop_all_timers(s)
           u == [s EXCEPT !.state = "CLOSED"]
<1>1. WellFormed(s) /\ "CLOSED" \in TcpState
  BY DEF SessionInv, TcpState
<1>2. WellFormed(t) /\ t.self = s.self
  BY <1>1, TimerType DEF Keeps
<1>3. WellFormed(u) /\ u.self = s.self
  BY <1>1, FieldType
<1> HIDE DEF t, u
<1>4. /\ SessionInv(on_closed_cb(t)) /\ on_closed_cb(t).self = s.self
      /\ SessionInv(on_closed_cb(u)) /\ on_closed_cb(u).self = s.self
  BY <1>2, <1>3, OnClosedInv
<1> QED
  BY <1>4 DEF handle_reset, handle_2msl_timeout, t, u

\* Assignments that touch neither the counter, the state nor a timer.
LEMMA AsideInv ==
  ASSUME NEW s, NEW r, SessionInv(s), WellFormed(r), Same(r, s),
         r.timers = s.timers, r.msl_timer = s.msl_timer
  PROVE  SessionInv(r) /\ r.self = s.self
BY DEF SessionInv, Same, DupInv, Quiet

\* input(): whatever arrives in whatever state, the invariant holds afterwards.
LEMMA InputInv ==
  ASSUME NEW s, SessionInv(s), NEW packet \in myu_tcp_packet, NEW iss \in Word
  PROVE  LET r == input(s, packet, iss) IN SessionInv(r) /\ r.self = s.self
<1> DEFINE p == [s EXCEPT !.peer_usable_window_size = packet.win]
           d == DispatchOnState(p, packet, iss)
           c == [p EXCEPT !.user_want_to_close = FALSE]
<1>1. WellFormed(s) /\ packet.win \in Nat
  BY DEF SessionInv, myu_tcp_packet
<1>2. /\ WellFormed(p) /\ Same(p, s)
      /\ p.timers = s.timers /\ p.msl_timer = s.msl_timer
  BY <1>1, FieldType
<1>3. input(s, packet, iss) \in {s, handle_reset(s), d}
  BY DEF input
<1> HIDE DEF p
<1>4. SessionInv(p) /\ p.self = s.self
  BY <1>2, AsideInv
<1>5. SessionInv(c) /\ c.self = s.self
  <2>1. /\ WellFormed(c) /\ Same(c, p)
        /\ c.timers = p.timers /\ c.msl_timer = p.msl_timer
    BY <1>2, FieldType
  <2> HIDE DEF c
  <2> QED
    BY <1>4, <2>1, AsideInv
<1> HIDE DEF c
<1>6. SessionInv(d) /\ d.self = s.self
  <2>0. p.state \in TcpState
    BY <1>2 DEF WellFormed, Session
  <2>1. CASE p.state = "CLOSED"
    BY <1>5, <2>1 DEF DispatchOnState, c
  <2>2. CASE p.state = "LISTEN"
    BY <1>4, <2>2, ListenInv DEF DispatchOnState
  <2>3. CASE p.state = "SYN_SENT"
    BY <1>4, <2>3, SynSentInv DEF DispatchOnState
  <2>4. CASE p.state = "SYN_RECEIVED"
    BY <1>4, <2>4, SynReceivedInv DEF DispatchOnState
  <2>5. CASE p.state = "ESTABLISHED"
    BY <1>4, <2>5, EstablishedInv DEF DispatchOnState
  <2>6. CASE p.state = "FIN_WAIT_1"
    BY <1>4, <2>6, FinWait1Inv DEF DispatchOnState
  <2>7. CASE p.state = "FIN_WAIT_2"
    BY <1>4, <2>7, TimeWaitInv DEF DispatchOnState
  <2>8. CASE p.state = "CLOSE_WAIT"
    BY <1>4, <2>8, CloseWaitInv DEF DispatchOnState
  <2>9. CASE p.state = "LAST_ACK"
    BY <1>4, <2>9, LastAckInv DEF DispatchOnState
  <2>10. CASE p.state = "TIME_WAIT"
    BY <1>4, <2>10, TimeWaitInv DEF DispatchOnState
  <2> QED
    BY <2>0, <2>1, <2>2, <2>3, <2>4, <2>5, <2>6, <2>7, <2>8, <2>9, <2>10 DEF TcpState
<1> HIDE DEF d
<1> QED
  BY <1>3, <1>6, EraseInv

\* connect(), in every state in which the application calls it.
LEMMA ConnectInv ==
  ASSUME NEW s, SessionInv(s), s.state \in ConnectStates, NEW iss \in Word
  PROVE  LET r == connect(s, iss) IN SessionInv(r) /\ r.self = s.self
<1> DEFINE b == [s EXCEPT !.state = "SYN_SENT", !.send_next = iss, !.send_unack = iss]
           r == send_control_packet(b, {"SYN"})
<1>1. s.dup_ack_count \in FreshCounts /\ s.ooo_map = {} /\ WellFormed(s)
  BY DEF SessionInv, DupInv, Opening, DupCounts, FreshCounts, ConnectsClosed
<1>2. /\ WellFormed(b) /\ b.self = s.self /\ b.state = "SYN_SENT"
      /\ b.dup_ack_count \in FreshCounts /\ b.ooo_map = {}
  BY <1>1 DEF WellFormed, Session, TcpState
<1> HIDE DEF b
<1>3. b.remote \in Addr /\ {"SYN"} \in SUBSET TcpFlag
  BY <1>2 DEF WellFormed, Session, TcpFlag
<1>4. WellFormed(r) /\ Keeps(r, b)
  BY <1>2, <1>3, ControlType
<1>5. connect(s, iss) = r
  BY DEF connect, b
<1> HIDE DEF r
<1>6. SessionInv(r) /\ r.self = s.self
  BY <1>2, <1>4, OpenedInv DEF Keeps
<1> QED
  BY <1>5, <1>6

\* listen() on a closed session.
LEMMA ListenCallInv ==
  ASSUME NEW s, SessionInv(s)
  PROVE  SessionInv(listen(s)) /\ listen(s).self = s.self
<1> DEFINE r == [s EXCEPT !.state = "LISTEN"]
<1>1. CASE s.state # "CLOSED"
  BY <1>1 DEF listen
<1>2. CASE s.state = "CLOSED"
  <2>1. "LISTEN" \in TcpState /\ WellFormed(s)
    BY DEF TcpState, SessionInv
  <2>2. /\ WellFormed(r) /\ r.state = "LISTEN" /\ r.self = s.self
        /\ r.dup_ack_count = s.dup_ack_count /\ r.ooo_map = s.ooo_map
        /\ r.timers = s.timers /\ r.msl_timer = s.msl_timer
    BY <2>1, FieldType
  <2>3. listen(s) = r
    BY <1>2 DEF listen
  <2> HIDE DEF r
  <2> QED
    BY <1>2, <2>2, <2>3 DEF SessionInv, DupInv, Quiet, Opening
<1> QED
  BY <1>1, <1>2

\* close(): a FIN, the second FIN, or a RST that leaves nothing running.
LEMMA CloseInv ==
  ASSUME NEW s, SessionInv(s)
  PROVE  SessionInv(close(s)) /\ close(s).self = s.self
<1>0. /\ WellFormed(s) /\ s.ooo_map = {} /\ s.dup_ack_count \in DupCounts
      /\ {"FIN_WAIT_1", "LAST_ACK"} \subseteq Closing
      /\ {"FIN_WAIT_1", "LAST_ACK", "CLOSED"} \subseteq TcpState
      /\ {"FIN"} \in SUBSET TcpFlag /\ {"FIN", "ACK"} \in SUBSET TcpFlag
      /\ {"RST"} \in SUBSET TcpFlag
  BY DEF SessionInv, DupInv, Closing, TcpState, TcpFlag
<1>1. ASSUME NEW r, SessionInv(r), r.state \in Closing
      PROVE  LET w == [r EXCEPT !.user_want_to_close = TRUE]
             IN  SessionInv(w) /\ w.self = r.self
  <2> DEFINE w == [r EXCEPT !.user_want_to_close = TRUE]
  <2>1. /\ WellFormed(w) /\ Same(w, r)
        /\ w.timers = r.timers /\ w.msl_timer = r.msl_timer
    BY <1>1, FieldType DEF SessionInv
  <2> HIDE DEF w
  <2>2. SessionInv(w) /\ w.self = r.self
    BY <1>1, <2>1, AsideInv
  <2> QED
    BY <2>2 DEF w
<1>2. CASE s.state = "ESTABLISHED"
  <2> DEFINE tried == handle_try_send(s)
             stopped == stop_all_timers(tried)
             b == [stopped EXCEPT !.state = "FIN_WAIT_1"]
             r == send_control_packet(b, {"FIN"})
  <2>1. SessionInv(tried) /\ tried.self = s.self
    BY TrySendInv
  <2>2. close(s) = [r EXCEPT !.user_want_to_close = TRUE]
    BY <1>2 DEF close
  <2> HIDE DEF tried
  <2>3. /\ WellFormed(stopped) /\ stopped.self = s.self
        /\ stopped.ooo_map = {} /\ stopped.dup_ack_count \in DupCounts
    BY <2>1, TimerType DEF SessionInv, DupInv, Keeps
  <2> HIDE DEF stopped
  <2>4. /\ WellFormed(b) /\ b.self = s.self /\ b.state \in Closing
        /\ b.ooo_map = {} /\ b.dup_ack_count \in DupCounts
    BY <1>0, <2>3, FieldType
  <2> HIDE DEF b
  <2>5. SessionInv(r) /\ r.self = s.self /\ r.state \in Closing
    BY <1>0, <2>4, ControlInv
  <2> HIDE DEF r
  <2> QED
    BY <1>1, <2>2, <2>5
<1>3. CASE s.state = "CLOSE_WAIT"
  <2> DEFINE b == [s EXCEPT !.state = "LAST_ACK"]
             r == send_control_packet(b, {"FIN", "ACK"})
  <2>2. close(s) = [r EXCEPT !.user_want_to_close = TRUE]
    BY <1>3 DEF close
  <2>4. /\ WellFormed(b) /\ b.self = s.self /\ b.state \in Closing
        /\ b.ooo_map = {} /\ b.dup_ack_count \in DupCounts
    BY <1>0, FieldType
  <2> HIDE DEF b
  <2>5. SessionInv(r) /\ r.self = s.self /\ r.state \in Closing
    BY <1>0, <2>4, ControlInv
  <2> HIDE DEF r
  <2> QED
    BY <1>1, <2>2, <2>5
<1>4. CASE s.state \in {"SYN_SENT", "SYN_RECEIVED"}
  <2> DEFINE b == send_control_packet(s, {"RST"})
             stopped == stop_all_timers(b)
             r == [stopped EXCEPT !.state = "CLOSED"]
  <2>1. s.remote \in Addr /\ s.dup_ack_count \in FreshCounts
    BY <1>0, <1>4 DEF WellFormed, Session, SessionInv, DupInv, Opening
  <2>2. WellFormed(b) /\ Keeps(b, s)
    BY <1>0, <2>1, ControlType
  <2>3. close(s) = r
    BY <1>4 DEF close
  <2> HIDE DEF b
  <2>4. /\ WellFormed(stopped) /\ stopped.self = s.self
        /\ stopped.ooo_map = {} /\ stopped.dup_ack_count \in FreshCounts
        /\ stopped.timers = {} /\ stopped.msl_timer = FALSE
    BY <1>0, <2>1, <2>2, TimerType DEF Keeps
  <2> HIDE DEF stopped
  <2>5. /\ WellFormed(r) /\ r.self = s.self /\ r.state = "CLOSED"
        /\ r.ooo_map = {} /\ r.dup_ack_count \in FreshCounts
        /\ r.timers = {} /\ r.msl_timer = FALSE
    BY <1>0, <2>4, FieldType
  <2> HIDE DEF r
  <2> QED
    BY <2>3, <2>5 DEF SessionInv, DupInv, Quiet, DupCounts, FreshCounts
<1>5. CASE s.state \notin {"ESTABLISHED", "CLOSE_WAIT", "SYN_SENT", "SYN_RECEIVED"}
  BY <1>5 DEF close
<1> QED
  BY <1>2, <1>3, <1>4, <1>5

\* Writable(): send() takes no more than fits.
LEMMA WritableType ==
  ASSUME NEW s, WellFormed(s), NEW data \in Seq(Byte)
  PROVE  /\ Writable(s, data) \in Seq(Byte)
         /\ s.send_buffer \o Writable(s, data) \in Seq(Byte)
         /\ Len(s.send_buffer \o Writable(s, data)) <= BufferCapacity
<1> DEFINE room == BufferCapacity - Len(s.send_buffer)
           n == IF Len(data) > room THEN room ELSE Len(data)
<1>1. /\ s.send_buffer \in Seq(Byte) /\ Len(s.send_buffer) \in Nat
      /\ Len(s.send_buffer) <= BufferCapacity
  BY DEF WellFormed, Session
<1>0. BufferCapacity \in Nat /\ Len(data) \in Nat
  BY SessionAssumption
<1>2. n \in Nat /\ n <= Len(data) /\ Len(s.send_buffer) + n <= BufferCapacity
  <2>1. ASSUME NEW a \in Nat, NEW b \in Nat, NEW c \in Nat, b <= a
        PROVE  LET m == IF c > a - b THEN a - b ELSE c
               IN  m \in Nat /\ m <= c /\ b + m <= a
    BY <2>1
  <2> QED
    BY <1>0, <1>1, <2>1
<1>3. Writable(s, data) = SubSeq(data, 1, n)
  BY DEF Writable
<1> HIDE DEF n
<1>4. \A i \in 1..n : data[i] \in Byte
  BY <1>2
<1>5. SubSeq(data, 1, n) \in Seq(Byte) /\ Len(SubSeq(data, 1, n)) = n
  BY <1>2, <1>4, SubSeqProperties
<1>6. LET w == SubSeq(data, 1, n)
      IN  /\ s.send_buffer \o w \in Seq(Byte)
          /\ Len(s.send_buffer \o w) = Len(s.send_buffer) + n
  BY <1>1, <1>5, ConcatProperties
<1> QED
  BY <1>2, <1>3, <1>5, <1>6

\* send() fills the buffer to its capacity at most.
LEMMA SendInv ==
  ASSUME NEW s, SessionInv(s), NEW data \in Seq(Byte)
  PROVE  SessionInv(send(s, data)) /\ send(s, data).self = s.self
<1> DEFINE q == s.send_buffer \o Writable(s, data)
           b == [s EXCEPT !.send_buffer = q]
<1>1. WellFormed(s)
  BY DEF SessionInv
<1>2. q \in Seq(Byte) /\ Len(q) <= BufferCapacity
  BY <1>1, WritableType
<1>3. send(s, data) \in {s, handle_try_send(b)}
  BY DEF send, push_batch
<1> HIDE DEF q
<1>4. /\ WellFormed(b) /\ Same(b, s)
      /\ b.timers = s.timers /\ b.msl_timer = s.msl_timer
  BY <1>1, <1>2 DEF WellFormed, Session, Same
<1> HIDE DEF b
<1>5. SessionInv(b) /\ b.self = s.self
  BY <1>4, AsideInv
<1>6. SessionInv(handle_try_send(b)) /\ handle_try_send(b).self = s.self
  BY <1>5, TrySendInv
<1> QED
  BY <1>3, <1>6

\* recv() and read_all() empty the buffer, and close at the end of the stream.
LEMMA RecvInv ==
  ASSUME NEW s, SessionInv(s), NEW n \in Nat
  PROVE  /\ SessionInv(recv(s, n)) /\ recv(s, n).self = s.self
         /\ Readable(s, n) \in Seq(Byte)
<1> DEFINE q == pop_front(s.recv_buffer, n)
           rest == [s EXCEPT !.recv_buffer = q]
<1>1. /\ WellFormed(s) /\ s.recv_buffer \in Seq(Byte) /\ Len(s.recv_buffer) \in Nat
      /\ Len(s.recv_buffer) <= BufferCapacity
  BY DEF SessionInv, WellFormed, Session
<1>2. q \in Seq(Byte) /\ Len(q) <= Len(s.recv_buffer)
  BY <1>1, QueueType
<1>3. recv(s, n) \in {rest, close(rest)}
  BY DEF recv
<1> HIDE DEF q
<1>4. Len(q) <= BufferCapacity
  BY <1>1, <1>2, SessionAssumption
<1>5. /\ WellFormed(rest) /\ Same(rest, s)
      /\ rest.timers = s.timers /\ rest.msl_timer = s.msl_timer
  <2>1. ASSUME NEW v \in Seq(Byte), Len(v) <= BufferCapacity
        PROVE  LET r == [s EXCEPT !.recv_buffer = v]
               IN  /\ WellFormed(r) /\ Same(r, s)
                   /\ r.timers = s.timers /\ r.msl_timer = s.msl_timer
    BY <1>1, <2>1 DEF WellFormed, Session, Same
  <2> QED
    BY <1>2, <1>4, <2>1
<1> HIDE DEF rest
<1>6. SessionInv(rest) /\ rest.self = s.self
  BY <1>5, AsideInv
<1>7. SessionInv(close(rest)) /\ close(rest).self = s.self
  BY <1>6, CloseInv
<1>8. Readable(s, n) \in Seq(Byte)
  <2> DEFINE k == IF n > Len(s.recv_buffer) THEN Len(s.recv_buffer) ELSE n
  <2>1. k \in Nat /\ k <= Len(s.recv_buffer) /\ 1 \in Nat \ {0}
    BY <1>1
  <2>2. Readable(s, n) = SubSeq(s.recv_buffer, 1, k)
    BY DEF Readable
  <2> HIDE DEF k
  <2> QED
    BY <1>1, <2>1, <2>2, PartType
<1> QED
  BY <1>3, <1>6, <1>7, <1>8

=============================================================================
