----------------------------- MODULE TcpSession -----------------------------
(***************************************************************************)
(* The TCP control block of MyuTCP (include/myutcp/core/tcb.h, sw.h,       *)
(* src/core/tcb.cpp) as operators on a session record.                     *)
(*                                                                         *)
(* The stack runs every handler to completion on one libuv loop, so a      *)
(* handler is a function from the session before it to the session after   *)
(* it.  The datagrams it hands to UdpDriver::send_packet are collected, in *)
(* order and per destination, in the field "out"; the module that composes *)
(* sessions moves them to the network.                                     *)
(*                                                                         *)
(* Data is abstracted as follows.  A byte is named by its position in the  *)
(* application's stream (1, 2, 3, ...).  Sequence numbers are uint32_t     *)
(* words; SeqMod stands for 2^32.  A set of flag names stands for the flag *)
(* octet, and "valid" for a checksum that _verify_checksum accepts.        *)
(***************************************************************************)
EXTENDS Integers, Sequences, FiniteSets

CONSTANTS
  Addr,                  \* the UDP addresses of the stacks that are modelled
  DefaultAddr,           \* 127.0.0.1:9999, the default arguments of _handle_retransmit
  Radix,                 \* a word is two octets of this radix
  SeqMod,                \* the number of words: 2^32 in the code
  BufferCapacity,        \* RingQueue<uint8_t, 1024>
  MAX_RETRANSMIT_COUNT,  \* 5 in the code
  INITIAL_SSTHRESH,      \* 8 in the code
  auto_close_on_eof,     \* TRUE unless the application clears it
  ConnectStates          \* the states in which the application calls connect(), which
                         \* itself accepts any

ASSUME SessionAssumption ==
  /\ Radix \in Nat \ {0, 1}
  /\ SeqMod = Radix * Radix
  /\ BufferCapacity \in Nat \ {0}
  /\ BufferCapacity < SeqMod
  /\ MAX_RETRANSMIT_COUNT \in Nat \ {0}
  /\ INITIAL_SSTHRESH \in 0..(SeqMod - 1)
  /\ auto_close_on_eof \in BOOLEAN

-----------------------------------------------------------------------------
(* Words: uint32_t arithmetic, and the octet swap of htonl on a            *)
(* little-endian host.                                                     *)

Word == 0..(SeqMod - 1)

Plus(a, b) == (a + b) % SeqMod

Minus(a, b) == (a - b) % SeqMod

htonl(x) == (x % Radix) * Radix + (x \div Radix)

-----------------------------------------------------------------------------
(* State and packets.                                                      *)

TcpState == {"CLOSED", "LISTEN", "SYN_SENT", "SYN_RECEIVED", "ESTABLISHED",
             "FIN_WAIT_1", "FIN_WAIT_2", "CLOSE_WAIT", "LAST_ACK", "TIME_WAIT"}

TcpFlag == {"FIN", "SYN", "RST", "ACK"}

Byte == Nat \ {0}

myu_tcp_packet ==
  [src : Addr, flags : SUBSET TcpFlag, seq : Word, ack : Word,
   payload : Seq(Byte), win : Nat, valid : BOOLEAN]

\* A running uv_timer with what its callback captured: the packet (its flags
\* and payload; its acknowledgement and window are rewritten before it is
\* sent), the number of retransmissions and the destination.
RetransmitTimer ==
  [seq : Word, flags : SUBSET TcpFlag, payload : Seq(Byte),
   count : Nat, dest : Addr \cup {DefaultAddr}]

Session ==
  [self : Addr, remote : Addr,
   alive : BOOLEAN,               \* the session is in TcpStack::tcp_sessions_
   state : TcpState,
   send_unack : Word, send_next : Word,
   send_window_size : Word, ssthresh : Word,
   last_ack_received : Word, dup_ack_count : Nat,
   recv_next : Word,
   send_buffer : Seq(Byte), recv_buffer : Seq(Byte),
   ooo_map : SUBSET [seq : Word, payload : Seq(Byte)],
   inflight_packets : SUBSET [key : Nat, flags : SUBSET TcpFlag, payload : Seq(Byte)],
   timers : SUBSET RetransmitTimer,
   msl_timer : BOOLEAN,           \* TimerManager::_2msl_timer is running
   user_want_to_close : BOOLEAN,
   peer_usable_window_size : Nat,
   is_in_ready_queue : BOOLEAN,
   out : [Addr -> Seq(myu_tcp_packet)]]

NothingSent == [a \in Addr |-> <<>>]

\* The constructor and TcpStack::create_session.  last_ack_received_ starts at
\* initial_send_seq_, which has nothing to do with the sequence number that
\* connect() or handle_listen() draw later.
NewSession(self, remote, initial_send_seq) ==
  [self |-> self, remote |-> remote, alive |-> TRUE, state |-> "CLOSED",
   send_unack |-> 0, send_next |-> 0,
   send_window_size |-> 1, ssthresh |-> INITIAL_SSTHRESH,
   last_ack_received |-> initial_send_seq, dup_ack_count |-> 0,
   recv_next |-> 0,
   send_buffer |-> <<>>, recv_buffer |-> <<>>,
   ooo_map |-> {}, inflight_packets |-> {},
   timers |-> {}, msl_timer |-> FALSE,
   user_want_to_close |-> FALSE, peer_usable_window_size |-> 0,
   is_in_ready_queue |-> FALSE, out |-> NothingSent]

\* recv_window_.recv_window_size_ is set once, in the constructor.
recv_window_size == 1

\* on_closed_cb_ as create_session installs it: the session is erased from
\* tcp_sessions_.  Its destructor stops and closes the retransmission timers and
\* frees _2msl_timer as it is; if that one is running the loop keeps a pointer to
\* freed memory: undefined behaviour, of which the model keeps the outcome that it
\* never expires.
on_closed_cb(s) ==
  [NewSession(s.self, s.remote, 0) EXCEPT !.alive = FALSE, !.out = s.out]

-----------------------------------------------------------------------------
(* RingQueue, as the session uses it (RingQueue.tla models the ring).      *)

push_batch(q, data) == q \o data

HasRoom(q, data) == Len(data) <= BufferCapacity - Len(q)

peek_range(q, offset, n) ==
  IF offset >= Len(q) \/ n = 0
    THEN <<>>
    ELSE SubSeq(q, offset + 1, IF offset + n > Len(q) THEN Len(q) ELSE offset + n)

pop_front(q, n) == SubSeq(q, (IF n > Len(q) THEN Len(q) ELSE n) + 1, Len(q))

-----------------------------------------------------------------------------
(* TimerManager, seen from the session: the set of running timers, one per *)
(* sequence number.                                                        *)

stop_timer(s, seq) == [s EXCEPT !.timers = {t \in @ : t.seq # seq}]

\* Mutant: the old timer is stopped and no new one is started.
StartNothing(s, timer) == [s EXCEPT !.timers = {t \in @ : t.seq # timer.seq}]

\* Mutant: one timer for the connection, not re-armed while it runs.
StartOnce(s, timer) == IF s.timers # {} THEN s ELSE [s EXCEPT !.timers = {timer}]

start_timer(s, timer) ==
  [s EXCEPT !.timers = {t \in @ : t.seq # timer.seq} \cup {timer}]

drop_timer_up_to(s, ack) == [s EXCEPT !.timers = {t \in @ : t.seq >= ack}]

\* Mutant: only the 2MSL timer is stopped.
StopMslOnly(s) == [s EXCEPT !.msl_timer = FALSE]

stop_all_timers(s) == [s EXCEPT !.timers = {}, !.msl_timer = FALSE]

-----------------------------------------------------------------------------
(* Sending.                                                                *)

get_usable_recv_window_size(s) == BufferCapacity - Len(s.recv_buffer)

Packet(s, flags, seq, ack, payload) ==
  [src |-> s.self, flags |-> flags, seq |-> seq, ack |-> ack,
   payload |-> payload, win |-> get_usable_recv_window_size(s), valid |-> TRUE]

\* UdpDriver::send_packet; a destination outside the model swallows the packet.
send_packet(s, dest, packet) ==
  IF dest \in Addr THEN [s EXCEPT !.out[dest] = Append(@, packet)] ELSE s

send_pure_ack(s, ack) ==
  send_packet(s, s.remote, Packet(s, {"ACK"}, s.send_next, ack, <<>>))

\* A SYN or a FIN takes one sequence number and a retransmission timer.
send_control_packet(s, flags) ==
  LET packet == Packet(s, flags, s.send_next, s.recv_next, <<>>)
      timed  == [start_timer(s, [seq |-> s.send_next, flags |-> flags,
                                 payload |-> <<>>, count |-> 0, dest |-> s.remote])
                   EXCEPT !.send_next = Plus(@, 1)]
  IN  send_packet(IF flags \cap {"SYN", "FIN"} # {} THEN timed ELSE s,
                  s.remote, packet)

\* The timer's callback leaves the address arguments of _handle_retransmit at
\* their defaults.  inflight_packets_ is keyed by the number in network order.
send_payload_packet(s, payload, flags) ==
  LET packet   == Packet(s, flags, s.send_next, s.recv_next, payload)
      key      == htonl(s.send_next)
      timed    == start_timer(s, [seq |-> s.send_next, flags |-> flags,
                                  payload |-> payload, count |-> 0,
                                  dest |-> DefaultAddr])
      inflight == IF \E p \in s.inflight_packets : p.key = key
                    THEN s.inflight_packets
                    ELSE s.inflight_packets
                           \cup {[key |-> key, flags |-> flags, payload |-> payload]}
  IN  IF payload = <<>>
        THEN s
        ELSE send_packet([timed EXCEPT !.inflight_packets = inflight,
                                       !.send_next = Plus(@, Len(payload))],
                         s.remote, packet)

\* Both subtractions are on uint32_t: the allowance wraps when more is in
\* flight than the window allows.
handle_try_send(s) ==
  LET inflight  == Minus(s.send_next, s.send_unack)
      allowance == Minus(s.send_window_size, inflight)
  IN  IF s.state \notin {"ESTABLISHED", "CLOSE_WAIT"} \/ allowance = 0
        THEN s
        ELSE send_payload_packet(s, peek_range(s.send_buffer, inflight, allowance),
                                 {"ACK"})

\* Mutant: the restarted timer forgets how often the packet has been sent.
RetransmitForever(s, timer) ==
  send_packet([start_timer(s, timer) EXCEPT !.send_window_size = 1], timer.dest,
              Packet(s, timer.flags, timer.seq, s.recv_next, timer.payload))

\* A retransmission timer fires.  The fifth time it only gives up.
handle_retransmit(s, timer) ==
  LET count == timer.count + 1
      cwnd  == s.send_window_size
      again == [start_timer(s, [timer EXCEPT !.count = count])
                  EXCEPT !.ssthresh = IF cwnd % 2 # 0 THEN Plus(cwnd, 1) \div 2
                                                      ELSE Plus(cwnd, 1),
                         !.send_window_size = 1]
  IN  IF count >= MAX_RETRANSMIT_COUNT
        THEN stop_timer(s, timer.seq)
        ELSE send_packet(again, timer.dest,
                         Packet(s, timer.flags, timer.seq, s.recv_next, timer.payload))

-----------------------------------------------------------------------------
(* Receiving.                                                              *)

\* The default on_recv_three_dup_ack: the lookup uses host order, and the
\* payload is sent again under a new sequence number.
on_recv_three_dup_ack(s, ack) ==
  LET stopped == stop_timer(s, ack)
      found   == {p \in s.inflight_packets : p.key = ack}
  IN  IF found = {}
        THEN stopped
        ELSE LET p == CHOOSE q \in found : TRUE
             IN  send_payload_packet(stopped, p.payload, p.flags)

\* The counting of repeated acknowledgements in _handle_ack.
CountAck(s, ack) ==
  [s EXCEPT !.last_ack_received = IF @ < ack THEN ack ELSE @,
            !.dup_ack_count = IF s.last_ack_received < ack THEN 0
                              ELSE IF s.last_ack_received = ack THEN @ + 1
                              ELSE @]

FastRetransmit(s, ack) ==
  LET half == s.send_window_size \div 2
  IN  IF s.dup_ack_count # 3
        THEN s
        ELSE [on_recv_three_dup_ack(s, ack)
                EXCEPT !.ssthresh = half,
                       !.send_window_size = Plus(half, 3),
                       !.dup_ack_count = 0]

GrowWindow(s) ==
  [s EXCEPT !.send_window_size = IF @ < s.ssthresh THEN Plus(@, @) ELSE Plus(@, 1)]

\* Mutant: one byte too many leaves the send buffer.
ReleaseTooMuch(s, ack) ==
  [drop_timer_up_to(s, Minus(ack, 1))
     EXCEPT !.send_buffer = pop_front(@, Minus(ack, s.send_unack) + 1),
            !.send_unack = ack,
            !.inflight_packets = {p \in @ : p.key >= ack}]

\* The bytes and packets that an acceptable acknowledgement releases.
ReleaseAcked(s, ack) ==
  [drop_timer_up_to(s, Minus(ack, 1))
     EXCEPT !.send_buffer = pop_front(@, Minus(ack, s.send_unack)),
            !.send_unack = ack,
            !.inflight_packets = {p \in @ : p.key >= ack}]

\* Mutant: an acknowledgement that repeats the last one is acceptable.
AckRepeatable(s, ack) == ack >= s.send_unack /\ ack <= s.send_next

\* The comparisons are on plain uint32_t values, not modulo 2^32.
AckAcceptable(s, ack) == ack > s.send_unack /\ ack <= s.send_next

handle_ack(s, packet) ==
  IF AckAcceptable(s, packet.ack)
    THEN handle_try_send(
           GrowWindow(
             FastRetransmit(
               CountAck(ReleaseAcked(s, packet.ack), packet.ack), packet.ack)))
    ELSE s

Deliverable(s, payload) ==
  [s EXCEPT !.recv_buffer = push_batch(@, payload),
            !.recv_next = Plus(@, Len(payload))]

\* The loop over ooo_map_ takes its smallest entry as long as that is the next
\* one.  An entry that the buffer cannot take stops the model here; the code's
\* loop would try it for ever.
DrainOooMap(s) ==
  LET First(m)  == CHOOSE o \in m : \A q \in m : o.seq <= q.seq
      drained[k \in 0..Cardinality(s.ooo_map)] ==
        IF k = 0
          THEN s
          ELSE LET r == drained[k - 1]
                   o == First(r.ooo_map)
               IN  IF o.seq = r.recv_next /\ HasRoom(r.recv_buffer, o.payload)
                     THEN [Deliverable(r, o.payload) EXCEPT !.ooo_map = @ \ {o}]
                     ELSE r
  IN  IF s.ooo_map = {} THEN s ELSE drained[Cardinality(s.ooo_map)]

\* Mutant: old packets count as being in order.
InOrderOrOld(s, packet) == packet.seq <= s.recv_next

InOrder(s, packet) == packet.seq = s.recv_next

InWindow(s, packet) ==
  /\ packet.seq > s.recv_next
  /\ packet.seq < Plus(s.recv_next, recv_window_size)

\* Mutant: recv_next_ moves on although the buffer could not take the data.
TakeOrSkip(s, packet) ==
  IF HasRoom(s.recv_buffer, packet.payload)
    THEN Deliverable(s, packet.payload)
    ELSE [s EXCEPT !.recv_next = Plus(@, Len(packet.payload))]

TakeInOrder(s, packet) ==
  DrainOooMap(IF HasRoom(s.recv_buffer, packet.payload)
                THEN Deliverable(s, packet.payload) ELSE s)

TakeOutOfOrder(s, packet) ==
  IF InWindow(s, packet)
    THEN [s EXCEPT !.ooo_map = {o \in @ : o.seq # packet.seq}
                                 \cup {[seq |-> packet.seq, payload |-> packet.payload]}]
    ELSE s

handle_incoming_packet(s, packet) ==
  LET taken == IF InOrder(s, packet) THEN TakeInOrder(s, packet)
                                     ELSE TakeOutOfOrder(s, packet)
  IN  send_pure_ack(taken, taken.recv_next)

\* Mutant: the end of the stream, on_data_cb_(0), wakes nobody.
WakeForDataOnly(s) == [s EXCEPT !.is_in_ready_queue = @ \/ s.recv_buffer # <<>>]

\* on_data_cb_ as create_session installs it: _trigger_event.
on_data_cb(s) == [s EXCEPT !.is_in_ready_queue = TRUE]

\* Mutant: the 2MSL timer is started for every FIN.
AcceptFinTimed(s, packet, newState) ==
  LET acked == [s EXCEPT !.recv_next = Plus(packet.seq, 1)]
  IN  [send_pure_ack(acked, acked.recv_next) EXCEPT !.state = newState, !.msl_timer = TRUE]

\* A FIN moves recv_next_ just past it, wherever it lies, and is acknowledged.
AcceptFin(s, packet, newState) ==
  LET acked == [s EXCEPT !.recv_next = Plus(packet.seq, 1)]
  IN  [send_pure_ack(acked, acked.recv_next) EXCEPT !.state = newState]

\* What the control states accept as the acknowledgement of their SYN or FIN.
ExpectedAck(s) == Plus(s.send_unack, 1)

\* That acknowledgement is taken: its timer is stopped and the state changes.
TakeControlAck(s, ack, newState) ==
  [stop_timer(s, Minus(ack, 1)) EXCEPT !.send_unack = ack, !.state = newState]

-----------------------------------------------------------------------------
(* The state machine: one handler per state.                               *)

Has(packet, flag) == flag \in packet.flags

handle_listen(s, packet, iss) ==
  IF ~Has(packet, "SYN")
    THEN s
    ELSE send_control_packet(
           [s EXCEPT !.send_next = iss, !.send_unack = iss,
                     !.recv_next = Plus(packet.seq, 1),
                     !.state = "SYN_RECEIVED"], {"SYN", "ACK"})

\* Mutant: the acknowledgement number of a SYN-ACK is not checked.
SynAckUnchecked(s, packet) ==
  LET synced == [s EXCEPT !.recv_next = Plus(packet.seq, 1)]
  IN  IF Has(packet, "SYN") /\ Has(packet, "ACK")
        THEN handle_try_send(
               TakeControlAck(send_pure_ack(synced, synced.recv_next),
                              packet.ack, "ESTABLISHED"))
        ELSE s

\* The SYN-ACK that answers a simultaneous SYN is a new control packet: it
\* takes the next sequence number, not that of the SYN already sent.
handle_syn_sent(s, packet) ==
  LET synced == [s EXCEPT !.recv_next = Plus(packet.seq, 1)]
  IN  CASE Has(packet, "SYN") /\ Has(packet, "ACK") /\ packet.ack = ExpectedAck(s) ->
             handle_try_send(
               TakeControlAck(send_pure_ack(synced, synced.recv_next),
                              packet.ack, "ESTABLISHED"))
        [] Has(packet, "SYN") /\ ~Has(packet, "ACK") ->
             send_control_packet([synced EXCEPT !.state = "SYN_RECEIVED"],
                                 {"SYN", "ACK"})
        [] OTHER -> s

\* Mutant: the client's ACK is compared with send_unack_ itself.
SynReceivedOffByOne(s, packet) ==
  IF Has(packet, "ACK") /\ packet.ack = s.send_unack
    THEN handle_try_send(TakeControlAck(s, packet.ack, "ESTABLISHED"))
    ELSE s

handle_syn_received(s, packet) ==
  IF Has(packet, "ACK") /\ packet.ack = ExpectedAck(s)
    THEN handle_try_send(TakeControlAck(s, packet.ack, "ESTABLISHED"))
    ELSE s

handle_established(s, packet) ==
  LET acked == IF Has(packet, "ACK") THEN handle_try_send(handle_ack(s, packet)) ELSE s
      taken == handle_incoming_packet(acked, packet)
      read  == CASE packet.payload = <<>> -> acked
                 [] packet.payload # <<>> /\ InOrder(acked, packet) -> on_data_cb(taken)
                 [] OTHER -> taken
  IN  IF Has(packet, "FIN") THEN on_data_cb(AcceptFin(read, packet, "CLOSE_WAIT"))
                            ELSE read

handle_fin_wait_1(s, packet) ==
  LET acked == IF Has(packet, "ACK") /\ packet.ack = ExpectedAck(s)
                 THEN TakeControlAck(s, packet.ack, "FIN_WAIT_2") ELSE s
  IN  IF Has(packet, "FIN") THEN AcceptFin(acked, packet, "CLOSE_WAIT") ELSE acked

\* Mutant: the 2MSL timer is not started.
TimeWaitUntimed(s, packet) ==
  IF Has(packet, "FIN") THEN AcceptFin(s, packet, "TIME_WAIT") ELSE s

handle_fin_wait_2(s, packet) ==
  IF Has(packet, "FIN")
    THEN [AcceptFin(s, packet, "TIME_WAIT") EXCEPT !.msl_timer = TRUE]
    ELSE s

\* Mutant: a repeated FIN is ignored.
IgnoreRepeatedFin(s, packet) == s

handle_timed_wait(s, packet) ==
  IF Has(packet, "FIN") THEN AcceptFin(s, packet, "TIME_WAIT") ELSE s

\* Every packet is answered.  The FIN that follows a simultaneous close takes
\* two sequence numbers.
handle_close_wait(s, packet) ==
  LET tried == handle_try_send(send_pure_ack(s, s.recv_next))
  IN  IF /\ tried.user_want_to_close
         /\ tried.send_buffer = <<>>
         /\ tried.send_unack = tried.send_next
        THEN [send_control_packet(stop_all_timers(tried), {"FIN"})
                EXCEPT !.send_next = Plus(@, 1), !.state = "LAST_ACK"]
        ELSE tried

handle_last_ack(s, packet) ==
  IF Has(packet, "ACK") /\ packet.ack = ExpectedAck(s)
    THEN on_closed_cb(TakeControlAck(s, packet.ack, "CLOSED"))
    ELSE s

handle_reset(s) == on_closed_cb(stop_all_timers(s))

\* iss is the number _generate_initial_seq returns if handle_listen asks for one.
DispatchOnState(s, packet, iss) ==
  CASE s.state = "CLOSED"       -> [s EXCEPT !.user_want_to_close = FALSE]
    [] s.state = "LISTEN"       -> handle_listen(s, packet, iss)
    [] s.state = "SYN_SENT"     -> handle_syn_sent(s, packet)
    [] s.state = "SYN_RECEIVED" -> handle_syn_received(s, packet)
    [] s.state = "ESTABLISHED"  -> handle_established(s, packet)
    [] s.state = "FIN_WAIT_1"   -> handle_fin_wait_1(s, packet)
    [] s.state = "FIN_WAIT_2"   -> handle_fin_wait_2(s, packet)
    [] s.state = "CLOSE_WAIT"   -> handle_close_wait(s, packet)
    [] s.state = "LAST_ACK"     -> handle_last_ack(s, packet)
    [] s.state = "TIME_WAIT"    -> handle_timed_wait(s, packet)

input(s, packet, iss) ==
  CASE ~packet.valid                               -> s
    [] packet.valid /\ Has(packet, "RST")          -> handle_reset(s)
    [] packet.valid /\ ~Has(packet, "RST")
         /\ packet.flags \cap {"ACK", "SYN", "FIN"} = {} -> s
    [] OTHER -> DispatchOnState([s EXCEPT !.peer_usable_window_size = packet.win],
                                packet, iss)

-----------------------------------------------------------------------------
(* The application's calls and the remaining timer.                        *)

\* An application that never connects a session that is open.
ConnectsClosed == ConnectStates \subseteq {"CLOSED"}

\* connect() does not look at the state of the session, and resets no more of it.
connect(s, iss) ==
  send_control_packet([s EXCEPT !.state = "SYN_SENT",
                                !.send_next = iss, !.send_unack = iss], {"SYN"})

listen(s) == IF s.state # "CLOSED" THEN s ELSE [s EXCEPT !.state = "LISTEN"]

close(s) ==
  CASE s.state = "ESTABLISHED" ->
         [send_control_packet([stop_all_timers(handle_try_send(s))
                                 EXCEPT !.state = "FIN_WAIT_1"], {"FIN"})
            EXCEPT !.user_want_to_close = TRUE]
    [] s.state = "CLOSE_WAIT" ->
         [send_control_packet([s EXCEPT !.state = "LAST_ACK"], {"FIN", "ACK"})
            EXCEPT !.user_want_to_close = TRUE]
    [] s.state \in {"SYN_SENT", "SYN_RECEIVED"} ->
         [stop_all_timers(send_control_packet(s, {"RST"})) EXCEPT !.state = "CLOSED"]
    [] OTHER -> s

\* Mutant: the free space is not looked at.
WriteAll(s, data) == data

\* send() takes what fits; the rest is refused and reported to the caller.
Writable(s, data) ==
  SubSeq(data, 1, IF Len(data) > BufferCapacity - Len(s.send_buffer)
                    THEN BufferCapacity - Len(s.send_buffer) ELSE Len(data))

send(s, data) ==
  IF data = <<>>
    THEN s
    ELSE handle_try_send([s EXCEPT !.send_buffer = push_batch(@, Writable(s, data))])

\* recv() and read_all() give the application the first n bytes, or fewer, and
\* close a session that has reached the end of its peer's stream.
Readable(s, n) == SubSeq(s.recv_buffer, 1, IF n > Len(s.recv_buffer)
                                             THEN Len(s.recv_buffer) ELSE n)

recv(s, n) ==
  LET rest == [s EXCEPT !.recv_buffer = pop_front(@, n)]
  IN  IF rest.recv_buffer = <<>> /\ s.state = "CLOSE_WAIT" /\ auto_close_on_eof
        THEN close(rest)
        ELSE rest

read_all(s) == recv(s, Len(s.recv_buffer))

handle_2msl_timeout(s) == on_closed_cb([s EXCEPT !.state = "CLOSED"])

=============================================================================
