-------------------------- MODULE TcpSessionMoves --------------------------
(***************************************************************************)
(* What the handlers of a session do to the fields that the stack and the  *)
(* application depend on: its state, its flag of the ready queue, its life *)
(* and its receive buffer.  TcpSessionProofs has the invariant that every  *)
(* handler preserves.                                                      *)
(***************************************************************************)
EXTENDS TcpSessionProofs

-----------------------------------------------------------------------------
(* What handlers leave alone.  No types are needed here: an EXCEPT changes *)
(* its own field and no other.                                             *)

\* The fields that the table, the queue, the loop and the reader depend on.
Watched == {"remote", "alive", "state", "is_in_ready_queue", "ooo_map",
            "user_want_to_close", "msl_timer", "recv_buffer"}

HasFields(s) == Watched \subseteq DOMAIN s

\* What sending, acknowledging and keeping timers leave alone.
Frame(r, s) ==
  /\ HasFields(r)
  /\ r.remote = s.remote /\ r.alive = s.alive /\ r.state = s.state
  /\ r.is_in_ready_queue = s.is_in_ready_queue /\ r.ooo_map = s.ooo_map
  /\ r.user_want_to_close = s.user_want_to_close /\ r.msl_timer = s.msl_timer
  /\ r.recv_buffer = s.recv_buffer

\* A session has the fields.
LEMMA SessionHasFields == ASSUME NEW s, SessionInv(s) PROVE HasFields(s)
BY DEF SessionInv, WellFormed, Session, HasFields, Watched

\* Frames compose.
LEMMA FrameTrans ==
  ASSUME NEW q, NEW r, NEW s, Frame(q, r), Frame(r, s) PROVE Frame(q, s)
BY DEF Frame

\* Sending a packet.
LEMMA SendPacketFrame ==
  ASSUME NEW s, HasFields(s), NEW dest, NEW packet
  PROVE  Frame(send_packet(s, dest, packet), s)
BY DEF send_packet, HasFields, Watched, Frame

\* Starting, stopping and dropping retransmission timers.
LEMMA TimerFrame ==
  ASSUME NEW s, HasFields(s), NEW x
  PROVE  /\ Frame(start_timer(s, x), s)
         /\ Frame(stop_timer(s, x), s)
         /\ Frame(drop_timer_up_to(s, x), s)
BY DEF start_timer, stop_timer, drop_timer_up_to, HasFields, Watched, Frame

\* A pure acknowledgement.
LEMMA PureAckFrame ==
  ASSUME NEW s, HasFields(s), NEW ack
  PROVE  Frame(send_pure_ack(s, ack), s)
BY SendPacketFrame DEF send_pure_ack

\* A SYN, FIN or RST.
LEMMA ControlFrame ==
  ASSUME NEW s, HasFields(s), NEW flags
  PROVE  Frame(send_control_packet(s, flags), s)
<1> DEFINE packet == Packet(s, flags, s.send_next, s.recv_next, <<>>)
           t == start_timer(s, [seq |-> s.send_next, flags |-> flags,
                                payload |-> <<>>, count |-> 0, dest |-> s.remote])
           u == [t EXCEPT !.send_next = Plus(@, 1)]
           v == IF flags \cap {"SYN", "FIN"} # {} THEN u ELSE s
<1>1. send_control_packet(s, flags) = send_packet(v, s.remote, packet)
  BY DEF send_control_packet
<1>2. HasFields(t) /\ Frame(t, s) /\ Frame(s, s)
  BY TimerFrame DEF Frame
<1> HIDE DEF t, packet
<1>3. Frame(u, t)
  BY <1>2 DEF HasFields, Watched, Frame
<1> HIDE DEF u
<1>4. HasFields(v) /\ Frame(v, s)
  BY <1>2, <1>3 DEF Frame
<1> HIDE DEF v
<1> QED
  BY <1>1, <1>4, SendPacketFrame, FrameTrans

\* A data packet.
LEMMA PayloadFrame ==
  ASSUME NEW s, HasFields(s), NEW payload, NEW flags
  PROVE  Frame(send_payload_packet(s, payload, flags), s)
<1> DEFINE packet == Packet(s, flags, s.send_next, s.recv_next, payload)
           t == start_timer(s, [seq |-> s.send_next, flags |-> flags,
                                payload |-> payload, count |-> 0, dest |-> DefaultAddr])
           key == htonl(s.send_next)
           v == IF \E p \in s.inflight_packets : p.key = key
                  THEN s.inflight_packets
                  ELSE s.inflight_packets
                         \cup {[key |-> key, flags |-> flags, payload |-> payload]}
           u == [t EXCEPT !.inflight_packets = v, !.send_next = Plus(@, Len(payload))]
<1>1. send_payload_packet(s, payload, flags)
        = IF payload = <<>> THEN s ELSE send_packet(u, s.remote, packet)
  BY DEF send_payload_packet
<1>2. HasFields(t) /\ Frame(t, s) /\ Frame(s, s)
  BY TimerFrame DEF Frame
<1> HIDE DEF t, packet, v
<1>3. HasFields(u) /\ Frame(u, t)
  BY <1>2 DEF HasFields, Watched, Frame
<1> HIDE DEF u
<1>4. Frame(send_packet(u, s.remote, packet), u)
  BY <1>3, SendPacketFrame
<1> QED
  BY <1>1, <1>2, <1>3, <1>4, FrameTrans

\* _handle_try_send.
LEMMA TrySendFrame ==
  ASSUME NEW s, HasFields(s)
  PROVE  Frame(handle_try_send(s), s)
<1>1. Frame(s, s)
  BY DEF Frame
<1> QED
  BY <1>1, PayloadFrame DEF handle_try_send

\* _handle_retransmit.
LEMMA RetransmitFrame ==
  ASSUME NEW s, HasFields(s), NEW timer
  PROVE  Frame(handle_retransmit(s, timer), s)
<1> DEFINE packet == Packet(s, timer.flags, timer.seq, s.recv_next, timer.payload)
           cwnd == s.send_window_size
           half == IF cwnd % 2 # 0 THEN Plus(cwnd, 1) \div 2 ELSE Plus(cwnd, 1)
           t == start_timer(s, [timer EXCEPT !.count = timer.count + 1])
           u == [t EXCEPT !.ssthresh = half, !.send_window_size = 1]
<1>1. handle_retransmit(s, timer)
        = IF timer.count + 1 >= MAX_RETRANSMIT_COUNT THEN stop_timer(s, timer.seq)
          ELSE send_packet(u, timer.dest, packet)
  BY DEF handle_retransmit
<1>2. HasFields(t) /\ Frame(t, s) /\ Frame(stop_timer(s, timer.seq), s)
  BY TimerFrame DEF Frame
<1> HIDE DEF t, packet, half
<1>3. HasFields(u) /\ Frame(u, t)
  BY <1>2 DEF HasFields, Watched, Frame
<1> HIDE DEF u
<1>4. Frame(send_packet(u, timer.dest, packet), u)
  BY <1>3, SendPacketFrame
<1> QED
  BY <1>1, <1>2, <1>3, <1>4, FrameTrans

\* _handle_ack.
LEMMA AckFrame ==
  ASSUME NEW s, HasFields(s), NEW packet
  PROVE  Frame(handle_ack(s, packet), s)
<1>1. \A q, ack : HasFields(q) => Frame(ReleaseAcked(q, ack), q)
  BY TimerFrame DEF ReleaseAcked, HasFields, Watched, Frame
<1>2. \A q, ack : HasFields(q) => Frame(CountAck(q, ack), q)
  BY DEF CountAck, HasFields, Watched, Frame
<1>3. \A q, ack : HasFields(q) => Frame(FastRetransmit(q, ack), q)
  <2> TAKE q, ack
  <2> HAVE HasFields(q)
  <2>1. Frame(on_recv_three_dup_ack(q, ack), q)
    BY TimerFrame, PayloadFrame DEF on_recv_three_dup_ack, Frame
  <2>2. Frame(q, q)
    BY DEF Frame
  <2> QED
    BY <2>1, <2>2 DEF FastRetransmit, HasFields, Watched, Frame
<1>4. \A q : HasFields(q) => Frame(GrowWindow(q), q)
  BY DEF GrowWindow, HasFields, Watched, Frame
<1>5. Frame(s, s)
  BY DEF Frame
<1> QED
  BY <1>1, <1>2, <1>3, <1>4, <1>5, TrySendFrame DEF handle_ack, Frame

\* TakeControlAck changes the state and nothing else.
LEMMA ControlAckFrame ==
  ASSUME NEW s, HasFields(s), NEW ack, NEW v
  PROVE  Frame(TakeControlAck(s, ack, v), [s EXCEPT !.state = v])
BY TimerFrame DEF TakeControlAck, HasFields, Watched, Frame

\* So does AcceptFin.
LEMMA FinFrame ==
  ASSUME NEW s, HasFields(s), NEW packet, NEW v
  PROVE  Frame(AcceptFin(s, packet, v), [s EXCEPT !.state = v])
<1> DEFINE a == [s EXCEPT !.recv_next = Plus(packet.seq, 1)]
           k == send_pure_ack(a, a.recv_next)
<1>1. HasFields(a) /\ Frame(a, s)
  BY DEF HasFields, Watched, Frame
<1> HIDE DEF a
<1>2. HasFields(k) /\ Frame(k, a)
  BY <1>1, PureAckFrame DEF Frame
<1> HIDE DEF k
<1>3. Frame([k EXCEPT !.state = v], [s EXCEPT !.state = v])
  BY <1>1, <1>2 DEF HasFields, Watched, Frame
<1> QED
  BY <1>3 DEF AcceptFin, a, k

-----------------------------------------------------------------------------
(* What each handler does to the state, the flag of the ready queue and    *)
(* the life of the session.                                                *)

\* The handler leaves the session in one of the states, in the table and in or
\* out of the queue as it was.
Moved(r, s, states) ==
  /\ HasFields(r) /\ r.state \in states
  /\ r.remote = s.remote /\ r.alive = s.alive
  /\ r.is_in_ready_queue = s.is_in_ready_queue
  /\ r.user_want_to_close = s.user_want_to_close
  /\ r.recv_buffer = s.recv_buffer

\* Only TIME_WAIT has a 2MSL timer, and no session waits there;
\* user_want_to_close_ is not set before close(), and stays set from then on.
Lifecycle(s) ==
  /\ s.msl_timer => s.state = "TIME_WAIT"
  /\ s.state \in Opening \cup {"ESTABLISHED"} => ~s.user_want_to_close
  /\ s.state \in {"FIN_WAIT_1", "FIN_WAIT_2", "LAST_ACK", "TIME_WAIT"}
       => s.user_want_to_close
  /\ s.is_in_ready_queue => s.state # "TIME_WAIT"

\* While the sockets are polled the application has closed no session that waits.
Polled(s) ==
  s.is_in_ready_queue =>
    s.state \in {"ESTABLISHED", "CLOSE_WAIT"} /\ ~s.user_want_to_close

\* An assignment to the state moves the session.
LEMMA StateMoves ==
  ASSUME NEW s, HasFields(s), NEW v
  PROVE  LET b == [s EXCEPT !.state = v]
         IN  Moved(b, s, {v}) /\ b.msl_timer = s.msl_timer /\ b.ooo_map = s.ooo_map
BY DEF HasFields, Watched, Moved

\* LISTEN: a SYN or nothing.
LEMMA ListenMoves ==
  ASSUME NEW s, HasFields(s), NEW packet, NEW iss
  PROVE  LET r == handle_listen(s, packet, iss)
         IN  Moved(r, s, {s.state, "SYN_RECEIVED"}) /\ r.msl_timer = s.msl_timer
<1> DEFINE b == [s EXCEPT !.send_next = iss, !.send_unack = iss,
                          !.recv_next = Plus(packet.seq, 1), !.state = "SYN_RECEIVED"]
           r == send_control_packet(b, {"SYN", "ACK"})
<1>1. handle_listen(s, packet, iss) \in {s, r}
  BY DEF handle_listen
<1>2. Moved(b, s, {"SYN_RECEIVED"}) /\ b.msl_timer = s.msl_timer
  BY DEF HasFields, Watched, Moved
<1> HIDE DEF b
<1>3. Frame(r, b)
  BY <1>2, ControlFrame DEF Moved
<1> HIDE DEF r
<1> QED
  BY <1>1, <1>2, <1>3 DEF Moved, Frame

\* SYN_SENT: a SYN-ACK, a SYN or nothing.
LEMMA SynSentMoves ==
  ASSUME NEW s, HasFields(s), NEW packet
  PROVE  LET r == handle_syn_sent(s, packet)
         IN  /\ Moved(r, s, {s.state, "ESTABLISHED", "SYN_RECEIVED"})
             /\ r.msl_timer = s.msl_timer
<1> DEFINE synced == [s EXCEPT !.recv_next = Plus(packet.seq, 1)]
           acked == send_pure_ack(synced, synced.recv_next)
           up == TakeControlAck(acked, packet.ack, "ESTABLISHED")
           both == [synced EXCEPT !.state = "SYN_RECEIVED"]
           tried == handle_try_send(up)
           sent == send_control_packet(both, {"SYN", "ACK"})
<1>1. handle_syn_sent(s, packet) \in {s, tried, sent}
  BY DEF handle_syn_sent
<1>2. HasFields(synced) /\ Frame(synced, s)
  BY DEF HasFields, Watched, Frame
<1> HIDE DEF synced
<1>3. HasFields(acked) /\ Frame(acked, s)
  BY <1>2, PureAckFrame, FrameTrans DEF Frame
<1> HIDE DEF acked
<1>4. Moved(up, s, {"ESTABLISHED"}) /\ up.msl_timer = s.msl_timer
  BY <1>3, StateMoves, ControlAckFrame DEF Moved, Frame
<1>5. Moved(both, s, {"SYN_RECEIVED"}) /\ both.msl_timer = s.msl_timer
  BY <1>2, StateMoves DEF Moved, Frame
<1> HIDE DEF up, both
<1>6. Frame(tried, up) /\ Frame(sent, both)
  BY <1>4, <1>5, TrySendFrame, ControlFrame DEF Moved
<1> HIDE DEF tried, sent
<1> QED
  BY <1>1, <1>4, <1>5, <1>6 DEF Moved, Frame

\* SYN_RECEIVED: the last ACK of the handshake or nothing.
LEMMA SynReceivedMoves ==
  ASSUME NEW s, HasFields(s), NEW packet
  PROVE  LET r == handle_syn_received(s, packet)
         IN  Moved(r, s, {s.state, "ESTABLISHED"}) /\ r.msl_timer = s.msl_timer
<1> DEFINE up == TakeControlAck(s, packet.ack, "ESTABLISHED")
           tried == handle_try_send(up)
<1>1. handle_syn_received(s, packet) \in {s, tried}
  BY DEF handle_syn_received
<1>2. Moved(up, s, {"ESTABLISHED"}) /\ up.msl_timer = s.msl_timer
  BY StateMoves, ControlAckFrame DEF Moved, Frame
<1> HIDE DEF up
<1>3. Frame(tried, up)
  BY <1>2, TrySendFrame DEF Moved
<1> HIDE DEF tried
<1> QED
  BY <1>1, <1>2, <1>3 DEF Moved, Frame

\* Like Moved, except that the receive buffer may have changed, if the packet is
\* the next one.
Took(r, s, next) ==
  /\ HasFields(r) /\ r.state = s.state
  /\ r.remote = s.remote /\ r.alive = s.alive
  /\ r.is_in_ready_queue = s.is_in_ready_queue
  /\ r.user_want_to_close = s.user_want_to_close /\ r.msl_timer = s.msl_timer
  /\ next \/ r.recv_buffer = s.recv_buffer

\* The receive window holds one byte, so nothing waits in ooo_map_ and taking a
\* packet disturbs nothing else.
LEMMA IncomingMoves ==
  ASSUME NEW s, HasFields(s), s.ooo_map = {}, NEW packet
  PROVE  Took(handle_incoming_packet(s, packet), s, InOrder(s, packet))
<1> DEFINE d == Deliverable(s, packet.payload)
           i == IF HasRoom(s.recv_buffer, packet.payload) THEN d ELSE s
           o == TakeOutOfOrder(s, packet)
           taken == IF InOrder(s, packet) THEN TakeInOrder(s, packet) ELSE o
           r == send_pure_ack(taken, taken.recv_next)
<1>0. handle_incoming_packet(s, packet) = r
  BY DEF handle_incoming_packet
<1>1. Took(i, s, TRUE) /\ i.ooo_map = {}
  <2>1. Took(d, s, TRUE) /\ Took(s, s, TRUE) /\ d.ooo_map = {}
    BY DEF Deliverable, HasFields, Watched, Took
  <2> HIDE DEF d
  <2> QED
    BY <2>1
<1> HIDE DEF i
<1>2. TakeInOrder(s, packet) = i
  BY <1>1 DEF TakeInOrder, DrainOooMap, i
<1>3. Took(o, s, FALSE)
  BY DEF TakeOutOfOrder, HasFields, Watched, Took
<1> HIDE DEF o
<1>4. Took(taken, s, InOrder(s, packet))
  <2>1. CASE InOrder(s, packet)
    BY <1>1, <1>2, <2>1 DEF Took
  <2>2. CASE ~InOrder(s, packet)
    BY <1>3, <2>2 DEF Took
  <2> QED
    BY <2>1, <2>2
<1> HIDE DEF taken
<1>5. Frame(r, taken)
  BY <1>4, PureAckFrame DEF Took
<1> HIDE DEF r
<1> QED
  BY <1>0, <1>4, <1>5 DEF Took, Frame

\* ESTABLISHED: data and a FIN queue the session, and nothing else happens to it.
LEMMA EstablishedMoves ==
  ASSUME NEW s, HasFields(s), s.ooo_map = {}, s.state = "ESTABLISHED", NEW packet
  PROVE  LET r == handle_established(s, packet)
         IN  /\ r.remote = s.remote /\ r.alive = s.alive /\ r.msl_timer = s.msl_timer
             /\ r.user_want_to_close = s.user_want_to_close
             /\ r.state \in {"ESTABLISHED", "CLOSE_WAIT"}
             /\ \/ r.is_in_ready_queue = TRUE
                \/ /\ r.is_in_ready_queue = s.is_in_ready_queue
                   /\ r.recv_buffer = s.recv_buffer /\ r.state = "ESTABLISHED"
<1> DEFINE h == handle_ack(s, packet)
           acked == IF Has(packet, "ACK") THEN handle_try_send(h) ELSE s
           taken == handle_incoming_packet(acked, packet)
           read == CASE packet.payload = <<>> -> acked
                     [] packet.payload # <<>> /\ InOrder(acked, packet) -> on_data_cb(taken)
                     [] OTHER -> taken
           fin == AcceptFin(read, packet, "CLOSE_WAIT")
           Same0(r) == /\ HasFields(r) /\ r.remote = s.remote /\ r.alive = s.alive
                       /\ r.msl_timer = s.msl_timer
                       /\ r.user_want_to_close = s.user_want_to_close
           Told(r) == \/ r.is_in_ready_queue = TRUE
                      \/ /\ r.is_in_ready_queue = s.is_in_ready_queue
                         /\ r.recv_buffer = s.recv_buffer
<1>1. handle_established(s, packet) = IF Has(packet, "FIN") THEN on_data_cb(fin) ELSE read
  BY DEF handle_established
<1>2. HasFields(acked) /\ Frame(acked, s)
  <2>1. Frame(h, s)
    BY AckFrame
  <2> HIDE DEF h
  <2>2. Frame(handle_try_send(h), s) /\ Frame(s, s)
    BY <2>1, TrySendFrame, FrameTrans DEF Frame
  <2> QED
    BY <2>2 DEF Frame
<1> HIDE DEF acked
<1>3. Took(taken, acked, InOrder(acked, packet))
  BY <1>2, IncomingMoves DEF Frame
<1> HIDE DEF taken
<1>4. ASSUME NEW q, Same0(q)
      PROVE  /\ Same0(on_data_cb(q)) /\ on_data_cb(q).state = q.state
             /\ on_data_cb(q).is_in_ready_queue = TRUE
  BY <1>4 DEF on_data_cb, HasFields, Watched
<1>5. /\ Same0(acked) /\ acked.state = s.state /\ Told(acked)
      /\ Same0(taken) /\ taken.state = s.state
      /\ InOrder(acked, packet) \/ Told(taken)
  BY <1>2, <1>3 DEF Took, Frame
<1> HIDE DEF Same0
<1>6. Same0(read) /\ read.state = s.state /\ Told(read)
  <2>1. CASE read = acked
    <3> HIDE DEF read
    <3> QED
      BY <1>5, <2>1
  <2>2. CASE read = on_data_cb(taken)
    <3> HIDE DEF read
    <3> QED
      BY <1>4, <1>5, <2>2
  <2>3. CASE read = taken /\ ~InOrder(acked, packet)
    <3> HIDE DEF read
    <3> QED
      BY <1>5, <2>3
  <2> QED
    BY <2>1, <2>2, <2>3
<1> HIDE DEF read, Told
<1>7. Same0(fin) /\ fin.state = "CLOSE_WAIT"
  <2> DEFINE b == [read EXCEPT !.state = "CLOSE_WAIT"]
  <2>1. Frame(fin, b)
    BY <1>6, FinFrame DEF Same0
  <2>2. Same0(b) /\ b.state = "CLOSE_WAIT"
    BY <1>6 DEF Same0, HasFields, Watched
  <2> HIDE DEF b, fin
  <2> QED
    BY <2>1, <2>2 DEF Frame, Same0
<1> HIDE DEF fin
<1>8. /\ Same0(on_data_cb(fin)) /\ on_data_cb(fin).state = "CLOSE_WAIT"
      /\ on_data_cb(fin).is_in_ready_queue = TRUE
  BY <1>4, <1>7
<1> QED
  BY <1>1, <1>6, <1>8 DEF Same0, Told

\* FIN_WAIT_1: the ACK of our FIN, the peer's FIN, both or nothing.
LEMMA FinWait1Moves ==
  ASSUME NEW s, HasFields(s), NEW packet
  PROVE  LET r == handle_fin_wait_1(s, packet)
         IN  /\ Moved(r, s, {s.state, "FIN_WAIT_2", "CLOSE_WAIT"})
             /\ r.msl_timer = s.msl_timer
<1> DEFINE t == TakeControlAck(s, packet.ack, "FIN_WAIT_2")
           acked == IF Has(packet, "ACK") /\ packet.ack = ExpectedAck(s) THEN t ELSE s
           fin == AcceptFin(acked, packet, "CLOSE_WAIT")
<1>1. handle_fin_wait_1(s, packet) \in {acked, fin}
  BY DEF handle_fin_wait_1
<1>2. Moved(t, s, {"FIN_WAIT_2"}) /\ t.msl_timer = s.msl_timer
  BY StateMoves, ControlAckFrame DEF Moved, Frame
<1> HIDE DEF t
<1>3. Moved(acked, s, {s.state, "FIN_WAIT_2"}) /\ acked.msl_timer = s.msl_timer
  BY <1>2 DEF Moved
<1> HIDE DEF acked
<1>4. Moved(fin, s, {"CLOSE_WAIT"}) /\ fin.msl_timer = s.msl_timer
  BY <1>3, StateMoves, FinFrame DEF Moved, Frame
<1> HIDE DEF fin
<1> QED
  BY <1>1, <1>3, <1>4 DEF Moved

\* FIN_WAIT_2 and TIME_WAIT: a FIN leads to TIME_WAIT.
LEMMA TimeWaitMoves ==
  ASSUME NEW s, HasFields(s), NEW packet
  PROVE  /\ LET r == handle_fin_wait_2(s, packet)
            IN  /\ Moved(r, s, {s.state, "TIME_WAIT"})
                /\ r.msl_timer = s.msl_timer \/ r.state = "TIME_WAIT"
         /\ LET r == handle_timed_wait(s, packet)
            IN  /\ Moved(r, s, {s.state, "TIME_WAIT"})
                /\ r.msl_timer = s.msl_timer
<1> DEFINE fin == AcceptFin(s, packet, "TIME_WAIT")
           timed == [fin EXCEPT !.msl_timer = TRUE]
<1>1. /\ handle_fin_wait_2(s, packet) \in {s, timed}
      /\ handle_timed_wait(s, packet) \in {s, fin}
  BY DEF handle_fin_wait_2, handle_timed_wait
<1>2. Moved(fin, s, {"TIME_WAIT"}) /\ fin.msl_timer = s.msl_timer
  BY StateMoves, FinFrame DEF Moved, Frame
<1> HIDE DEF fin
<1>3. Moved(timed, s, {"TIME_WAIT"})
  BY <1>2 DEF Moved, HasFields, Watched
<1> HIDE DEF timed
<1> QED
  BY <1>1, <1>2, <1>3 DEF Moved

\* CLOSE_WAIT: the late FIN of a session that wants to close.
LEMMA CloseWaitMoves ==
  ASSUME NEW s, HasFields(s), NEW packet
  PROVE  LET r == handle_close_wait(s, packet)
         IN  \/ Moved(r, s, {s.state}) /\ r.msl_timer = s.msl_timer
             \/ Moved(r, s, {"LAST_ACK"}) /\ s.user_want_to_close /\ r.msl_timer = FALSE
<1> DEFINE sent == send_pure_ack(s, s.recv_next)
           tried == handle_try_send(sent)
           stopped == stop_all_timers(tried)
           fin == send_control_packet(stopped, {"FIN"})
           last == [fin EXCEPT !.send_next = Plus(@, 1), !.state = "LAST_ACK"]
           over == /\ tried.user_want_to_close
                   /\ tried.send_buffer = <<>>
                   /\ tried.send_unack = tried.send_next
<1>1. handle_close_wait(s, packet) = IF over THEN last ELSE tried
  BY DEF handle_close_wait
<1>2. HasFields(sent) /\ Frame(sent, s)
  BY PureAckFrame DEF Frame
<1> HIDE DEF sent
<1>3. HasFields(tried) /\ Frame(tried, s)
  BY <1>2, TrySendFrame, FrameTrans DEF Frame
<1> HIDE DEF tried
<1>4. Moved(stopped, s, {s.state}) /\ stopped.msl_timer = FALSE
  BY <1>3 DEF stop_all_timers, HasFields, Watched, Moved, Frame
<1> HIDE DEF stopped
<1>5. Frame(fin, stopped)
  BY <1>4, ControlFrame DEF Moved
<1> HIDE DEF fin
<1>6. Moved(last, s, {"LAST_ACK"}) /\ last.msl_timer = FALSE
  BY <1>4, <1>5 DEF HasFields, Watched, Moved, Frame
<1> HIDE DEF last
<1>7. Moved(tried, s, {s.state}) /\ tried.msl_timer = s.msl_timer
  BY <1>3 DEF Moved, Frame
<1> QED
  BY <1>1, <1>3, <1>6, <1>7 DEF Frame

\* An erased session keeps its remote and no longer counts as queued.
LEMMA OnClosedMoves ==
  ASSUME NEW s
  PROVE  LET r == on_closed_cb(s)
         IN  /\ r.remote = s.remote /\ r.alive = FALSE /\ r.is_in_ready_queue = FALSE
             /\ r.state = "CLOSED" /\ r.recv_buffer = <<>>
BY DEF on_closed_cb, NewSession

\* connect().
LEMMA ConnectMoves ==
  ASSUME NEW s, HasFields(s), NEW iss
  PROVE  LET r == connect(s, iss)
         IN  Moved(r, s, {"SYN_SENT"}) /\ r.msl_timer = s.msl_timer
<1> DEFINE b == [s EXCEPT !.state = "SYN_SENT", !.send_next = iss, !.send_unack = iss]
           r == send_control_packet(b, {"SYN"})
<1>1. connect(s, iss) = r
  BY DEF connect
<1>2. Moved(b, s, {"SYN_SENT"}) /\ b.msl_timer = s.msl_timer
  BY DEF HasFields, Watched, Moved
<1> HIDE DEF b
<1>3. Frame(r, b)
  BY <1>2, ControlFrame DEF Moved
<1> HIDE DEF r
<1> QED
  BY <1>1, <1>2, <1>3 DEF Moved, Frame

\* The packets that a handler sent are taken from the session's record.
LEMMA SentSame ==
  ASSUME NEW s, SessionInv(s)
  PROVE  LET r == [s EXCEPT !.out = NothingSent]
         IN  /\ SessionInv(r) /\ Frame(r, s) /\ r.self = s.self
             /\ (Lifecycle(r) <=> Lifecycle(s)) /\ (Polled(r) <=> Polled(s))
<1> DEFINE r == [s EXCEPT !.out = NothingSent]
           S == Seq(myu_tcp_packet)
<1>1. NothingSent \in [Addr -> S]
  <2>1. <<>> \in S
    OBVIOUS
  <2> HIDE DEF S
  <2> QED
    BY <2>1 DEF NothingSent
<1>2. SessionInv(r)
  <2>1. ASSUME NEW o \in [Addr -> S] PROVE SessionInv([s EXCEPT !.out = o])
    BY DEF SessionInv, WellFormed, Session, DupInv, Quiet
  <2> QED
    BY <1>1, <2>1
<1>3. Frame(r, s) /\ r.self = s.self
  BY SessionHasFields DEF HasFields, Watched, Frame, SessionInv, WellFormed, Session
<1> HIDE DEF r
<1>4. (Lifecycle(r) <=> Lifecycle(s)) /\ (Polled(r) <=> Polled(s))
  BY <1>3 DEF Frame, Lifecycle, Polled
<1> QED
  BY <1>2, <1>3, <1>4 DEF r

\* close() moves the session on or back, and leaves the queue alone.
LEMMA CloseMoves ==
  ASSUME NEW s, HasFields(s)
  PROVE  LET r == close(s)
         IN  /\ HasFields(r) /\ r.remote = s.remote /\ r.alive = s.alive
             /\ r.is_in_ready_queue = s.is_in_ready_queue
             /\ Lifecycle(s) => Lifecycle(r)
<1> DEFINE Ends(r) == /\ HasFields(r) /\ r.remote = s.remote /\ r.alive = s.alive
                      /\ r.is_in_ready_queue = s.is_in_ready_queue
                      /\ Lifecycle(s) => Lifecycle(r)
<1>1. CASE s.state = "ESTABLISHED"
  <2> DEFINE tried == handle_try_send(s)
             b == [stop_all_timers(tried) EXCEPT !.state = "FIN_WAIT_1"]
             r == send_control_packet(b, {"FIN"})
             w == [r EXCEPT !.user_want_to_close = TRUE]
  <2>1. close(s) = w
    BY <1>1 DEF close
  <2>2. HasFields(tried) /\ Frame(tried, s)
    BY TrySendFrame DEF Frame
  <2> HIDE DEF tried
  <2>3. Moved(b, s, {"FIN_WAIT_1"}) /\ b.msl_timer = FALSE
    BY <2>2 DEF stop_all_timers, HasFields, Watched, Moved, Frame
  <2> HIDE DEF b
  <2>4. HasFields(r) /\ Frame(r, b)
    BY <2>3, ControlFrame DEF Moved, Frame
  <2> HIDE DEF r
  <2>5. /\ HasFields(w) /\ w.remote = s.remote /\ w.alive = s.alive
        /\ w.is_in_ready_queue = s.is_in_ready_queue
        /\ w.state = "FIN_WAIT_1" /\ w.msl_timer = FALSE /\ w.user_want_to_close = TRUE
    BY <2>3, <2>4 DEF HasFields, Watched, Moved, Frame
  <2> HIDE DEF w
  <2>6. Ends(w)
    BY <1>1, <2>5 DEF Lifecycle, Opening
  <2> QED
    BY <2>1, <2>6
<1>2. CASE s.state = "CLOSE_WAIT"
  <2> DEFINE b == [s EXCEPT !.state = "LAST_ACK"]
             r == send_control_packet(b, {"FIN", "ACK"})
             w == [r EXCEPT !.user_want_to_close = TRUE]
  <2>1. close(s) = w
    BY <1>2 DEF close
  <2>2. Moved(b, s, {"LAST_ACK"}) /\ b.msl_timer = s.msl_timer
    BY StateMoves
  <2> HIDE DEF b
  <2>3. HasFields(r) /\ Frame(r, b)
    BY <2>2, ControlFrame DEF Moved, Frame
  <2> HIDE DEF r
  <2>4. /\ HasFields(w) /\ w.remote = s.remote /\ w.alive = s.alive
        /\ w.is_in_ready_queue = s.is_in_ready_queue
        /\ w.state = "LAST_ACK" /\ w.msl_timer = s.msl_timer
        /\ w.user_want_to_close = TRUE
    BY <2>2, <2>3 DEF HasFields, Watched, Moved, Frame
  <2> HIDE DEF w
  <2>5. Ends(w)
    BY <1>2, <2>4 DEF Lifecycle, Opening
  <2> QED
    BY <2>1, <2>5
<1>3. CASE s.state \in {"SYN_SENT", "SYN_RECEIVED"}
  <2> DEFINE b == send_control_packet(s, {"RST"})
             w == [stop_all_timers(b) EXCEPT !.state = "CLOSED"]
  <2>1. close(s) = w
    BY <1>3 DEF close
  <2>2. HasFields(b) /\ Frame(b, s)
    BY ControlFrame DEF Frame
  <2> HIDE DEF b
  <2>3. /\ HasFields(w) /\ w.remote = s.remote /\ w.alive = s.alive
        /\ w.is_in_ready_queue = s.is_in_ready_queue
        /\ w.user_want_to_close = s.user_want_to_close
        /\ w.state = "CLOSED" /\ w.msl_timer = FALSE
    BY <2>2 DEF stop_all_timers, HasFields, Watched, Frame
  <2> HIDE DEF w
  <2>4. Ends(w)
    BY <1>3, <2>3 DEF Lifecycle, Opening
  <2> QED
    BY <2>1, <2>4
<1>4. CASE s.state \notin {"ESTABLISHED", "CLOSE_WAIT", "SYN_SENT", "SYN_RECEIVED"}
  BY <1>4 DEF close
<1> QED
  BY <1>1, <1>2, <1>3, <1>4

\* input(): a session that is still there is queued if it was, and one that has
\* ended has been reset or was in LAST_ACK.
LEMMA InputMoves ==
  ASSUME NEW s, SessionInv(s), s.alive, NEW packet, NEW iss
  PROVE  LET r == input(s, packet, iss)
         IN  /\ r.remote = s.remote
             /\ r.alive => /\ Lifecycle(s) /\ Polled(s) => Lifecycle(r) /\ Polled(r)
                           /\ s.is_in_ready_queue => r.is_in_ready_queue
             /\ ~r.alive => /\ ~r.is_in_ready_queue
                            /\ Has(packet, "RST") \/ s.state = "LAST_ACK"
<1> DEFINE p == [s EXCEPT !.peer_usable_window_size = packet.win]
           d == DispatchOnState(p, packet, iss)
           Lives(r) == /\ r.remote = s.remote /\ r.alive = s.alive
                       /\ Lifecycle(s) /\ Polled(s) => Lifecycle(r) /\ Polled(r)
                       /\ s.is_in_ready_queue => r.is_in_ready_queue
           Dies(r) == /\ r.remote = s.remote /\ ~r.alive /\ ~r.is_in_ready_queue
<1>1. HasFields(s) /\ s.ooo_map = {} /\ s.state \in TcpState
  BY SessionHasFields DEF SessionInv, WellFormed, Session
<1>2. \/ input(s, packet, iss) = s
      \/ input(s, packet, iss) = handle_reset(s) /\ Has(packet, "RST")
      \/ input(s, packet, iss) = d
  BY DEF input
<1>3. HasFields(p) /\ Frame(p, s)
  BY <1>1 DEF HasFields, Watched, Frame
<1> HIDE DEF p
<1>4. Lifecycle(s) /\ Polled(s) => Lifecycle(p) /\ Polled(p)
  BY <1>3 DEF Frame, Lifecycle, Polled
<1>5. Dies(handle_reset(s))
  <2>1. stop_all_timers(s).remote = s.remote
    BY <1>1 DEF stop_all_timers, HasFields, Watched
  <2> QED
    BY <2>1, OnClosedMoves DEF handle_reset
<1>6. Lives(d) \/ (Dies(d) /\ s.state = "LAST_ACK")
  <2> USE DEF Opening
  <2>1. CASE p.state = "CLOSED"
    <3> DEFINE c == [p EXCEPT !.user_want_to_close = FALSE]
    <3>1. d = c
      BY <2>1 DEF DispatchOnState
    <3>2. Lives(c)
      BY <1>3, <1>4, <2>1 DEF HasFields, Watched, Frame, Lifecycle, Polled
    <3> QED
      BY <3>1, <3>2
  <2>2. CASE p.state = "LISTEN"
    <3>1. Moved(d, p, {p.state, "SYN_RECEIVED"}) /\ d.msl_timer = p.msl_timer
      BY <1>3, <2>2, ListenMoves DEF DispatchOnState
    <3> HIDE DEF d
    <3> QED
      BY <1>3, <1>4, <2>2, <3>1 DEF Moved, Frame, Lifecycle, Polled
  <2>3. CASE p.state = "SYN_SENT"
    <3>1. /\ Moved(d, p, {p.state, "ESTABLISHED", "SYN_RECEIVED"})
          /\ d.msl_timer = p.msl_timer
      BY <1>3, <2>3, SynSentMoves DEF DispatchOnState
    <3> HIDE DEF d
    <3> QED
      BY <1>3, <1>4, <2>3, <3>1 DEF Moved, Frame, Lifecycle, Polled
  <2>4. CASE p.state = "SYN_RECEIVED"
    <3>1. Moved(d, p, {p.state, "ESTABLISHED"}) /\ d.msl_timer = p.msl_timer
      BY <1>3, <2>4, SynReceivedMoves DEF DispatchOnState
    <3> HIDE DEF d
    <3> QED
      BY <1>3, <1>4, <2>4, <3>1 DEF Moved, Frame, Lifecycle, Polled
  <2>5. CASE p.state = "ESTABLISHED"
    <3>1. d = handle_established(p, packet)
      BY <2>5 DEF DispatchOnState
    <3>2. p.ooo_map = {}
      BY <1>1, <1>3 DEF Frame
    <3> HIDE DEF d
    <3>3. /\ d.remote = p.remote /\ d.alive = p.alive /\ d.msl_timer = p.msl_timer
          /\ d.user_want_to_close = p.user_want_to_close
          /\ d.is_in_ready_queue \in {p.is_in_ready_queue, TRUE}
          /\ d.state \in {"ESTABLISHED", "CLOSE_WAIT"}
      BY <1>3, <2>5, <3>1, <3>2, EstablishedMoves
    <3> QED
      BY <1>3, <1>4, <2>5, <3>3 DEF Frame, Lifecycle, Polled
  <2>6. CASE p.state = "FIN_WAIT_1"
    <3>1. /\ Moved(d, p, {p.state, "FIN_WAIT_2", "CLOSE_WAIT"})
          /\ d.msl_timer = p.msl_timer
      BY <1>3, <2>6, FinWait1Moves DEF DispatchOnState
    <3> HIDE DEF d
    <3> QED
      BY <1>3, <1>4, <2>6, <3>1 DEF Moved, Frame, Lifecycle, Polled
  <2>7. CASE p.state = "FIN_WAIT_2"
    <3>1. /\ Moved(d, p, {p.state, "TIME_WAIT"})
          /\ d.msl_timer = p.msl_timer \/ d.state = "TIME_WAIT"
      BY <1>3, <2>7, TimeWaitMoves DEF DispatchOnState
    <3> HIDE DEF d
    <3> QED
      BY <1>3, <1>4, <2>7, <3>1 DEF Moved, Frame, Lifecycle, Polled
  <2>8. CASE p.state = "CLOSE_WAIT"
    <3>1. \/ Moved(d, p, {p.state}) /\ d.msl_timer = p.msl_timer
          \/ Moved(d, p, {"LAST_ACK"}) /\ p.user_want_to_close /\ d.msl_timer = FALSE
      BY <1>3, <2>8, CloseWaitMoves DEF DispatchOnState
    <3> HIDE DEF d
    <3> QED
      BY <1>3, <1>4, <2>8, <3>1 DEF Moved, Frame, Lifecycle, Polled
  <2>9. CASE p.state = "LAST_ACK"
    <3> DEFINE t == TakeControlAck(p, packet.ack, "CLOSED")
    <3>1. d \in {p, on_closed_cb(t)}
      BY <2>9 DEF DispatchOnState, handle_last_ack
    <3>2. t.remote = s.remote
      BY <1>3, StateMoves, ControlAckFrame DEF Moved, Frame
    <3> HIDE DEF t, d
    <3>3. Dies(on_closed_cb(t))
      BY <3>2, OnClosedMoves
    <3>4. s.state = "LAST_ACK"
      BY <1>3, <2>9 DEF Frame
    <3>5. Lives(p)
      BY <1>3, <1>4 DEF Frame
    <3> HIDE DEF Lives, Dies
    <3> QED
      BY <3>1, <3>3, <3>4, <3>5
  <2>10. CASE p.state = "TIME_WAIT"
    <3>1. Moved(d, p, {p.state, "TIME_WAIT"}) /\ d.msl_timer = p.msl_timer
      BY <1>3, <2>10, TimeWaitMoves DEF DispatchOnState
    <3> HIDE DEF d
    <3> QED
      BY <1>3, <1>4, <2>10, <3>1 DEF Moved, Frame, Lifecycle, Polled
  <2>11. p.state \in TcpState
    BY <1>1, <1>3 DEF Frame
  <2> HIDE DEF Lives, Dies, d
  <2> QED
    BY <2>1, <2>2, <2>3, <2>4, <2>5, <2>6, <2>7, <2>8, <2>9, <2>10, <2>11 DEF TcpState
<1>7. Lives(s)
  OBVIOUS
<1> HIDE DEF d
<1> QED
  BY <1>2, <1>5, <1>6, <1>7

-----------------------------------------------------------------------------
(* Waking the application.                                                 *)

\* A session whose application has something to read, data or the end of the
\* stream, counts as queued; for this, FIN_WAIT_1, from which a FIN leads to
\* CLOSE_WAIT without a wake-up, has to be the work of close().
Awake(s) ==
  /\ s.state = "FIN_WAIT_1" => s.user_want_to_close
  /\ s.recv_buffer # <<>> => s.is_in_ready_queue
  /\ s.state = "CLOSE_WAIT" /\ ~s.user_want_to_close /\ auto_close_on_eof
       => s.is_in_ready_queue

\* What happens to a buffer from which the application takes bytes.
LEMMA EmptyQueue == \A n \in Nat : pop_front(<<>>, n) = <<>>
<1> TAKE n \in Nat
<1>1. pop_front(<<>>, n) \in Seq(Byte) /\ Len(pop_front(<<>>, n)) <= Len(<<>>)
  <2>1. <<>> \in Seq(Byte)
    OBVIOUS
  <2> QED
    BY <2>1, QueueType
<1> QED
  BY <1>1

\* close() does not disturb a session that is awake.
LEMMA CloseAwake ==
  ASSUME NEW s, HasFields(s)
  PROVE  LET r == close(s)
         IN  /\ r.is_in_ready_queue = s.is_in_ready_queue
             /\ r.recv_buffer = s.recv_buffer
             /\ \/ r = s /\ s.state # "CLOSE_WAIT"
                \/ r.state = "FIN_WAIT_1" /\ r.user_want_to_close = TRUE
                \/ r.state \in {"LAST_ACK", "CLOSED"}
<1> DEFINE Ends(r) == /\ r.is_in_ready_queue = s.is_in_ready_queue
                      /\ r.recv_buffer = s.recv_buffer
<1>1. CASE s.state = "ESTABLISHED"
  <2> DEFINE tried == handle_try_send(s)
             b == [stop_all_timers(tried) EXCEPT !.state = "FIN_WAIT_1"]
             r == send_control_packet(b, {"FIN"})
             w == [r EXCEPT !.user_want_to_close = TRUE]
  <2>1. close(s) = w
    BY <1>1 DEF close
  <2>2. HasFields(tried) /\ Frame(tried, s)
    BY TrySendFrame DEF Frame
  <2> HIDE DEF tried
  <2>3. Moved(b, s, {"FIN_WAIT_1"})
    BY <2>2 DEF stop_all_timers, HasFields, Watched, Moved, Frame
  <2> HIDE DEF b
  <2>4. HasFields(r) /\ Frame(r, b)
    BY <2>3, ControlFrame DEF Moved, Frame
  <2> HIDE DEF r
  <2>5. Ends(w) /\ w.state = "FIN_WAIT_1" /\ w.user_want_to_close = TRUE
    BY <2>3, <2>4 DEF HasFields, Watched, Moved, Frame
  <2> QED
    BY <2>1, <2>5
<1>2. CASE s.state = "CLOSE_WAIT"
  <2> DEFINE b == [s EXCEPT !.state = "LAST_ACK"]
             r == send_control_packet(b, {"FIN", "ACK"})
             w == [r EXCEPT !.user_want_to_close = TRUE]
  <2>1. close(s) = w
    BY <1>2 DEF close
  <2>2. Moved(b, s, {"LAST_ACK"})
    BY StateMoves
  <2> HIDE DEF b
  <2>3. HasFields(r) /\ Frame(r, b)
    BY <2>2, ControlFrame DEF Moved, Frame
  <2> HIDE DEF r
  <2>4. Ends(w) /\ w.state = "LAST_ACK"
    BY <2>2, <2>3 DEF HasFields, Watched, Moved, Frame
  <2> QED
    BY <2>1, <2>4
<1>3. CASE s.state \in {"SYN_SENT", "SYN_RECEIVED"}
  <2> DEFINE b == send_control_packet(s, {"RST"})
             w == [stop_all_timers(b) EXCEPT !.state = "CLOSED"]
  <2>1. close(s) = w
    BY <1>3 DEF close
  <2>2. HasFields(b) /\ Frame(b, s)
    BY ControlFrame DEF Frame
  <2> HIDE DEF b
  <2>3. Ends(w) /\ w.state = "CLOSED"
    BY <2>2 DEF stop_all_timers, HasFields, Watched, Frame
  <2> QED
    BY <2>1, <2>3
<1>4. CASE s.state \notin {"ESTABLISHED", "CLOSE_WAIT", "SYN_SENT", "SYN_RECEIVED"}
  BY <1>4 DEF close
<1> QED
  BY <1>1, <1>2, <1>3, <1>4

\* recv() leaves what is still to be read, and the flag, as they are.
LEMMA RecvAwake ==
  ASSUME NEW s, HasFields(s), Awake(s), NEW n \in Nat
  PROVE  Awake(recv(s, n))
<1> DEFINE rest == [s EXCEPT !.recv_buffer = pop_front(@, n)]
<1>1. recv(s, n) \in {rest, close(rest)}
  BY DEF recv
<1>2. HasFields(rest) /\ Awake(rest)
  BY EmptyQueue DEF HasFields, Watched, Awake
<1> HIDE DEF rest
<1>3. Awake(close(rest))
  BY <1>2, CloseAwake DEF Awake
<1> QED
  BY <1>1, <1>2, <1>3

\* A session that has left the queue is read to the end, and closed at the end of
\* the stream, so nothing is left to wait for.
LEMMA ReadAllAwake ==
  ASSUME NEW s, SessionInv(s), Awake(s)
  PROVE  Awake(read_all([s EXCEPT !.is_in_ready_queue = FALSE]))
<1> DEFINE q == [s EXCEPT !.is_in_ready_queue = FALSE]
           n == Len(q.recv_buffer)
           rest == [q EXCEPT !.recv_buffer = pop_front(@, n)]
<1>1. /\ HasFields(q) /\ q.recv_buffer = s.recv_buffer /\ q.state = s.state
      /\ q.state = "FIN_WAIT_1" => q.user_want_to_close
  BY SessionHasFields DEF HasFields, Watched, Awake
<1>2. q.recv_buffer \in Seq(Byte) /\ n \in Nat
  BY <1>1 DEF SessionInv, WellFormed, Session
<1>3. pop_front(q.recv_buffer, n) = <<>>
  BY <1>2 DEF pop_front
<1> HIDE DEF q, n
<1>4. /\ HasFields(rest) /\ rest.recv_buffer = <<>> /\ rest.state = q.state
      /\ rest.state = "FIN_WAIT_1" => rest.user_want_to_close
  BY <1>1, <1>3 DEF HasFields, Watched
<1>5. read_all(q) = IF rest.state = "CLOSE_WAIT" /\ auto_close_on_eof THEN close(rest)
                                                                   ELSE rest
  BY <1>4 DEF read_all, recv, n
<1> HIDE DEF rest
<1>6. CASE rest.state = "CLOSE_WAIT" /\ auto_close_on_eof
  BY <1>4, <1>5, <1>6, CloseAwake DEF Awake, q
<1>7. CASE ~(rest.state = "CLOSE_WAIT" /\ auto_close_on_eof)
  BY <1>4, <1>5, <1>7 DEF Awake, q
<1> QED
  BY <1>6, <1>7

\* input() wakes the application for everything that it takes.
LEMMA InputAwake ==
  ASSUME NEW s, SessionInv(s), Awake(s), NEW packet, NEW iss
  PROVE  Awake(input(s, packet, iss))
<1> DEFINE p == [s EXCEPT !.peer_usable_window_size = packet.win]
           d == DispatchOnState(p, packet, iss)
<1>1. HasFields(s) /\ s.ooo_map = {} /\ s.state \in TcpState
  BY SessionHasFields DEF SessionInv, WellFormed, Session
<1>2. input(s, packet, iss) \in {s, handle_reset(s), d}
  BY DEF input
<1>3. HasFields(p) /\ Frame(p, s)
  BY <1>1 DEF HasFields, Watched, Frame
<1> HIDE DEF p
<1>4. Awake(p)
  BY <1>3 DEF Frame, Awake
<1>5. Awake(handle_reset(s))
  BY OnClosedMoves DEF handle_reset, Awake
<1>6. Awake(d)
  <2>1. CASE p.state = "CLOSED"
    BY <1>3, <1>4, <2>1 DEF DispatchOnState, HasFields, Watched, Awake
  <2>2. CASE p.state = "LISTEN"
    <3>1. Moved(d, p, {p.state, "SYN_RECEIVED"})
      BY <1>3, <2>2, ListenMoves DEF DispatchOnState
    <3> HIDE DEF d
    <3> QED
      BY <1>4, <2>2, <3>1 DEF Moved, Awake
  <2>3. CASE p.state = "SYN_SENT"
    <3>1. Moved(d, p, {p.state, "ESTABLISHED", "SYN_RECEIVED"})
      BY <1>3, <2>3, SynSentMoves DEF DispatchOnState
    <3> HIDE DEF d
    <3> QED
      BY <1>4, <2>3, <3>1 DEF Moved, Awake
  <2>4. CASE p.state = "SYN_RECEIVED"
    <3>1. Moved(d, p, {p.state, "ESTABLISHED"})
      BY <1>3, <2>4, SynReceivedMoves DEF DispatchOnState
    <3> HIDE DEF d
    <3> QED
      BY <1>4, <2>4, <3>1 DEF Moved, Awake
  <2>5. CASE p.state = "ESTABLISHED"
    <3>1. d = handle_established(p, packet) /\ p.ooo_map = {}
      BY <1>1, <1>3, <2>5 DEF DispatchOnState, Frame
    <3> HIDE DEF d
    <3>2. /\ d.state \in {"ESTABLISHED", "CLOSE_WAIT"}
          /\ \/ d.is_in_ready_queue = TRUE
             \/ /\ d.is_in_ready_queue = p.is_in_ready_queue
                /\ d.recv_buffer = p.recv_buffer /\ d.state = "ESTABLISHED"
      BY <1>3, <2>5, <3>1, EstablishedMoves
    <3> QED
      BY <1>4, <3>2 DEF Awake
  <2>6. CASE p.state = "FIN_WAIT_1"
    <3>1. Moved(d, p, {p.state, "FIN_WAIT_2", "CLOSE_WAIT"})
      BY <1>3, <2>6, FinWait1Moves DEF DispatchOnState
    <3> HIDE DEF d
    <3> QED
      BY <1>4, <2>6, <3>1 DEF Moved, Awake
  <2>7. CASE p.state = "FIN_WAIT_2"
    <3>1. Moved(d, p, {p.state, "TIME_WAIT"})
      BY <1>3, <2>7, TimeWaitMoves DEF DispatchOnState
    <3> HIDE DEF d
    <3> QED
      BY <1>4, <2>7, <3>1 DEF Moved, Awake
  <2>8. CASE p.state = "CLOSE_WAIT"
    <3>1. Moved(d, p, {p.state}) \/ Moved(d, p, {"LAST_ACK"})
      BY <1>3, <2>8, CloseWaitMoves DEF DispatchOnState
    <3> HIDE DEF d
    <3> QED
      BY <1>4, <2>8, <3>1 DEF Moved, Awake
  <2>9. CASE p.state = "LAST_ACK"
    <3> DEFINE t == TakeControlAck(p, packet.ack, "CLOSED")
    <3>1. d \in {p, on_closed_cb(t)}
      BY <2>9 DEF DispatchOnState, handle_last_ack
    <3> HIDE DEF t, d
    <3>2. Awake(on_closed_cb(t))
      BY OnClosedMoves DEF Awake
    <3> QED
      BY <1>4, <3>1, <3>2
  <2>10. CASE p.state = "TIME_WAIT"
    <3>1. Moved(d, p, {p.state, "TIME_WAIT"})
      BY <1>3, <2>10, TimeWaitMoves DEF DispatchOnState
    <3> HIDE DEF d
    <3> QED
      BY <1>4, <2>10, <3>1 DEF Moved, Awake
  <2>11. p.state \in TcpState
    BY <1>1, <1>3 DEF Frame
  <2> HIDE DEF d
  <2> QED
    BY <2>1, <2>2, <2>3, <2>4, <2>5, <2>6, <2>7, <2>8, <2>9, <2>10, <2>11 DEF TcpState
<1> HIDE DEF d
<1> QED
  BY <1>2, <1>5, <1>6

\* Every other call and callback of the session.
LEMMA OthersAwake ==
  ASSUME NEW s, HasFields(s), Awake(s)
  PROVE  /\ \A iss : Awake(connect(s, iss))
         /\ \A data : Awake(send(s, data))
         /\ \A t : Awake(handle_retransmit(s, t))
         /\ Awake(close(s)) /\ Awake(listen(s)) /\ Awake(handle_2msl_timeout(s))
<1>1. \A iss : Awake(connect(s, iss))
  BY ConnectMoves DEF Moved, Awake
<1>2. \A data : Awake(send(s, data))
  <2> TAKE data
  <2> DEFINE b == [s EXCEPT !.send_buffer = push_batch(@, Writable(s, data))]
  <2>1. HasFields(b) /\ Frame(b, s)
    BY DEF HasFields, Watched, Frame
  <2>2. send(s, data) \in {s, handle_try_send(b)}
    BY DEF send
  <2> HIDE DEF b
  <2>3. Frame(handle_try_send(b), s)
    BY <2>1, TrySendFrame, FrameTrans
  <2>4. Awake(handle_try_send(b))
    BY <2>3 DEF Frame, Awake
  <2> QED
    BY <2>2, <2>4
<1>3. \A t : Awake(handle_retransmit(s, t))
  BY RetransmitFrame DEF Frame, Awake
<1>4. Awake(close(s))
  BY CloseAwake DEF Awake
<1>5. Awake(listen(s))
  BY StateMoves DEF listen, HasFields, Watched, Awake
<1>6. Awake(handle_2msl_timeout(s))
  BY OnClosedMoves DEF handle_2msl_timeout, Awake
<1> QED
  BY <1>1, <1>2, <1>3, <1>4, <1>5, <1>6

\* A new session has nothing to read.
LEMMA NewSessionAwake ==
  \A self, remote, i : Awake(NewSession(self, remote, i))
BY DEF NewSession, Awake

=============================================================================
