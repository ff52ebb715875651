-------------------------- MODULE TcpSessionStream --------------------------
(***************************************************************************)
(* The numbers of a session and what it puts into packets.  A session that *)
(* sends data names every byte by its position after the initial sequence  *)
(* number; the lemmas below follow this through every handler, and through *)
(* the timers and datagrams that outlive the state in which they were made *)
(* (TcpConnectionProofs composes them).                                    *)
(***************************************************************************)
EXTENDS TcpSessionMoves

-----------------------------------------------------------------------------
(* Words.                                                                  *)

\* The difference of two words.
LEMMA MinusWord ==
  ASSUME NEW x \in Word, NEW i \in Word
  PROVE  /\ Minus(x, i) = IF x >= i THEN x - i ELSE x - i + SeqMod
         /\ x \in Nat /\ x < SeqMod /\ SeqMod \in Nat \ {0}
<1>1. SeqMod \in Nat \ {0}
  BY WordArith
<1>2. x \in Nat /\ i \in Nat /\ x < SeqMod /\ i < SeqMod
  BY <1>1 DEF Word
<1>3. \A z \in Int, m \in Nat : 0 <= z /\ z < m => z % m = z
  OBVIOUS
<1>4. \A z \in Int, m \in Nat : 0 - m <= z /\ z < 0 => z % m = z + m
  OBVIOUS
<1>5. CASE x >= i
  <2>1. (x - i) % SeqMod = x - i
    BY <1>1, <1>2, <1>3, <1>5
  <2> QED
    BY <1>1, <1>2, <1>5, <2>1 DEF Minus
<1>6. CASE ~(x >= i)
  <2>1. (x - i) % SeqMod = x - i + SeqMod
    BY <1>1, <1>2, <1>4, <1>6
  <2> QED
    BY <1>1, <1>2, <1>6, <2>1 DEF Minus
<1> QED
  BY <1>5, <1>6

\* The sum of a word and a smaller number than 2^32.
LEMMA PlusWord ==
  ASSUME NEW x \in Word, NEW k \in Nat, k < SeqMod
  PROVE  /\ Plus(x, k) = IF x + k < SeqMod THEN x + k ELSE x + k - SeqMod
         /\ Plus(x, k) \in Word
<1>1. SeqMod \in Nat \ {0}
  BY WordArith
<1>2. x \in Nat /\ x < SeqMod
  BY <1>1 DEF Word
<1>3. \A z \in Nat, m \in Nat : z < m => z % m = z
  OBVIOUS
<1>4. Plus(x, k) \in Word
  BY <1>2, WordArith
<1>5. CASE x + k < SeqMod
  BY <1>1, <1>2, <1>3, <1>4, <1>5 DEF Plus
<1>6. CASE ~(x + k < SeqMod)
  <2>1. x + k \in Nat /\ SeqMod <= x + k /\ x + k < SeqMod + SeqMod
    BY <1>1, <1>2, <1>6
  <2>2. \A z \in Nat : SeqMod <= z /\ z < SeqMod + SeqMod => z % SeqMod = z - SeqMod
    BY <1>1
  <2>3. (x + k) % SeqMod = (x + k) - SeqMod
    <3> DEFINE z == x + k
    <3>1. z \in Nat /\ SeqMod <= z /\ z < SeqMod + SeqMod
      BY <2>1
    <3> HIDE DEF z
    <3>2. z % SeqMod = z - SeqMod
      BY <2>2, <3>1
    <3> QED
      BY <3>2 DEF z
  <2>4. Plus(x, k) = (x + k) - SeqMod
    BY <2>3 DEF Plus
  <2> QED
    BY <1>1, <1>2, <1>4, <1>6, <2>4
<1> QED
  BY <1>5, <1>6

\* The distance of a word from the initial sequence number i.
Off(i, x) == Minus(x, i)

\* Distances are words, 0 for i itself and different for different words; a word
\* k further on is at a distance larger by k, as long as that is below 2^32.
LEMMA OffArith ==
  ASSUME NEW i \in Word, NEW x \in Word
  PROVE  /\ Off(i, x) \in Nat /\ Off(i, x) < SeqMod /\ Off(i, i) = 0
         /\ \A k \in Nat : Off(i, x) + k < SeqMod =>
              Plus(x, k) \in Word /\ Off(i, Plus(x, k)) = Off(i, x) + k
         /\ \A y \in Word : /\ Off(i, x) = Off(i, y) => x = y
                            /\ Minus(y, x) \in Nat /\ Minus(y, x) < SeqMod
                            /\ Off(i, x) <= Off(i, y) => Minus(y, x) = Off(i, y) - Off(i, x)
                            /\ Off(i, x) + Minus(y, x) < SeqMod
                                 => Off(i, y) = Off(i, x) + Minus(y, x)
<1>1. SeqMod \in Nat \ {0} /\ i \in Nat /\ i < SeqMod /\ x \in Nat /\ x < SeqMod
  BY MinusWord
<1>2. \A y \in Word :
        /\ y \in Nat /\ y < SeqMod
        /\ Off(i, y) = IF y >= i THEN y - i ELSE y - i + SeqMod
        /\ Minus(y, x) = IF y >= x THEN y - x ELSE y - x + SeqMod
  BY MinusWord DEF Off
<1>3. ASSUME NEW k \in Nat, Off(i, x) + k < SeqMod
      PROVE  Plus(x, k) \in Word /\ Off(i, Plus(x, k)) = Off(i, x) + k
  <2>1. k < SeqMod
    BY <1>1, <1>2, <1>3
  <2>2. /\ Plus(x, k) \in Word
        /\ Plus(x, k) = IF x + k < SeqMod THEN x + k ELSE x + k - SeqMod
    BY <2>1, PlusWord
  <2> QED
    BY <1>1, <1>2, <1>3, <2>1, <2>2
<1> QED
  BY <1>1, <1>2, <1>3

\* The plain comparisons of AckAcceptable find a word between two others, even
\* if the numbers wrap in between: they only miss some that are.
LEMMA OffBetween ==
  ASSUME NEW i \in Word, NEW x \in Word, NEW y \in Word, NEW z \in Word, x < y, y <= z
  PROVE  /\ Minus(z, x) = Minus(y, x) + Minus(z, y)
         /\ Minus(y, x) > 0
         /\ Off(i, x) <= Off(i, z) =>
              Off(i, y) = Off(i, x) + Minus(y, x) /\ Off(i, y) <= Off(i, z)
<1>1. SeqMod \in Nat \ {0} /\ i \in Nat /\ i < SeqMod /\ x \in Nat /\ x < SeqMod
      /\ y \in Nat /\ y < SeqMod /\ z \in Nat /\ z < SeqMod
  BY MinusWord
<1>2. /\ Off(i, x) = IF x >= i THEN x - i ELSE x - i + SeqMod
      /\ Off(i, y) = IF y >= i THEN y - i ELSE y - i + SeqMod
      /\ Off(i, z) = IF z >= i THEN z - i ELSE z - i + SeqMod
      /\ Minus(y, x) = y - x /\ Minus(z, x) = z - x /\ Minus(z, y) = z - y
  BY <1>1, MinusWord DEF Off
<1> QED
  BY <1>1, <1>2
-----------------------------------------------------------------------------
(* The numbers of a session.                                               *)

\* The states in which a session sends its data in order.  After a simultaneous
\* close it sends data too, but beyond the number of its FIN.
Streaming(s) ==
  s.state = "ESTABLISHED" \/ (s.state = "CLOSE_WAIT" /\ ~s.user_want_to_close)

\* What is in flight: a SYN during the handshake, later what the buffer holds.
Flight(s) ==
  /\ s.alive \/ s.state = "CLOSED"
  /\ s.state \in {"SYN_SENT", "SYN_RECEIVED"} => s.send_next = Plus(s.send_unack, 1)
  /\ Streaming(s) => Minus(s.send_next, s.send_unack) <= Len(s.send_buffer)
  /\ s.state \in Opening \cup {"ESTABLISHED"} => ~s.user_want_to_close
  /\ s.state = "FIN_WAIT_1" => s.user_want_to_close

\* A pledge b says what the packets of a session may contain: i is its initial
\* sequence number, A the number of bytes that it has accepted, m their bound, I
\* the numbers that its data may count from; data is a part of the first g bytes
\* in its place, or lies between g and h.  The sets syn and open hold the numbers
\* and destinations of its SYNs, joins the numbers of its SYN-ACKs and acks its
\* acknowledgements; fin and rst say whether it may send these flags.  If any,
\* nothing is said of what its data is.  The set ends holds the numbers at which
\* its data packets may end: any, except where Ending says otherwise.
Pledge(b) ==
  /\ b.any \in BOOLEAN /\ b.i \in Word /\ b.A \in Nat /\ b.m \in Nat
  /\ b.I \subseteq Word /\ b.g \in Int /\ b.h \in Int /\ b.m + 2 < SeqMod
  /\ b.ends = Word

\* The position of the last byte that has been sent.
Top(s, b) == Off(b.i, s.send_next) - 1

\* The buffer holds the last bytes that were accepted, and send_unack_ is the
\* number of its first one.  A FIN takes a number without a byte.
Numbered(s, b) ==
  LET l == Len(s.send_buffer)
      u == Off(b.i, s.send_unack)
      n == Off(b.i, s.send_next)
  IN  s.alive =>
        /\ l <= b.A /\ b.A <= b.m
        /\ \A x \in 1..l : s.send_buffer[x] = b.A - l + x
        /\ s.state \in Opening => l = b.A
        /\ s.state \in {"SYN_SENT", "SYN_RECEIVED"} => s.send_unack = b.i
        /\ Streaming(s) => u = 1 + b.A - l
        /\ s.state = "FIN_WAIT_1" => u + l <= b.A + 1 /\ u + 1 <= n /\ n <= b.A + 2
        /\ s.state = "CLOSE_WAIT" /\ s.user_want_to_close
             => u + l <= b.A + 2 /\ u <= n /\ 1 <= n /\ n <= b.A + 2

-----------------------------------------------------------------------------
(* The packets of a session.                                               *)

\* Data is in its place.
DataOK(b, seq, payload) ==
  /\ Plus(seq, Len(payload)) \in b.ends
  /\ \/ b.any
     \/ \E i \in b.I :
          LET k == Off(i, seq) - 1
          IN  /\ k >= 0
              /\ \/ k + Len(payload) <= b.g /\ \A x \in 1..Len(payload) : payload[x] = k + x
                 \/ b.g < k /\ k + Len(payload) <= b.h

\* What a running timer will send again.
TimerOK(b, t) ==
  /\ "SYN" \in t.flags /\ "ACK" \notin t.flags => t.seq \in b.syn /\ t.dest \in b.open
  /\ {"SYN", "ACK"} \subseteq t.flags => t.seq \in b.joins
  /\ t.payload # <<>> => DataOK(b, t.seq, t.payload)
  /\ "ACK" \in t.flags => b.acks # {}
  /\ "FIN" \in t.flags => b.fin
  /\ "RST" \notin t.flags

\* A packet for d.
PacketOK(b, d, p) ==
  /\ "SYN" \in p.flags /\ "ACK" \notin p.flags => p.seq \in b.syn /\ d \in b.open
  /\ {"SYN", "ACK"} \subseteq p.flags => p.seq \in b.joins
  /\ p.payload # <<>> => DataOK(b, p.seq, p.payload)
  /\ "ACK" \in p.flags => p.ack \in b.acks
  /\ "FIN" \in p.flags => b.fin
  /\ "RST" \in p.flags /\ p.valid => b.rst

\* What a session has sent and will send again.
Mail(s, b) ==
  /\ \A t \in s.timers : TimerOK(b, t)
  /\ \A d \in Addr : \A x \in 1..Len(s.out[d]) :
       PacketOK(b, d, s.out[d][x]) /\ s.out[d][x].src = s.self

\* Fewer timers and nothing more to send.
LEMMA LessMail ==
  ASSUME NEW r, NEW s, NEW b, Mail(s, b), r.timers \subseteq s.timers, r.out = s.out,
         r.self = s.self
  PROVE  Mail(r, b)
BY DEF Mail

\* One packet more.
LEMMA SendPacketMail ==
  ASSUME NEW s, WellFormed(s), NEW b, Mail(s, b), NEW dest, NEW packet \in myu_tcp_packet,
         PacketOK(b, dest, packet), packet.src = s.self
  PROVE  Mail(send_packet(s, dest, packet), b)
<1> DEFINE o == [s.out EXCEPT ![dest] = Append(@, packet)]
           r == [s EXCEPT !.out = o]
<1>1. CASE dest \in Addr
  <2>1. s.out \in [Addr -> Seq(myu_tcp_packet)]
    BY DEF WellFormed, Session
  <2>2. send_packet(s, dest, packet) = r
    BY <1>1 DEF send_packet
  <2>3. r.timers = s.timers /\ r.self = s.self /\ r.out = o
    BY DEF WellFormed, Session
  <2>4. ASSUME NEW d \in Addr, NEW x \in 1..Len(o[d])
        PROVE  PacketOK(b, d, o[d][x]) /\ o[d][x].src = s.self
    <3>1. CASE d # dest
      <4>1. o[d] = s.out[d]
        BY <2>1, <3>1
      <4> QED
        BY <4>1 DEF Mail
    <3>2. CASE d = dest
      <4>1. o[d] = Append(s.out[d], packet) /\ s.out[d] \in Seq(myu_tcp_packet)
        BY <2>1, <3>2
      <4>2. /\ Len(o[d]) = Len(s.out[d]) + 1
            /\ o[d][x] = IF x <= Len(s.out[d]) THEN s.out[d][x] ELSE packet
        BY <4>1
      <4>3. x <= Len(s.out[d]) => x \in 1..Len(s.out[d])
        BY <4>1
      <4> QED
        BY <3>2, <4>2, <4>3 DEF Mail
    <3> QED
      BY <3>1, <3>2
  <2> HIDE DEF o, r
  <2> QED
    BY <2>2, <2>3, <2>4 DEF Mail
<1>2. CASE dest \notin Addr
  BY <1>2 DEF send_packet
<1> QED
  BY <1>1, <1>2

\* One timer more.
LEMMA StartTimerMail ==
  ASSUME NEW s, WellFormed(s), NEW b, Mail(s, b), NEW t, TimerOK(b, t)
  PROVE  Mail(start_timer(s, t), b)
<1> DEFINE r == start_timer(s, t)
<1>1. /\ r.timers = {u \in s.timers : u.seq # t.seq} \cup {t}
      /\ r.out = s.out /\ r.self = s.self
  BY DEF start_timer, WellFormed, Session
<1> HIDE DEF r
<1>2. Mail(r, b)
  BY <1>1 DEF Mail
<1> QED
  BY <1>2 DEF r

\* A timer takes no number.
LEMMA StartTimerNext ==
  ASSUME NEW s, WellFormed(s), NEW t \in RetransmitTimer
  PROVE  LET r == start_timer(s, t)
         IN  WellFormed(r) /\ r.send_next = s.send_next /\ r.self = s.self
<1>1. start_timer(s, t).send_next = s.send_next
  BY DEF start_timer, WellFormed, Session
<1> QED
  BY <1>1, TimerType DEF Keeps

\* Stopping timers sends nothing and changes no number.
LEMMA StopMail ==
  ASSUME NEW s, WellFormed(s), NEW b, NEW x
  PROVE  \A r \in {stop_timer(s, x), drop_timer_up_to(s, x), stop_all_timers(s)} :
           /\ r.send_next = s.send_next /\ r.out = s.out /\ r.timers \subseteq s.timers
           /\ Mail(s, b) => Mail(r, b)
<1> TAKE r \in {stop_timer(s, x), drop_timer_up_to(s, x), stop_all_timers(s)}
<1>1. /\ r.send_next = s.send_next /\ r.out = s.out /\ r.timers \subseteq s.timers
      /\ r.self = s.self
  BY DEF WellFormed, Session, stop_timer, drop_timer_up_to, stop_all_timers
<1> QED
  BY <1>1, LessMail

\* A pure acknowledgement takes no number.
LEMMA PureAckMail ==
  ASSUME NEW s, WellFormed(s), NEW b, NEW ack \in Word
  PROVE  LET r == send_pure_ack(s, ack)
         IN  /\ r.send_next = s.send_next
             /\ Mail(s, b) /\ ack \in b.acks => Mail(r, b)
<1> DEFINE packet == Packet(s, {"ACK"}, s.send_next, ack, <<>>)
           r == send_pure_ack(s, ack)
<1>1. packet \in myu_tcp_packet
  <2>1. {"ACK"} \in SUBSET TcpFlag /\ s.send_next \in Word /\ <<>> \in Seq(Byte)
    BY DEF TcpFlag, WellFormed, Session
  <2> QED
    BY <2>1, PacketType
<1>2. ack \in b.acks => PacketOK(b, s.remote, packet)
  BY DEF PacketOK, Packet
<1>3. packet.src = s.self
  BY DEF Packet
<1>4. r = send_packet(s, s.remote, packet)
  BY DEF send_pure_ack
<1>5. r.send_next = s.send_next
  BY <1>4 DEF send_packet, WellFormed, Session
<1> HIDE DEF packet
<1> QED
  BY <1>1, <1>2, <1>3, <1>4, <1>5, SendPacketMail

\* A SYN or FIN takes a number and a timer, a RST neither.
LEMMA ControlMail ==
  ASSUME NEW s, WellFormed(s), NEW b, NEW flags \in SUBSET TcpFlag
  PROVE  LET r == send_control_packet(s, flags)
         IN  /\ r.send_next = IF flags \cap {"SYN", "FIN"} # {} THEN Plus(s.send_next, 1)
                                                             ELSE s.send_next
             /\ /\ Mail(s, b)
                /\ "SYN" \in flags /\ "ACK" \notin flags
                     => s.send_next \in b.syn /\ s.remote \in b.open
                /\ {"SYN", "ACK"} \subseteq flags => s.send_next \in b.joins
                /\ "ACK" \in flags => s.recv_next \in b.acks
                /\ "FIN" \in flags => b.fin
                /\ "RST" \in flags => b.rst /\ flags \cap {"SYN", "FIN"} = {}
                => Mail(r, b)
<1> DEFINE r == send_control_packet(s, flags)
           packet == Packet(s, flags, s.send_next, s.recv_next, <<>>)
           timer == [seq |-> s.send_next, flags |-> flags, payload |-> <<>>,
                     count |-> 0, dest |-> s.remote]
           t == start_timer(s, timer)
           u == [t EXCEPT !.send_next = Plus(@, 1)]
           v == IF flags \cap {"SYN", "FIN"} # {} THEN u ELSE s
           allowed == /\ Mail(s, b)
                      /\ "SYN" \in flags /\ "ACK" \notin flags
                           => s.send_next \in b.syn /\ s.remote \in b.open
                      /\ {"SYN", "ACK"} \subseteq flags => s.send_next \in b.joins
                      /\ "ACK" \in flags => s.recv_next \in b.acks
                      /\ "FIN" \in flags => b.fin
                      /\ "RST" \in flags => b.rst /\ flags \cap {"SYN", "FIN"} = {}
<1>1. s.send_next \in Word /\ s.recv_next \in Word /\ s.send_next \in Nat
  BY Numbers
<1>2. packet \in myu_tcp_packet /\ packet.src = s.self
  <2>1. <<>> \in Seq(Byte)
    OBVIOUS
  <2> QED
    BY <1>1, <2>1, PacketType DEF Packet
<1>3. timer \in RetransmitTimer
  BY <1>1 DEF RetransmitTimer, WellFormed, Session
<1>4. WellFormed(t) /\ t.send_next = s.send_next /\ t.self = s.self
  BY <1>3, StartTimerNext
<1>5. allowed /\ flags \cap {"SYN", "FIN"} # {} => Mail(t, b)
  <2>1. ASSUME allowed, flags \cap {"SYN", "FIN"} # {} PROVE TimerOK(b, timer)
    BY <2>1 DEF TimerOK
  <2> HIDE DEF timer
  <2> QED
    BY <2>1, StartTimerMail
<1> HIDE DEF t
<1>6. /\ WellFormed(u) /\ u.send_next = Plus(s.send_next, 1) /\ u.self = s.self
      /\ u.timers = t.timers /\ u.out = t.out
  <2>1. Plus(t.send_next, 1) \in Word
    BY <1>1, <1>4, WordArith
  <2> QED
    BY <1>4, <2>1 DEF WellFormed, Session
<1> HIDE DEF u
<1>7. allowed /\ flags \cap {"SYN", "FIN"} # {} => Mail(u, b)
  BY <1>4, <1>5, <1>6, LessMail
<1>8. WellFormed(v) /\ v.self = s.self /\ (allowed => Mail(v, b))
  BY <1>6, <1>7
<1>9. v.send_next = IF flags \cap {"SYN", "FIN"} # {} THEN Plus(s.send_next, 1)
                                                     ELSE s.send_next
  BY <1>6
<1>10. r = send_packet(v, s.remote, packet)
  BY DEF send_control_packet, t, u
<1>11. allowed => PacketOK(b, s.remote, packet)
  BY DEF PacketOK, Packet
<1> HIDE DEF v, packet, allowed
<1>12. allowed => Mail(r, b)
  BY <1>2, <1>8, <1>10, <1>11, SendPacketMail
<1>13. r.send_next = v.send_next
  BY <1>8, <1>10 DEF send_packet, WellFormed, Session
<1> QED
  BY <1>9, <1>12, <1>13 DEF allowed

\* Data takes a number for each byte, and a timer.
LEMMA PayloadMail ==
  ASSUME NEW s, WellFormed(s), NEW b, NEW payload \in Seq(Byte)
  PROVE  LET r == send_payload_packet(s, payload, {"ACK"})
         IN  /\ payload = <<>> => r = s
             /\ r.send_next = IF payload = <<>> THEN s.send_next
                                               ELSE Plus(s.send_next, Len(payload))
             /\ /\ Mail(s, b) /\ s.recv_next \in b.acks
                /\ payload # <<>> => DataOK(b, s.send_next, payload)
                => Mail(r, b)
<1> DEFINE r == send_payload_packet(s, payload, {"ACK"})
           packet == Packet(s, {"ACK"}, s.send_next, s.recv_next, payload)
           timer == [seq |-> s.send_next, flags |-> {"ACK"}, payload |-> payload,
                     count |-> 0, dest |-> DefaultAddr]
           t == start_timer(s, timer)
           key == htonl(s.send_next)
           entry == [key |-> key, flags |-> {"ACK"}, payload |-> payload]
           v == IF \E p \in s.inflight_packets : p.key = key
                  THEN s.inflight_packets ELSE s.inflight_packets \cup {entry}
           u == [t EXCEPT !.inflight_packets = v, !.send_next = Plus(@, Len(payload))]
           allowed == /\ Mail(s, b) /\ s.recv_next \in b.acks
                      /\ payload # <<>> => DataOK(b, s.send_next, payload)
           I == [key : Nat, flags : SUBSET TcpFlag, payload : Seq(Byte)]
<1>0. r = IF payload = <<>> THEN s ELSE send_packet(u, s.remote, packet)
  BY DEF send_payload_packet
<1>1. /\ s.send_next \in Word /\ s.recv_next \in Word /\ s.send_next \in Nat
      /\ {"ACK"} \in SUBSET TcpFlag /\ s.inflight_packets \in SUBSET I
  BY Numbers DEF WellFormed, Session, TcpFlag
<1>2. packet \in myu_tcp_packet /\ packet.src = s.self
  BY <1>1, PacketType DEF Packet
<1>3. timer \in RetransmitTimer
  BY <1>1 DEF RetransmitTimer
<1>4. WellFormed(t) /\ t.send_next = s.send_next /\ t.self = s.self
  BY <1>3, StartTimerNext
<1>5. payload # <<>> /\ allowed => Mail(t, b)
  <2>1. ASSUME payload # <<>>, allowed PROVE TimerOK(b, timer)
    BY <2>1 DEF TimerOK
  <2> HIDE DEF timer
  <2> QED
    BY <2>1, StartTimerMail
<1>6. v \in SUBSET I
  <2>1. entry \in I
    BY <1>1, SwapType
  <2> HIDE DEF entry, I
  <2> QED
    BY <1>1, <2>1
<1> HIDE DEF t, v
<1>7. /\ WellFormed(u) /\ u.send_next = Plus(s.send_next, Len(payload)) /\ u.self = s.self
      /\ u.timers = t.timers /\ u.out = t.out
  <2>1. Plus(t.send_next, Len(payload)) \in Word
    BY <1>1, <1>4, WordArith
  <2> QED
    BY <1>4, <1>6, <2>1 DEF WellFormed, Session
<1> HIDE DEF u
<1>8. payload # <<>> /\ allowed => Mail(u, b)
  BY <1>4, <1>5, <1>7, LessMail
<1>9. payload # <<>> /\ allowed => PacketOK(b, s.remote, packet)
  BY DEF PacketOK, Packet
<1> HIDE DEF packet
<1>10. payload # <<>> /\ allowed => Mail(send_packet(u, s.remote, packet), b)
  BY <1>2, <1>7, <1>8, <1>9, SendPacketMail
<1>11. send_packet(u, s.remote, packet).send_next = u.send_next
  BY <1>7 DEF send_packet, WellFormed, Session
<1> QED
  BY <1>0, <1>7, <1>10, <1>11

-----------------------------------------------------------------------------
(* Sending.                                                                *)

\* What peek_range returns is a part of the queue that starts at the offset.
LEMMA PeekPart ==
  ASSUME NEW q \in Seq(Byte), NEW d \in Nat, NEW n \in Nat
  PROVE  LET p == peek_range(q, d, n)
         IN  /\ p \in Seq(Byte)
             /\ p # <<>> => /\ d + Len(p) <= Len(q) /\ Len(p) > 0
                            /\ \A x \in 1..Len(p) : p[x] = q[d + x]
<1> DEFINE last == IF d + n > Len(q) THEN Len(q) ELSE d + n
           p == SubSeq(q, d + 1, last)
<1>1. CASE d >= Len(q) \/ n = 0
  BY <1>1 DEF peek_range
<1>2. CASE ~(d >= Len(q) \/ n = 0)
  <2>1. last \in Nat /\ d < last /\ last <= Len(q) /\ d + 1 \in Nat
    BY <1>2
  <2>2. peek_range(q, d, n) = p
    BY <1>2 DEF peek_range
  <2> HIDE DEF last
  <2>3. \A j \in (d + 1)..last : q[j] \in Byte
    BY <2>1
  <2>4. /\ p \in Seq(Byte) /\ Len(p) = last - d
        /\ \A x \in 1..(last - d) : p[x] = q[d + x]
    <3>1. /\ p \in Seq(Byte)
          /\ Len(p) = IF d + 1 <= last THEN last - (d + 1) + 1 ELSE 0
          /\ \A x \in 1..(last - (d + 1) + 1) : p[x] = q[(d + 1) + x - 1]
      BY <2>1, <2>3, SubSeqProperties
    <3> HIDE DEF p
    <3> QED
      BY <2>1, <3>1
  <2> QED
    BY <2>1, <2>2, <2>4
<1> QED
  BY <1>1, <1>2

\* The numbers and the data of a session are in order.
Holds(s, b) == Flight(s) /\ (b.any \/ Numbered(s, b))

\* The pledge covers what a handler that takes s to r may send: data up to the
\* last byte sent, or beyond the FIN after a simultaneous close.
Fits(r, s, b) ==
  \/ b.any
  \/ /\ b.i \in b.I
     /\ Streaming(r) => Top(r, b) <= b.g
     /\ s.state = "CLOSE_WAIT" /\ s.user_want_to_close
          => b.g < Top(s, b) /\ b.h = b.m + 1
     /\ s.state = "ESTABLISHED" /\ r.state = "FIN_WAIT_1" => Top(r, b) <= b.g + 1

\* send_next_ does not go back.
Advances(r, s, b) == b.any \/ Off(b.i, s.send_next) <= Off(b.i, r.send_next)

\* What a handler that takes s to r preserves.
Carries(r, s, b) ==
  /\ Holds(r, b) /\ Advances(r, s, b)
  /\ Fits(r, s, b) /\ s.recv_next \in b.acks /\ Mail(s, b) => Mail(r, b)

\* The fields that Holds reads.
SameNumbers(r, s) ==
  /\ r.alive = s.alive /\ r.state = s.state /\ r.send_unack = s.send_unack
  /\ r.send_next = s.send_next /\ r.send_buffer = s.send_buffer
  /\ r.user_want_to_close = s.user_want_to_close

\* Sessions that agree on them agree on Holds.
LEMMA SameHolds ==
  ASSUME NEW r, NEW s, NEW b, SameNumbers(r, s)
  PROVE  (Holds(s, b) <=> Holds(r, b)) /\ (Streaming(r) <=> Streaming(s)) /\ Top(r, b) = Top(s, b)
BY DEF SameNumbers, Holds, Flight, Numbered, Streaming, Top

\* The facts about numbers on which the arithmetic below rests.
LEMMA NumberFacts ==
  ASSUME NEW s, WellFormed(s), NEW b, Pledge(b)
  PROVE  /\ b.i \in Word /\ s.send_next \in Word /\ s.send_unack \in Word
         /\ b.A \in Nat /\ b.m \in Nat /\ b.m + 2 < SeqMod /\ SeqMod \in Nat
         /\ s.send_buffer \in Seq(Byte) /\ Len(s.send_buffer) \in Nat
         /\ Len(s.send_buffer) < SeqMod
         /\ Off(b.i, s.send_unack) \in Nat /\ Off(b.i, s.send_unack) < SeqMod
         /\ Off(b.i, s.send_next) \in Nat /\ Off(b.i, s.send_next) < SeqMod
         /\ Minus(s.send_next, s.send_unack) \in Nat
         /\ Minus(s.send_next, s.send_unack) < SeqMod
<1>1. /\ b.i \in Word /\ s.send_next \in Word /\ s.send_unack \in Word
      /\ b.A \in Nat /\ b.m \in Nat /\ b.m + 2 < SeqMod /\ SeqMod \in Nat
  BY Numbers, WordArith DEF Pledge
<1>2. s.send_buffer \in Seq(Byte) /\ Len(s.send_buffer) <= BufferCapacity
  BY DEF WellFormed, Session
<1>3. Len(s.send_buffer) \in Nat /\ BufferCapacity < SeqMod /\ BufferCapacity \in Nat
  BY <1>2, SessionAssumption
<1>4. /\ Off(b.i, s.send_unack) \in Nat /\ Off(b.i, s.send_unack) < SeqMod
      /\ Off(b.i, s.send_next) \in Nat /\ Off(b.i, s.send_next) < SeqMod
      /\ Minus(s.send_next, s.send_unack) \in Nat
      /\ Minus(s.send_next, s.send_unack) < SeqMod
  BY <1>1, OffArith
<1> QED
  BY <1>1, <1>2, <1>3, <1>4

\* In a session that streams, send_next_ is as far from send_unack_ as the data
\* in flight is long, and the last byte sent is one of those accepted.
LEMMA StreamingNumbers ==
  ASSUME NEW s, WellFormed(s), s.alive, NEW b, Pledge(b), Flight(s), Numbered(s, b),
         Streaming(s)
  PROVE  /\ Top(s, b) = b.A - Len(s.send_buffer) + Minus(s.send_next, s.send_unack)
         /\ Off(b.i, s.send_unack) <= Off(b.i, s.send_next)
         /\ Top(s, b) <= b.A /\ b.A <= b.m /\ Top(s, b) >= 0
<1>1. /\ Off(b.i, s.send_unack) = 1 + b.A - Len(s.send_buffer)
      /\ Len(s.send_buffer) <= b.A /\ b.A <= b.m
      /\ Minus(s.send_next, s.send_unack) <= Len(s.send_buffer)
  BY DEF Flight, Numbered
<1>2. Off(b.i, s.send_unack) + Minus(s.send_next, s.send_unack) < SeqMod
  BY <1>1, NumberFacts
<1>3. Off(b.i, s.send_next) = Off(b.i, s.send_unack) + Minus(s.send_next, s.send_unack)
  BY <1>2, NumberFacts, OffArith
<1> QED
  BY <1>1, <1>3, NumberFacts DEF Top

\* A data packet in its place: the bytes of the buffer from the first that has
\* not been sent, or, after a simultaneous close, bytes beyond the FIN.
LEMMA TrySendCarries ==
  ASSUME NEW s, WellFormed(s), s.alive, NEW b, Pledge(b), Holds(s, b)
  PROVE  Carries(handle_try_send(s), s, b)
<1> DEFINE r == handle_try_send(s)
           d == Minus(s.send_next, s.send_unack)
           allowance == Minus(s.send_window_size, d)
           p == peek_range(s.send_buffer, d, allowance)
           quiet == s.state \notin {"ESTABLISHED", "CLOSE_WAIT"} \/ allowance = 0
           sent == send_payload_packet(s, p, {"ACK"})
           l == Len(s.send_buffer)
           n == Off(b.i, s.send_next)
           u == Off(b.i, s.send_unack)
<1>1. r = IF quiet THEN s ELSE sent
  BY DEF handle_try_send
<1>2. d \in Nat /\ allowance \in Nat
  <2>1. d \in Nat
    BY NumberFacts
  <2> HIDE DEF d
  <2>2. allowance \in Word
    BY <2>1, Numbers, WordArith
  <2> QED
    BY <2>1, <2>2, WordArith DEF Word
<1>0. /\ n \in Nat /\ u \in Nat /\ l \in Nat /\ b.A \in Nat /\ b.m \in Nat
      /\ b.m + 2 < SeqMod /\ SeqMod \in Nat /\ n < SeqMod /\ u < SeqMod
  BY NumberFacts
<1>3. CASE r = s
  <2>1. Advances(s, s, b)
    BY NumberFacts DEF Advances
  <2> QED
    BY <1>3, <2>1 DEF Carries
<1>4. CASE r # s
  <2>1. /\ p \in Seq(Byte)
        /\ p # <<>> => /\ d + Len(p) <= l /\ Len(p) > 0
                       /\ \A x \in 1..Len(p) : p[x] = s.send_buffer[d + x]
    BY <1>2, NumberFacts, PeekPart
  <2> HIDE DEF d, allowance, p
  <2>2. /\ p = <<>> => sent = s
        /\ p # <<>> => sent.send_next = Plus(s.send_next, Len(p))
        /\ /\ Mail(s, b) /\ s.recv_next \in b.acks
           /\ p # <<>> => DataOK(b, s.send_next, p)
           => Mail(sent, b)
    BY <2>1, PayloadMail
  <2>3. r = sent /\ p # <<>> /\ s.state \in {"ESTABLISHED", "CLOSE_WAIT"}
    BY <1>1, <1>4, <2>2
  <2>4. /\ r.alive = s.alive /\ r.state = s.state /\ r.send_unack = s.send_unack
        /\ r.send_buffer = s.send_buffer /\ r.user_want_to_close = s.user_want_to_close
    <3>1. Keeps(r, s)
      BY TrySendType
    <3>2. HasFields(s)
      BY DEF WellFormed, Session, HasFields, Watched
    <3>3. Frame(r, s)
      BY <3>2, TrySendFrame
    <3> QED
      BY <3>1, <3>3 DEF Keeps, Frame
  <2>5. r.send_next = Plus(s.send_next, Len(p)) /\ Len(p) \in Nat
    BY <2>1, <2>2, <2>3
  <2>9. d + Len(p) <= l /\ d \in Nat /\ Len(p) \in Nat
    BY <1>2, <2>1, <2>3, <2>5
  <2>10. Plus(s.send_next, Len(p)) \in b.ends
    <3>1. r.send_next \in Word
      BY TrySendType, Numbers
    <3> QED
      BY <2>5, <3>1 DEF Pledge
  <2>6. Flight(r)
    <3>1. CASE Streaming(s)
      <4>1. d <= l /\ d + Len(p) < SeqMod
        BY <2>1, <2>3, <3>1, NumberFacts DEF Holds, Flight, d
      <4>2. Off(s.send_unack, s.send_next) + Len(p) < SeqMod
        BY <4>1 DEF Off, d
      <4>3. Off(s.send_unack, r.send_next) = Off(s.send_unack, s.send_next) + Len(p)
        BY <2>5, <4>2, NumberFacts, OffArith
      <4>4. Minus(r.send_next, r.send_unack) <= Len(r.send_buffer)
        BY <2>1, <2>3, <2>4, <4>3 DEF Off, d
      <4> QED
        BY <2>3, <2>4, <4>4 DEF Holds, Flight, Streaming, Opening
    <3>2. CASE ~Streaming(s)
      BY <2>3, <2>4, <3>2 DEF Holds, Flight, Streaming, Opening
    <3> QED
      BY <3>1, <3>2
  <2>7. CASE b.any
    BY <2>2, <2>3, <2>6, <2>7, <2>10 DEF Carries, Holds, Advances, DataOK
  <2>8. CASE ~b.any
    <3>1. Numbered(s, b) /\ Flight(s)
      BY <2>8 DEF Holds
    <3>2. CASE Streaming(s)
      <4>1. /\ n - 1 = b.A - l + d /\ n - 1 <= b.A /\ b.A <= b.m /\ u <= n /\ n >= 1
        BY <3>1, <3>2, StreamingNumbers, NumberFacts DEF Top, d
      <4>2. n + Len(p) <= b.A + 1 /\ n + Len(p) < SeqMod
        <5> DEFINE k == Len(p)
                   A == b.A
                   m == b.m
        <5>1. /\ n \in Nat /\ l \in Nat /\ d \in Nat /\ k \in Nat /\ A \in Nat /\ m \in Nat
              /\ m + 2 < SeqMod /\ SeqMod \in Nat
          BY <1>0, <2>9
        <5>2. n - 1 = A - l + d /\ A <= m /\ d + k <= l
          BY <2>9, <4>1
        <5> HIDE DEF n, u, l, k, A, m
        <5>3. n + k <= A + 1 /\ n + k < SeqMod
          BY <5>1, <5>2
        <5> QED
          BY <5>3 DEF A, k
      <4>3. Off(b.i, r.send_next) = n + Len(p)
        BY <2>5, <4>2, NumberFacts, OffArith
      <4>4. Numbered(r, b)
        BY <2>3, <2>4, <3>1, <3>2 DEF Numbered, Streaming, Opening
      <4>5. Fits(r, s, b) => DataOK(b, s.send_next, p)
        <5> HAVE Fits(r, s, b)
        <5>1. b.i \in b.I /\ n - 1 + Len(p) <= b.g
          BY <2>4, <2>5, <2>8, <3>2, <4>3, NumberFacts DEF Fits, Streaming, Top, Pledge
        <5>2. ASSUME NEW x \in 1..Len(p) PROVE p[x] = (n - 1) + x
          <6>1. p[x] = s.send_buffer[d + x] /\ d + x \in 1..l
            BY <1>2, <2>1, <2>3, <2>5 DEF d
          <6>2. s.send_buffer[d + x] = b.A - l + (d + x)
            BY <3>1, <6>1 DEF Numbered
          <6>3. /\ n \in Nat /\ l \in Nat /\ d \in Nat /\ x \in Nat /\ b.A \in Nat
                /\ n - 1 = b.A - l + d
            BY <1>0, <2>9, <4>1
          <6> DEFINE A == b.A
          <6> HIDE DEF n, l, A
          <6>4. A - l + (d + x) = (n - 1) + x
            <7>1. A \in Nat /\ n - 1 = A - l + d
              BY <6>3 DEF A
            <7> QED
              BY <6>3, <7>1
          <6> QED
            BY <6>1, <6>2, <6>4 DEF A
        <5>3. n - 1 >= 0
          BY <4>1, NumberFacts
        <5> QED
          BY <2>10, <5>1, <5>2, <5>3 DEF DataOK
      <4>6. Advances(r, s, b)
        BY <2>5, <4>3, NumberFacts DEF Advances
      <4> QED
        BY <2>2, <2>3, <2>6, <4>4, <4>5, <4>6 DEF Carries, Holds
    <3>3. CASE ~Streaming(s)
      <4>1. s.state = "CLOSE_WAIT" /\ s.user_want_to_close
        BY <2>3, <3>3 DEF Streaming
      <4>2. /\ u + l <= b.A + 2 /\ u <= n /\ 1 <= n /\ n <= b.A + 2 /\ b.A <= b.m
        BY <3>1, <4>1 DEF Numbered
      <4>3. d = n - u
        BY <4>2, NumberFacts, OffArith DEF d
      <4>4. n + Len(p) <= b.A + 2 /\ n + Len(p) < SeqMod
        <5> DEFINE k == Len(p)
                   A == b.A
                   m == b.m
        <5>1. /\ n \in Nat /\ u \in Nat /\ l \in Nat /\ k \in Nat /\ A \in Nat /\ m \in Nat
              /\ m + 2 < SeqMod /\ SeqMod \in Nat
          BY <1>0, <2>9
        <5>2. u + l <= A + 2 /\ A <= m /\ d = n - u /\ d + k <= l
          BY <2>9, <4>2, <4>3
        <5> HIDE DEF n, u, l, k, A, m
        <5>3. n + k <= A + 2 /\ n + k < SeqMod
          BY <5>1, <5>2
        <5> QED
          BY <5>3 DEF A, k
      <4>5. Off(b.i, r.send_next) = n + Len(p)
        BY <2>5, <4>4, NumberFacts, OffArith
      <4>6. Numbered(r, b)
        <5>1. /\ u <= Off(b.i, r.send_next) /\ 1 <= Off(b.i, r.send_next)
              /\ Off(b.i, r.send_next) <= b.A + 2
          BY <1>0, <2>5, <4>2, <4>4, <4>5
        <5> QED
          BY <2>3, <2>4, <3>1, <4>1, <4>2, <5>1 DEF Numbered, Streaming, Opening
      <4>7. Fits(r, s, b) /\ b.I \subseteq Word => DataOK(b, s.send_next, p)
        <5> HAVE Fits(r, s, b) /\ b.I \subseteq Word
        <5>1. b.i \in b.I /\ b.g < n - 1 /\ b.h = b.m + 1
          BY <2>8, <4>1 DEF Fits, Top
        <5>2. b.g \in Int
          BY DEF Pledge
        <5>3. n - 1 >= 0 /\ n - 1 + Len(p) <= b.h
          <6> DEFINE k == Len(p)
                     A == b.A
                     m == b.m
                     h == b.h
          <6>1. /\ n \in Nat /\ k \in Nat /\ A \in Nat /\ m \in Nat
                /\ n >= 1 /\ n + k <= A + 2 /\ A <= m /\ h = m + 1
            BY <1>0, <2>5, <4>2, <4>4, <5>1
          <6> HIDE DEF n, k, A, m, h
          <6>2. n - 1 >= 0 /\ n - 1 + k <= h
            BY <6>1
          <6> QED
            BY <6>2 DEF k, h
        <5> QED
          BY <2>10, <5>1, <5>3 DEF DataOK
      <4>8. Advances(r, s, b)
        BY <2>5, <4>5, NumberFacts DEF Advances
      <4> QED
        BY <2>2, <2>3, <2>6, <4>6, <4>7, <4>8 DEF Carries, Holds, Pledge
    <3> QED
      BY <3>2, <3>3
  <2> QED
    BY <2>7, <2>8
<1> QED
  BY <1>3, <1>4

-----------------------------------------------------------------------------
(* Receiving.                                                              *)

\* Fields that no pledge speaks of.
LEMMA AsideCarries ==
  ASSUME NEW r, NEW s, NEW b, SameNumbers(r, s), r.timers = s.timers, r.out = s.out,
         r.self = s.self
  PROVE  (Holds(s, b) <=> Holds(r, b)) /\ (Mail(s, b) <=> Mail(r, b)) /\ Top(r, b) = Top(s, b)
BY SameHolds DEF Mail

\* What pop_front leaves of a queue.
LEMMA PopPart ==
  ASSUME NEW q \in Seq(Byte), NEW n \in Nat, n <= Len(q)
  PROVE  LET p == pop_front(q, n)
         IN  /\ p \in Seq(Byte) /\ Len(p) = Len(q) - n
             /\ \A x \in 1..Len(p) : p[x] = q[n + x]
<1> DEFINE p == SubSeq(q, n + 1, Len(q))
<1>2. Len(q) \in Nat /\ n + 1 \in Nat /\ \A j \in (n + 1)..Len(q) : q[j] \in Byte
  OBVIOUS
<1>1. pop_front(q, n) = p
  <2>1. CASE n = Len(q)
    BY <2>1 DEF pop_front
  <2>2. CASE n # Len(q)
    <3>1. ~(n > Len(q))
      BY <1>2, <2>2
    <3> QED
      BY <3>1 DEF pop_front
  <2> QED
    BY <2>1, <2>2
<1>3. /\ p \in Seq(Byte)
      /\ Len(p) = IF n + 1 <= Len(q) THEN Len(q) - (n + 1) + 1 ELSE 0
      /\ \A x \in 1..(Len(q) - (n + 1) + 1) : p[x] = q[(n + 1) + x - 1]
  BY <1>2, SubSeqProperties
<1> HIDE DEF p
<1>4. Len(p) = Len(q) - n /\ \A x \in 1..Len(p) : p[x] = q[n + x]
  BY <1>2, <1>3
<1> QED
  BY <1>1, <1>3, <1>4

\* An acceptable acknowledgement releases exactly the bytes before it.
LEMMA ReleaseCarries ==
  ASSUME NEW s, WellFormed(s), s.alive, s.state = "ESTABLISHED", NEW b, Pledge(b),
         Holds(s, b), NEW ack \in Word, AckAcceptable(s, ack)
  PROVE  LET r == ReleaseAcked(s, ack)
         IN  /\ Holds(r, b) /\ r.send_next = s.send_next /\ r.state = s.state
             /\ r.alive = s.alive /\ r.recv_next = s.recv_next
             /\ Mail(s, b) => Mail(r, b)
<1> DEFINE r == ReleaseAcked(s, ack)
           d == drop_timer_up_to(s, Minus(ack, 1))
           k == Minus(ack, s.send_unack)
           l == Len(s.send_buffer)
           u == Off(b.i, s.send_unack)
           n == Off(b.i, s.send_next)
<1>1. /\ d.alive = s.alive /\ d.state = s.state /\ d.send_next = s.send_next
      /\ d.user_want_to_close = s.user_want_to_close /\ d.out = s.out /\ d.self = s.self
      /\ d.timers \subseteq s.timers /\ d.send_buffer = s.send_buffer /\ WellFormed(d)
      /\ d.recv_next = s.recv_next
  BY TimerType DEF drop_timer_up_to, WellFormed, Session
<1> HIDE DEF d
<1>2. /\ r.alive = d.alive /\ r.state = d.state /\ r.send_next = d.send_next
      /\ r.user_want_to_close = d.user_want_to_close /\ r.out = d.out /\ r.self = d.self
      /\ r.timers = d.timers /\ r.send_unack = ack /\ r.recv_next = d.recv_next
      /\ r.send_buffer = pop_front(d.send_buffer, k)
  BY <1>1 DEF ReleaseAcked, d, WellFormed, Session
<1> HIDE DEF r
<1>3. /\ s.send_unack < ack /\ ack <= s.send_next
      /\ Minus(s.send_next, s.send_unack) <= l
  BY DEF AckAcceptable, Holds, Flight, Streaming
<1>4. /\ Minus(s.send_next, s.send_unack) = k + Minus(s.send_next, ack) /\ k > 0
      /\ u <= n => Off(b.i, ack) = u + k /\ Off(b.i, ack) <= n
  BY <1>3, NumberFacts, OffBetween
<1>5. k \in Nat /\ Minus(s.send_next, ack) \in Nat
  BY NumberFacts, OffArith
<1>6. k <= l /\ l \in Nat
  <2> HIDE DEF k, l
  <2> QED
    BY <1>3, <1>4, <1>5, NumberFacts DEF l
<1>7. /\ Len(r.send_buffer) = l - k
      /\ \A x \in 1..(l - k) : r.send_buffer[x] = s.send_buffer[k + x]
  <2> DEFINE p == pop_front(s.send_buffer, k)
  <2> HIDE DEF k
  <2>1. s.send_buffer \in Seq(Byte) /\ k <= Len(s.send_buffer)
    BY <1>6, NumberFacts
  <2>2. /\ Len(p) = Len(s.send_buffer) - k
        /\ \A x \in 1..Len(p) : p[x] = s.send_buffer[k + x]
    BY <1>5, <2>1, PopPart
  <2>3. r.send_buffer = p
    BY <1>1, <1>2
  <2> HIDE DEF p
  <2> QED
    BY <2>2, <2>3
<1>8. Flight(r)
  <2>1. Minus(r.send_next, r.send_unack) <= Len(r.send_buffer)
    <3> HIDE DEF k, l
    <3> QED
      BY <1>1, <1>2, <1>3, <1>4, <1>5, <1>6, <1>7
  <2> QED
    BY <1>1, <1>2, <2>1 DEF Flight, Holds, Streaming, Opening
<1>9. ~b.any => Numbered(r, b)
  <2> HAVE ~b.any
  <2>1. Numbered(s, b) /\ Flight(s) /\ Streaming(s)
    BY DEF Holds, Streaming
  <2>2. /\ l <= b.A /\ b.A <= b.m /\ u = 1 + b.A - l
        /\ \A x \in 1..l : s.send_buffer[x] = b.A - l + x
    BY <2>1 DEF Numbered
  <2>3. u <= n
    BY <2>1, StreamingNumbers
  <2>4. b.A \in Nat
    BY DEF Pledge
  <2>5. /\ l - k <= b.A /\ Off(b.i, ack) = 1 + b.A - (l - k)
    <3> HIDE DEF k, l, u, n
    <3> QED
      BY <1>4, <1>5, <1>6, <2>2, <2>3, <2>4
  <2>6. \A x \in 1..(l - k) : r.send_buffer[x] = b.A - (l - k) + x
    <3> HIDE DEF k, l, u, n
    <3> TAKE x \in 1..(l - k)
    <3>1. k + x \in 1..l
      BY <1>5, <1>6
    <3>2. s.send_buffer[k + x] = b.A - l + (k + x)
      BY <2>2, <3>1
    <3> QED
      BY <1>5, <1>6, <1>7, <2>4, <3>2
  <2> QED
    BY <1>1, <1>2, <1>7, <2>2, <2>5, <2>6 DEF Numbered, Opening
<1>10. Mail(s, b) => Mail(r, b)
  BY <1>1, <1>2, LessMail
<1> QED
  BY <1>1, <1>2, <1>8, <1>9, <1>10 DEF Holds, r

\* _handle_ack releases what an acceptable number acknowledges and sends more; the
\* rest of it only counts, because the third duplicate never comes.
LEMMA AckPart ==
  ASSUME ConnectsClosed,
         NEW s, SessionInv(s), s.state = "ESTABLISHED", NEW packet \in myu_tcp_packet,
         AckAcceptable(s, packet.ack)
  PROVE  \E g : LET a == ReleaseAcked(s, packet.ack)
                IN  /\ handle_ack(s, packet) = handle_try_send(g)
                    /\ WellFormed(g) /\ SameNumbers(g, a) /\ g.timers = a.timers
                    /\ g.out = a.out /\ g.self = a.self /\ g.recv_next = a.recv_next
<1> DEFINE ack == packet.ack
           a == ReleaseAcked(s, ack)
           c == CountAck(a, ack)
           g == GrowWindow(c)
<1>0. WellFormed(s) /\ ack \in Word
  BY DEF SessionInv, myu_tcp_packet
<1>1. /\ WellFormed(a) /\ a.dup_ack_count = s.dup_ack_count
      /\ a.last_ack_received = s.last_ack_received
  BY <1>0, ReleaseType
<1> HIDE DEF a
<1>2. /\ c.dup_ack_count \in {0, 1}
      /\ SameNumbers(c, a) /\ c.timers = a.timers /\ c.out = a.out /\ c.self = a.self
      /\ c.recv_next = a.recv_next
  <2>1. SameNumbers(c, a) /\ c.timers = a.timers /\ c.out = a.out /\ c.self = a.self
        /\ c.recv_next = a.recv_next
    BY <1>1 DEF CountAck, SameNumbers, WellFormed, Session
  <2>2. /\ s.send_unack \in Nat /\ ack \in Nat /\ s.last_ack_received \in Nat
        /\ ack > s.send_unack
    BY <1>0, Numbers, WordArith DEF AckAcceptable, Word
  <2>3. a.dup_ack_count = 0 \/ (a.dup_ack_count = 1 /\ a.last_ack_received <= s.send_unack)
    BY <1>1 DEF SessionInv, DupInv, DupCounts
  <2>4. c.dup_ack_count = IF a.last_ack_received < ack THEN 0
                          ELSE IF a.last_ack_received = ack THEN a.dup_ack_count + 1
                          ELSE a.dup_ack_count
    BY <1>1 DEF CountAck, WellFormed, Session
  <2> QED
    BY <1>1, <2>1, <2>2, <2>3, <2>4
<1>3. WellFormed(c)
  <2>1. ASSUME NEW x \in Word, NEW y \in Nat
        PROVE  WellFormed([a EXCEPT !.last_ack_received = x, !.dup_ack_count = y])
    BY <1>1 DEF WellFormed, Session
  <2>2. a.last_ack_received \in Word /\ a.dup_ack_count \in Nat
    BY <1>1 DEF WellFormed, Session
  <2> DEFINE x == IF a.last_ack_received < ack THEN ack ELSE a.last_ack_received
             y == IF a.last_ack_received < ack THEN 0
                  ELSE IF a.last_ack_received = ack THEN a.dup_ack_count + 1
                  ELSE a.dup_ack_count
  <2>3. x \in Word /\ y \in Nat
    BY <1>0, <2>2
  <2>4. c = [a EXCEPT !.last_ack_received = x, !.dup_ack_count = y]
    BY DEF CountAck
  <2> HIDE DEF x, y, c
  <2> QED
    BY <2>1, <2>3, <2>4
<1>4. FastRetransmit(c, ack) = c
  BY <1>2 DEF FastRetransmit
<1> HIDE DEF c
<1>5. /\ WellFormed(g) /\ SameNumbers(g, c) /\ g.timers = c.timers /\ g.out = c.out
      /\ g.self = c.self /\ g.recv_next = c.recv_next
  <2>1. ASSUME NEW x \in Word
        PROVE  LET q == [c EXCEPT !.send_window_size = x]
               IN  /\ WellFormed(q) /\ SameNumbers(q, c) /\ q.timers = c.timers
                   /\ q.out = c.out /\ q.self = c.self /\ q.recv_next = c.recv_next
    BY <1>3 DEF WellFormed, Session, SameNumbers
  <2>2. /\ Plus(c.send_window_size, c.send_window_size) \in Word
        /\ Plus(c.send_window_size, 1) \in Word
    BY <1>3, Numbers, WordArith
  <2> QED
    BY <2>1, <2>2 DEF GrowWindow
<1> HIDE DEF g
<1>6. /\ SameNumbers(g, a) /\ g.timers = a.timers /\ g.out = a.out /\ g.self = a.self
      /\ g.recv_next = a.recv_next
  BY <1>2, <1>5 DEF SameNumbers
<1>7. handle_ack(s, packet) = handle_try_send(g)
  BY <1>4 DEF handle_ack, g, c, a
<1> QED
  BY <1>5, <1>6, <1>7 DEF a

\* _handle_ack.
LEMMA AckCarries ==
  ASSUME ConnectsClosed,
         NEW s, SessionInv(s), s.alive, s.state = "ESTABLISHED", NEW b, Pledge(b),
         Holds(s, b), NEW packet \in myu_tcp_packet
  PROVE  /\ Carries(handle_ack(s, packet), s, b)
         /\ handle_ack(s, packet).recv_next = s.recv_next
         /\ handle_ack(s, packet).send_unack \in {s.send_unack, packet.ack}
<1> DEFINE a == ReleaseAcked(s, packet.ack)
<1>0. WellFormed(s) /\ packet.ack \in Word
  BY DEF SessionInv, myu_tcp_packet
<1>1. CASE ~AckAcceptable(s, packet.ack)
  BY <1>0, <1>1, NumberFacts DEF handle_ack, Carries, Advances
<1>2. CASE AckAcceptable(s, packet.ack)
  <2>1. /\ Holds(a, b) /\ a.send_next = s.send_next /\ a.state = s.state
        /\ a.alive = s.alive /\ a.recv_next = s.recv_next
        /\ Mail(s, b) => Mail(a, b)
    BY <1>0, <1>2, ReleaseCarries
  <2>2. a.send_unack = packet.ack
    BY <1>0, ReleaseType
  <2>3. PICK g : /\ handle_ack(s, packet) = handle_try_send(g)
                 /\ WellFormed(g) /\ SameNumbers(g, a) /\ g.timers = a.timers
                 /\ g.out = a.out /\ g.self = a.self /\ g.recv_next = a.recv_next
    BY <1>2, AckPart
  <2> DEFINE r == handle_try_send(g)
  <2> HIDE DEF a
  <2>4. /\ Holds(g, b) /\ (Mail(a, b) => Mail(g, b)) /\ g.send_next = s.send_next
        /\ g.alive /\ g.state = "ESTABLISHED" /\ g.recv_next = s.recv_next
        /\ g.send_unack = packet.ack
    BY <2>1, <2>2, <2>3, AsideCarries DEF SameNumbers
  <2>5. Carries(r, g, b)
    BY <2>3, <2>4, TrySendCarries
  <2>6. Fits(r, s, b) => Fits(r, g, b)
    BY <2>4 DEF Fits, Top
  <2>7. r.recv_next = g.recv_next /\ r.send_unack = g.send_unack
    BY <2>3, TrySendType DEF Keeps
  <2> HIDE DEF r
  <2>8. Carries(r, s, b)
    BY <2>1, <2>4, <2>5, <2>6 DEF Carries, Advances
  <2> QED
    BY <2>3, <2>4, <2>7, <2>8 DEF r
<1> QED
  BY <1>1, <1>2

\* What sending, acknowledging and keeping timers leave alone, once more: the
\* fields of Keeps and of Frame, and send_next_.
Beside(r, s) ==
  /\ r.alive = s.alive /\ r.self = s.self /\ r.remote = s.remote
  /\ r.send_next = s.send_next /\ r.send_buffer = s.send_buffer
  /\ r.recv_buffer = s.recv_buffer /\ r.user_want_to_close = s.user_want_to_close

\* A pure acknowledgement leaves the numbers as they are.
LEMMA PureAckBeside ==
  ASSUME NEW s, WellFormed(s), NEW ack \in Word
  PROVE  LET r == send_pure_ack(s, ack)
         IN  /\ Beside(r, s) /\ SameNumbers(r, s) /\ WellFormed(r)
             /\ r.recv_next = s.recv_next /\ r.timers = s.timers
<1> DEFINE r == send_pure_ack(s, ack)
<1>1. HasFields(s)
  BY DEF WellFormed, Session, HasFields, Watched
<1>2. Frame(r, s) /\ Keeps(r, s) /\ WellFormed(r)
  BY <1>1, PureAckFrame, PureAckType
<1>4. r.send_next = s.send_next
  BY PureAckMail
<1>5. r.timers = s.timers
  BY DEF send_pure_ack, send_packet, WellFormed, Session
<1> HIDE DEF r
<1>6. Beside(r, s) /\ SameNumbers(r, s) /\ r.recv_next = s.recv_next
  BY <1>2, <1>4 DEF Beside, SameNumbers, Frame, Keeps
<1> QED
  BY <1>2, <1>5, <1>6 DEF r

\* A packet is taken if it is the next one and there is room for it.
LEMMA IncomingCarries ==
  ASSUME NEW s, WellFormed(s), s.ooo_map = {}, NEW packet \in myu_tcp_packet, NEW b
  PROVE  LET r == handle_incoming_packet(s, packet)
         IN  /\ SameNumbers(r, s) /\ r.self = s.self /\ r.remote = s.remote
             /\ WellFormed(r) /\ r.timers = s.timers
             /\ \/ r.recv_next = s.recv_next /\ r.recv_buffer = s.recv_buffer
                \/ /\ packet.seq = s.recv_next
                   /\ r.recv_buffer = s.recv_buffer \o packet.payload
                   /\ r.recv_next = Plus(s.recv_next, Len(packet.payload))
             /\ Mail(s, b) /\ r.recv_next \in b.acks => Mail(r, b)
<1> DEFINE d == Deliverable(s, packet.payload)
           fit == IF HasRoom(s.recv_buffer, packet.payload) THEN d ELSE s
           taken == IF InOrder(s, packet) THEN TakeInOrder(s, packet)
                                          ELSE TakeOutOfOrder(s, packet)
           r == send_pure_ack(taken, taken.recv_next)
           Taken(q) ==
             /\ SameNumbers(q, s) /\ q.self = s.self /\ q.remote = s.remote
             /\ q.timers = s.timers /\ q.out = s.out
             /\ \/ q.recv_next = s.recv_next /\ q.recv_buffer = s.recv_buffer
                \/ /\ packet.seq = s.recv_next
                   /\ q.recv_buffer = s.recv_buffer \o packet.payload
                   /\ q.recv_next = Plus(s.recv_next, Len(packet.payload))
<1>1. packet.payload \in Seq(Byte)
  BY DEF myu_tcp_packet
<1>2. Taken(s)
  BY DEF SameNumbers
<1>3. InOrder(s, packet) => Taken(d)
  BY DEF Deliverable, push_batch, InOrder, SameNumbers, WellFormed, Session
<1>4. HasRoom(s.recv_buffer, packet.payload) => WellFormed(d) /\ d.ooo_map = {}
  BY <1>1, DeliverableType DEF Same
<1> HIDE DEF d, Taken
<1>5. WellFormed(fit) /\ fit.ooo_map = {} /\ (InOrder(s, packet) => Taken(fit))
  BY <1>2, <1>3, <1>4
<1>6. TakeInOrder(s, packet) = fit
  BY <1>5 DEF TakeInOrder, DrainOooMap, d
<1>7. TakeOutOfOrder(s, packet) = s
  BY NothingInWindow DEF TakeOutOfOrder
<1> HIDE DEF fit
<1>8. WellFormed(taken) /\ Taken(taken)
  BY <1>2, <1>5, <1>6, <1>7
<1>9. handle_incoming_packet(s, packet) = r
  BY DEF handle_incoming_packet
<1> HIDE DEF taken
<1>10. taken.recv_next \in Word
  BY <1>8, Numbers
<1>11. /\ Beside(r, taken) /\ SameNumbers(r, taken) /\ WellFormed(r)
       /\ r.recv_next = taken.recv_next /\ r.timers = taken.timers
  BY <1>8, <1>10, PureAckBeside
<1>12. Mail(taken, b) /\ taken.recv_next \in b.acks => Mail(r, b)
  BY <1>8, <1>10, PureAckMail
<1>13. Mail(s, b) => Mail(taken, b)
  BY <1>8, LessMail DEF Taken
<1> HIDE DEF r
<1> QED
  BY <1>8, <1>9, <1>11, <1>12, <1>13 DEF Taken, Beside, SameNumbers

\* A FIN moves recv_next_ and the state, and is acknowledged.
LEMMA FinCarries ==
  ASSUME NEW s, WellFormed(s), NEW packet \in myu_tcp_packet, NEW v \in TcpState, NEW b
  PROVE  LET r == AcceptFin(s, packet, v)
         IN  /\ Beside(r, s) /\ r.state = v /\ r.send_unack = s.send_unack
             /\ r.recv_next \in Word
             /\ Mail(s, b) /\ Word \subseteq b.acks => Mail(r, b)
<1> DEFINE n == Plus(packet.seq, 1)
           a == [s EXCEPT !.recv_next = n]
           k == send_pure_ack(a, a.recv_next)
           r == [k EXCEPT !.state = v]
<1>1. n \in Word
  BY WordArith DEF myu_tcp_packet, Word
<1>2. AcceptFin(s, packet, v) = r
  BY DEF AcceptFin
<1> HIDE DEF n
<1>3. WellFormed(a) /\ a.recv_next = n
  BY <1>1, FieldType
<1>4. /\ Beside(a, s) /\ a.send_unack = s.send_unack
      /\ a.timers = s.timers /\ a.out = s.out
  BY DEF Beside, WellFormed, Session
<1> HIDE DEF a
<1>5. /\ Beside(k, a) /\ SameNumbers(k, a) /\ WellFormed(k) /\ k.recv_next = n
  BY <1>1, <1>3, PureAckBeside
<1>6. Mail(a, b) /\ n \in b.acks => Mail(k, b)
  BY <1>1, <1>3, PureAckMail
<1>7. Mail(s, b) => Mail(a, b)
  BY <1>4, LessMail DEF Beside
<1> HIDE DEF k
<1>8. /\ Beside(r, k) /\ r.state = v /\ r.send_unack = k.send_unack
      /\ r.timers = k.timers /\ r.out = k.out /\ r.recv_next = n
  BY <1>5 DEF Beside, WellFormed, Session
<1>9. Mail(k, b) => Mail(r, b)
  BY <1>8, LessMail DEF Beside
<1> HIDE DEF r
<1> QED
  BY <1>1, <1>2, <1>4, <1>5, <1>6, <1>7, <1>8, <1>9 DEF Beside, SameNumbers

\* The acknowledgement of a SYN or FIN moves send_unack_ and the state.
LEMMA ControlAckCarries ==
  ASSUME NEW s, WellFormed(s), NEW ack \in Word, NEW v \in TcpState, NEW b
  PROVE  LET r == TakeControlAck(s, ack, v)
         IN  /\ WellFormed(r) /\ Beside(r, s) /\ r.state = v /\ r.send_unack = ack
             /\ r.recv_next = s.recv_next
             /\ Mail(s, b) => Mail(r, b)
<1> DEFINE d == stop_timer(s, Minus(ack, 1))
           r == [d EXCEPT !.send_unack = ack, !.state = v]
<1>1. TakeControlAck(s, ack, v) = r
  BY DEF TakeControlAck
<1>2. WellFormed(r)
  BY <1>1, ControlAckType
<1>3. Beside(d, s) /\ d.timers \subseteq s.timers /\ d.out = s.out /\ d.recv_next = s.recv_next
      /\ WellFormed(d)
  BY TimerType DEF stop_timer, Beside, WellFormed, Session
<1> HIDE DEF d
<1>4. /\ Beside(r, d) /\ r.state = v /\ r.send_unack = ack /\ r.recv_next = d.recv_next
      /\ r.timers = d.timers /\ r.out = d.out
  BY <1>3 DEF Beside, WellFormed, Session
<1> HIDE DEF r
<1>5. r.timers \subseteq s.timers /\ r.out = s.out /\ r.self = s.self
  BY <1>3, <1>4 DEF Beside
<1>6. Mail(s, b) => Mail(r, b)
  BY <1>5, LessMail
<1> QED
  BY <1>1, <1>2, <1>3, <1>4, <1>6 DEF Beside

\* An erased session has nothing to keep to; what it has sent remains.
LEMMA EraseCarries ==
  ASSUME NEW s, WellFormed(s), NEW b
  PROVE  LET r == on_closed_cb(s)
         IN  /\ Holds(r, b) /\ r.state = "CLOSED" /\ r.alive = FALSE
             /\ r.recv_buffer = <<>> /\ r.remote = s.remote /\ r.self = s.self
             /\ Mail(s, b) => Mail(r, b)
<1> DEFINE r == on_closed_cb(s)
<1>1. /\ r.alive = FALSE /\ r.state = "CLOSED" /\ r.recv_buffer = <<>>
      /\ r.user_want_to_close = FALSE /\ r.timers = {} /\ r.out = s.out
      /\ r.self = s.self /\ r.remote = s.remote
  BY DEF on_closed_cb, NewSession
<1> HIDE DEF r
<1>2. Holds(r, b)
  BY <1>1 DEF Holds, Flight, Numbered, Streaming, Opening
<1>3. Mail(s, b) => Mail(r, b)
  BY <1>1, LessMail
<1> QED
  BY <1>1, <1>2, <1>3 DEF r

-----------------------------------------------------------------------------
(* What each handler sends, and what it takes.                             *)

\* What a handler that takes s to r does to the numbers, and what it sends if
\* the pledge covers the acknowledgements.
Accounts(r, s, b, acks) ==
  /\ Holds(r, b)
  /\ r.state \in {"ESTABLISHED", "FIN_WAIT_1", "CLOSE_WAIT"} => Advances(r, s, b)
  /\ Fits(r, s, b) /\ acks \subseteq b.acks /\ Mail(s, b) => Mail(r, b)

\* Both sides have sent a FIN, or may: a byte sent now lies beyond ours.
Crossing(s) == s.state = "FIN_WAIT_1" \/ (s.state = "CLOSE_WAIT" /\ s.user_want_to_close)

\* The peer's FIN has arrived.
Late == {"CLOSE_WAIT", "LAST_ACK", "TIME_WAIT"}

\* What an established session knows to be received is what it knew, or what the
\* packet acknowledges.
Learns(r, s, packet) ==
  r.state = "ESTABLISHED" => \/ r.send_unack = s.send_unack
                             \/ "ACK" \in packet.flags /\ r.send_unack = packet.ack

\* The session is erased.
Gone(r, s, packet) ==
  /\ r.alive = FALSE /\ r.state = "CLOSED" /\ r.recv_buffer = <<>>
  /\ s.state = "LAST_ACK" \/ ("RST" \in packet.flags /\ packet.valid)

\* The session takes nothing; only a FIN moves recv_next_.
Kept(r, s, packet) ==
  /\ r.alive = s.alive /\ r.recv_buffer = s.recv_buffer
  /\ r.state \in Opening => r.state = s.state
  /\ r.state = "ESTABLISHED" => s.state \in {"SYN_RECEIVED", "ESTABLISHED"}
  /\ r.state = "FIN_WAIT_2" => s.state \in {"FIN_WAIT_1", "FIN_WAIT_2"}
  /\ r.state \in Late => s.state \in Late \/ "FIN" \in packet.flags
  /\ r.recv_next = s.recv_next \/ ("FIN" \in packet.flags /\ r.state \in Late)
  /\ Learns(r, s, packet)

\* The session takes its peer's initial sequence number.
Opened(r, s, packet) ==
  /\ r.alive = s.alive /\ r.recv_buffer = s.recv_buffer
  /\ s.state = "LISTEN" /\ r.state = "SYN_RECEIVED" /\ "SYN" \in packet.flags
  /\ r.recv_next = Plus(packet.seq, 1)

\* So does a client, which is established then.
Joined(r, s, packet) ==
  /\ r.alive = s.alive /\ r.recv_buffer = s.recv_buffer
  /\ s.state = "SYN_SENT" /\ r.state = "ESTABLISHED" /\ {"SYN", "ACK"} \subseteq packet.flags
  /\ packet.ack = ExpectedAck(s) /\ r.send_unack = packet.ack
  /\ r.recv_next = Plus(packet.seq, 1)

\* The session takes the next bytes.
Accepted(r, s, packet) ==
  /\ r.alive = s.alive /\ s.state = "ESTABLISHED"
  /\ packet.payload # <<>> /\ packet.seq = s.recv_next
  /\ r.recv_buffer = s.recv_buffer \o packet.payload
  /\ \/ r.state = "ESTABLISHED" /\ r.recv_next = Plus(s.recv_next, Len(packet.payload))
     \/ r.state = "CLOSE_WAIT" /\ "FIN" \in packet.flags
  /\ Learns(r, s, packet)

\* How a session answers a packet.
Follows(r, s, packet) ==
  /\ r.remote = s.remote
  /\ Crossing(r) => Crossing(s)
  /\ Streaming(r) => Streaming(s) \/ s.state \in {"SYN_SENT", "SYN_RECEIVED"}
  /\ \/ Gone(r, s, packet) \/ Kept(r, s, packet) \/ Opened(r, s, packet)
     \/ Joined(r, s, packet) \/ Accepted(r, s, packet)

\* The acknowledgements that a packet may provoke: none as long as the session has
\* not taken its peer's initial sequence number.
Acks(r, s, packet) ==
  IF s.state \in {"LISTEN", "SYN_SENT"} THEN IF r.state = s.state THEN {} ELSE {r.recv_next}
  ELSE IF "FIN" \in packet.flags /\ r.state # "ESTABLISHED" THEN Word
  ELSE {s.recv_next, r.recv_next}

\* Carries, in an established session, composes.
LEMMA CarriesTrans ==
  ASSUME NEW r, WellFormed(r), NEW q, WellFormed(q), NEW s, WellFormed(s), NEW b, Pledge(b),
         Carries(q, s, b), Carries(r, q, b), q.recv_next = s.recv_next,
         s.state = "ESTABLISHED", q.state = "ESTABLISHED", r.state = "ESTABLISHED"
  PROVE  Carries(r, s, b)
<1>0. /\ Off(b.i, s.send_next) \in Nat /\ Off(b.i, q.send_next) \in Nat
      /\ Off(b.i, r.send_next) \in Nat /\ b.g \in Int
  BY NumberFacts DEF Pledge
<1>1. Advances(r, s, b)
  BY <1>0 DEF Carries, Advances
<1>2. Fits(r, s, b) => Fits(r, q, b) /\ Fits(q, s, b)
  <2>1. ~b.any => Top(q, b) <= Top(r, b)
    BY <1>0 DEF Carries, Advances, Top
  <2>2. /\ Top(q, b) \in Int /\ Top(r, b) \in Int /\ b.g \in Int
    BY <1>0 DEF Top
  <2> QED
    BY <2>1, <2>2 DEF Fits, Streaming
<1> QED
  BY <1>1, <1>2 DEF Carries

\* LISTEN: a SYN is answered under a new initial sequence number.
LEMMA ListenCarries ==
  ASSUME NEW s, SessionInv(s), s.alive, s.state = "LISTEN", NEW b, Pledge(b), Holds(s, b),
         NEW packet \in myu_tcp_packet, NEW iss \in Word,
         handle_listen(s, packet, iss).state # "LISTEN"
           => iss \in b.joins /\ (b.any \/ iss = b.i)
  PROVE  LET r == handle_listen(s, packet, iss)
         IN  Accounts(r, s, b, Acks(r, s, packet)) /\ Follows(r, s, packet)
<1> DEFINE n == Plus(packet.seq, 1)
           a == [s EXCEPT !.send_next = iss, !.send_unack = iss,
                          !.recv_next = n, !.state = "SYN_RECEIVED"]
           r == send_control_packet(a, {"SYN", "ACK"})
<1>0. WellFormed(s)
  BY DEF SessionInv
<1>1. n \in Word
  BY WordArith DEF myu_tcp_packet, Word
<1>2. handle_listen(s, packet, iss) = IF "SYN" \in packet.flags THEN r ELSE s
  BY DEF handle_listen, Has
<1> HIDE DEF n
<1>3. /\ WellFormed(a) /\ a.alive = s.alive /\ a.self = s.self /\ a.remote = s.remote
      /\ a.state = "SYN_RECEIVED" /\ a.send_next = iss /\ a.send_unack = iss
      /\ a.recv_next = n /\ a.send_buffer = s.send_buffer /\ a.recv_buffer = s.recv_buffer
      /\ a.user_want_to_close = s.user_want_to_close /\ a.timers = s.timers /\ a.out = s.out
  BY <1>0, <1>1 DEF WellFormed, Session, TcpState
<1> HIDE DEF a
<1>4. {"SYN", "ACK"} \in SUBSET TcpFlag /\ a.remote \in Addr /\ HasFields(a)
  BY <1>3 DEF TcpFlag, WellFormed, Session, HasFields, Watched
<1>5. /\ r.send_next = Plus(iss, 1)
      /\ iss \in b.joins /\ (b.any \/ iss = b.i) /\ Mail(a, b) /\ n \in b.acks => Mail(r, b)
  BY <1>3, <1>4, ControlMail
<1>6. Keeps(r, a) /\ Frame(r, a)
  BY <1>3, <1>4, ControlType, ControlFrame
<1>7. Mail(s, b) => Mail(a, b)
  BY <1>3, LessMail
<1> HIDE DEF r
<1>8. /\ r.alive = s.alive /\ r.state = "SYN_RECEIVED" /\ r.send_unack = iss
      /\ r.send_buffer = s.send_buffer /\ r.user_want_to_close = s.user_want_to_close
      /\ r.remote = s.remote /\ r.recv_next = n /\ r.recv_buffer = s.recv_buffer
  BY <1>3, <1>6 DEF Keeps, Frame
<1>9. ASSUME "SYN" \in packet.flags PROVE Accounts(r, s, b, {n}) /\ Follows(r, s, packet)
  <2>1. iss \in b.joins /\ (b.any \/ iss = b.i)
    BY <1>2, <1>8, <1>9
  <2>2. Holds(r, b)
    BY <1>5, <1>8, <2>1 DEF Holds, Flight, Numbered, Streaming, Opening
  <2>3. Accounts(r, s, b, {n})
    BY <1>5, <1>7, <1>8, <2>1, <2>2 DEF Accounts
  <2>4. Follows(r, s, packet)
    BY <1>8, <1>9 DEF Follows, Opened, Crossing, Streaming, n
  <2> QED
    BY <2>3, <2>4
<1>10. Accounts(s, s, b, Acks(s, s, packet)) /\ Follows(s, s, packet)
  BY DEF Accounts, Follows, Kept, Learns, Late
<1>11. Acks(r, s, packet) = {n}
  BY <1>8 DEF Acks
<1> QED
  BY <1>2, <1>9, <1>10, <1>11

\* The handshake is complete: what is in flight is acknowledged.
LEMMA HandshakeCarries ==
  ASSUME NEW s, WellFormed(s), s.alive, s.state \in {"SYN_SENT", "SYN_RECEIVED"},
         NEW b, Pledge(b), Holds(s, b)
  PROVE  LET r == handle_try_send(TakeControlAck(s, ExpectedAck(s), "ESTABLISHED"))
         IN  /\ Holds(r, b) /\ Advances(r, s, b)
             /\ r.state = "ESTABLISHED" /\ r.alive /\ r.remote = s.remote
             /\ r.recv_next = s.recv_next /\ r.recv_buffer = s.recv_buffer
             /\ r.send_unack = ExpectedAck(s) /\ ~r.user_want_to_close
             /\ Fits(r, s, b) /\ s.recv_next \in b.acks /\ Mail(s, b) => Mail(r, b)
<1> DEFINE ack == ExpectedAck(s)
           t == TakeControlAck(s, ack, "ESTABLISHED")
           r == handle_try_send(t)
<1>1. ack \in Word /\ ack = s.send_next
  BY Numbers, WordArith DEF ExpectedAck, Holds, Flight
<1>2. /\ WellFormed(t) /\ Beside(t, s) /\ t.state = "ESTABLISHED" /\ t.send_unack = ack
      /\ t.recv_next = s.recv_next
      /\ Mail(s, b) => Mail(t, b)
  BY <1>1, ControlAckCarries DEF TcpState
<1>3. ~s.user_want_to_close
  BY DEF Holds, Flight, Opening
<1> HIDE DEF t
<1>4. Holds(t, b)
  <2>1. Minus(t.send_next, t.send_unack) = 0
    <3>1. t.send_next = s.send_next /\ s.send_next \in Word
      BY <1>2, Numbers DEF Beside
    <3> QED
      BY <1>1, <1>2, <3>1, OffArith DEF Off
  <2>2. Flight(t)
    BY <1>2, <1>3, <2>1, NumberFacts DEF Flight, Beside, Opening
  <2>3. ASSUME ~b.any PROVE Numbered(t, b)
    <3>1. /\ Numbered(s, b) /\ s.send_unack = b.i /\ s.send_next = Plus(b.i, 1)
          /\ Len(s.send_buffer) = b.A
      BY <2>3 DEF Holds, Flight, Numbered, Opening
    <3>2. Off(b.i, b.i) = 0 /\ b.i \in Word
      BY OffArith DEF Pledge
    <3>3. Off(b.i, b.i) + 1 < SeqMod
      BY <3>2, NumberFacts
    <3>4. Off(b.i, Plus(b.i, 1)) = 1
      BY <3>2, <3>3, OffArith
    <3>5. Off(b.i, t.send_unack) = 1
      BY <1>1, <1>2, <3>1, <3>4
    <3>6. 1 + b.A - Len(t.send_buffer) = 1
      BY <1>2, <3>1, NumberFacts DEF Beside
    <3> QED
      BY <1>2, <3>1, <3>5, <3>6 DEF Numbered, Beside, Opening
  <2> QED
    BY <2>2, <2>3 DEF Holds
<1>5. Carries(r, t, b) /\ Keeps(r, t)
  BY <1>2, <1>4, TrySendCarries, TrySendType DEF Beside
<1>6. Frame(r, t)
  BY <1>2, TrySendFrame DEF WellFormed, Session, HasFields, Watched
<1>7. t.send_next = s.send_next
  BY <1>2 DEF Beside
<1> HIDE DEF r
<1>8. /\ r.state = "ESTABLISHED" /\ r.alive = s.alive /\ r.remote = s.remote
      /\ r.recv_next = s.recv_next /\ r.recv_buffer = s.recv_buffer
      /\ r.send_unack = ack /\ r.user_want_to_close = s.user_want_to_close
  BY <1>2, <1>5, <1>6 DEF Keeps, Frame, Beside
<1>9. Advances(r, s, b)
  BY <1>5, <1>7 DEF Carries, Advances
<1>10. Fits(r, s, b) => Fits(r, t, b)
  BY <1>2, <1>8 DEF Fits
<1> QED
  BY <1>2, <1>3, <1>5, <1>8, <1>9, <1>10 DEF Carries, r, t

\* SYN_SENT: the SYN-ACK.  (A SYN alone does not reach a client whose peer only
\* listens.)
LEMMA SynSentCarries ==
  ASSUME NEW s, SessionInv(s), s.alive, s.state = "SYN_SENT", NEW b, Pledge(b), Holds(s, b),
         NEW packet \in myu_tcp_packet, "SYN" \in packet.flags => "ACK" \in packet.flags
  PROVE  LET r == handle_syn_sent(s, packet)
         IN  Accounts(r, s, b, Acks(r, s, packet)) /\ Follows(r, s, packet)
<1> DEFINE n == Plus(packet.seq, 1)
           synced == [s EXCEPT !.recv_next = n]
           acked == send_pure_ack(synced, synced.recv_next)
           r == handle_try_send(TakeControlAck(acked, ExpectedAck(acked), "ESTABLISHED"))
           done == {"SYN", "ACK"} \subseteq packet.flags /\ packet.ack = ExpectedAck(s)
<1>0. WellFormed(s)
  BY DEF SessionInv
<1>1. n \in Word
  BY WordArith DEF myu_tcp_packet, Word
<1> HIDE DEF n
<1>2. /\ WellFormed(synced) /\ SameNumbers(synced, s) /\ synced.recv_next = n
      /\ Beside(synced, s) /\ synced.timers = s.timers /\ synced.out = s.out
  BY <1>0, <1>1 DEF WellFormed, Session, SameNumbers, Beside
<1>3. handle_syn_sent(s, packet)
        = IF done
            THEN handle_try_send(TakeControlAck(send_pure_ack(synced, synced.recv_next),
                                                packet.ack, "ESTABLISHED"))
            ELSE s
  BY DEF handle_syn_sent, Has, n
<1> HIDE DEF synced
<1>4. /\ Beside(acked, synced) /\ SameNumbers(acked, synced) /\ WellFormed(acked)
      /\ acked.recv_next = n
      /\ Mail(synced, b) /\ n \in b.acks => Mail(acked, b)
  BY <1>1, <1>2, PureAckBeside, PureAckMail
<1> HIDE DEF acked
<1>5. SameNumbers(acked, s) /\ Beside(acked, s)
  BY <1>2, <1>4 DEF SameNumbers, Beside
<1>6. ExpectedAck(acked) = ExpectedAck(s)
  BY <1>5 DEF ExpectedAck, SameNumbers
<1>7. handle_syn_sent(s, packet) = IF done THEN r ELSE s
  BY <1>3, <1>6 DEF acked
<1>8. Holds(acked, b) /\ acked.alive /\ acked.state = "SYN_SENT"
  BY <1>5, SameHolds DEF SameNumbers
<1>9. /\ Holds(r, b) /\ Advances(r, acked, b)
      /\ r.state = "ESTABLISHED" /\ r.alive /\ r.remote = acked.remote
      /\ r.recv_next = n /\ r.recv_buffer = acked.recv_buffer
      /\ r.send_unack = ExpectedAck(s) /\ ~r.user_want_to_close
      /\ Fits(r, acked, b) /\ n \in b.acks /\ Mail(acked, b) => Mail(r, b)
  BY <1>4, <1>6, <1>8, HandshakeCarries
<1> HIDE DEF r
<1>10. Mail(s, b) => Mail(synced, b)
  BY <1>2, LessMail DEF Beside
<1>11. Fits(r, s, b) => Fits(r, acked, b)
  BY <1>8 DEF Fits
<1>12. Advances(r, s, b)
  BY <1>5, <1>9 DEF Advances, SameNumbers
<1>13. Accounts(r, s, b, Acks(r, s, packet))
  BY <1>4, <1>9, <1>10, <1>11, <1>12 DEF Accounts, Acks
<1>14. done => Follows(r, s, packet)
  BY <1>5, <1>9 DEF Follows, Joined, Crossing, Streaming, Beside, n
<1>15. Follows(s, s, packet)
  BY DEF Follows, Kept, Learns, Late
<1>16. Accounts(s, s, b, Acks(s, s, packet))
  BY DEF Accounts
<1> QED
  BY <1>7, <1>13, <1>14, <1>15, <1>16

\* SYN_RECEIVED: the last acknowledgement of the handshake.
LEMMA SynReceivedCarries ==
  ASSUME NEW s, SessionInv(s), s.alive, s.state = "SYN_RECEIVED", NEW b, Pledge(b),
         Holds(s, b), NEW packet \in myu_tcp_packet
  PROVE  LET r == handle_syn_received(s, packet)
         IN  Accounts(r, s, b, {s.recv_next}) /\ Follows(r, s, packet)
<1> DEFINE r == handle_try_send(TakeControlAck(s, ExpectedAck(s), "ESTABLISHED"))
           done == "ACK" \in packet.flags /\ packet.ack = ExpectedAck(s)
<1>1. WellFormed(s)
  BY DEF SessionInv
<1>2. handle_syn_received(s, packet) = IF done THEN r ELSE s
  BY DEF handle_syn_received, Has
<1>3. /\ Holds(r, b) /\ Advances(r, s, b)
      /\ r.state = "ESTABLISHED" /\ r.alive /\ r.remote = s.remote
      /\ r.recv_next = s.recv_next /\ r.recv_buffer = s.recv_buffer
      /\ r.send_unack = ExpectedAck(s) /\ ~r.user_want_to_close
      /\ Fits(r, s, b) /\ s.recv_next \in b.acks /\ Mail(s, b) => Mail(r, b)
  BY <1>1, HandshakeCarries
<1> HIDE DEF r
<1>4. Accounts(r, s, b, {s.recv_next})
  BY <1>3 DEF Accounts
<1>5. done => Follows(r, s, packet)
  BY <1>3 DEF Follows, Kept, Learns, Late, Opening, Crossing, Streaming
<1>6. Follows(s, s, packet)
  BY DEF Follows, Kept, Learns, Late
<1>7. Accounts(s, s, b, {s.recv_next})
  BY DEF Accounts
<1> QED
  BY <1>2, <1>4, <1>5, <1>6, <1>7

\* ESTABLISHED: an acknowledgement, data and a FIN.
LEMMA EstablishedCarries ==
  ASSUME ConnectsClosed,
         NEW s, SessionInv(s), s.alive, s.state = "ESTABLISHED", NEW b, Pledge(b),
         Holds(s, b), NEW packet \in myu_tcp_packet
  PROVE  LET r == handle_established(s, packet)
         IN  Accounts(r, s, b, Acks(r, s, packet)) /\ Follows(r, s, packet)
<1> DEFINE h == handle_ack(s, packet)
           acked == IF Has(packet, "ACK") THEN handle_try_send(h) ELSE s
           taken == handle_incoming_packet(acked, packet)
           read == CASE packet.payload = <<>> -> acked
                     [] packet.payload # <<>> /\ InOrder(acked, packet) -> on_data_cb(taken)
                     [] OTHER -> taken
           fin == AcceptFin(read, packet, "CLOSE_WAIT")
           last == on_data_cb(fin)
<1>0. WellFormed(s) /\ HasFields(s) /\ s.ooo_map = {} /\ packet.ack \in Word
  BY SessionHasFields DEF SessionInv, myu_tcp_packet
<1>1. handle_established(s, packet) = IF "FIN" \in packet.flags THEN last ELSE read
  BY DEF handle_established, Has
<1>2. /\ WellFormed(acked) /\ Frame(acked, s) /\ Carries(acked, s, b)
      /\ acked.recv_next = s.recv_next /\ Learns(acked, s, packet) /\ acked.self = s.self
  <2>1. CASE "ACK" \in packet.flags
    <3>1. /\ Carries(h, s, b) /\ h.recv_next = s.recv_next
          /\ h.send_unack \in {s.send_unack, packet.ack}
      BY <1>0, AckCarries
    <3>2. SessionInv(h) /\ h.state = s.state /\ h.self = s.self
      BY AckInv
    <3>3. Frame(h, s)
      BY <1>0, AckFrame
    <3> HIDE DEF h
    <3>4. WellFormed(h) /\ Holds(h, b) /\ h.alive /\ HasFields(h)
      BY <3>1, <3>2, <3>3 DEF SessionInv, Carries, Frame
    <3> DEFINE q == handle_try_send(h)
    <3>5. Carries(q, h, b) /\ WellFormed(q) /\ Keeps(q, h) /\ Frame(q, h)
      BY <3>4, TrySendCarries, TrySendType, TrySendFrame
    <3>6. acked = q
      BY <2>1 DEF Has
    <3> HIDE DEF q, acked
    <3>7. Carries(q, s, b)
      BY <1>0, <3>1, <3>2, <3>4, <3>5, CarriesTrans DEF Keeps
    <3>8. Frame(q, s)
      BY <3>3, <3>5, FrameTrans
    <3>9. q.recv_next = s.recv_next /\ Learns(q, s, packet) /\ q.self = s.self
      BY <2>1, <3>1, <3>2, <3>5 DEF Keeps, Learns
    <3> QED
      BY <3>5, <3>6, <3>7, <3>8, <3>9
  <2>2. CASE "ACK" \notin packet.flags
    <3>1. acked = s
      BY <2>2 DEF Has
    <3>2. Carries(s, s, b)
      BY <1>0, NumberFacts DEF Carries, Advances
    <3> QED
      BY <1>0, <3>1, <3>2 DEF Frame, Learns
  <2> QED
    BY <2>1, <2>2
<1> HIDE DEF acked
<1> DEFINE Read(q) ==
             /\ WellFormed(q) /\ SameNumbers(q, acked)
             /\ q.self = s.self /\ q.remote = s.remote
             /\ \/ q.recv_next = s.recv_next /\ q.recv_buffer = s.recv_buffer
                \/ /\ packet.payload # <<>> /\ packet.seq = s.recv_next
                   /\ q.recv_buffer = s.recv_buffer \o packet.payload
                   /\ q.recv_next = Plus(s.recv_next, Len(packet.payload))
             /\ Mail(acked, b) /\ q.recv_next \in b.acks => Mail(q, b)
<1>3. Read(acked)
  BY <1>2 DEF SameNumbers, Frame
<1>4. packet.payload # <<>> => Read(taken)
  <2>1. /\ SameNumbers(taken, acked) /\ taken.self = acked.self
        /\ taken.remote = acked.remote /\ WellFormed(taken)
        /\ \/ taken.recv_next = acked.recv_next /\ taken.recv_buffer = acked.recv_buffer
           \/ /\ packet.seq = acked.recv_next
              /\ taken.recv_buffer = acked.recv_buffer \o packet.payload
              /\ taken.recv_next = Plus(acked.recv_next, Len(packet.payload))
        /\ Mail(acked, b) /\ taken.recv_next \in b.acks => Mail(taken, b)
    <3>1. acked.ooo_map = {}
      BY <1>0, <1>2 DEF Frame
    <3> QED
      BY <1>2, <3>1, IncomingCarries
  <2>2. /\ acked.self = s.self /\ acked.remote = s.remote
        /\ acked.recv_next = s.recv_next /\ acked.recv_buffer = s.recv_buffer
    BY <1>2 DEF Frame
  <2> HIDE DEF taken
  <2> QED
    BY <2>1, <2>2
<1>5. ASSUME NEW q, WellFormed(q)
      PROVE  LET d == on_data_cb(q)
             IN  /\ WellFormed(d) /\ SameNumbers(d, q) /\ d.self = q.self
                 /\ d.remote = q.remote /\ d.timers = q.timers /\ d.out = q.out
                 /\ d.recv_next = q.recv_next /\ d.recv_buffer = q.recv_buffer
  BY <1>5 DEF on_data_cb, WellFormed, Session, SameNumbers
<1>6. ASSUME NEW q, Read(q) PROVE Read(on_data_cb(q))
  <2> DEFINE d == on_data_cb(q)
  <2>1. /\ WellFormed(d) /\ SameNumbers(d, q) /\ d.self = q.self
        /\ d.remote = q.remote /\ d.timers = q.timers /\ d.out = q.out
        /\ d.recv_next = q.recv_next /\ d.recv_buffer = q.recv_buffer
    BY <1>5, <1>6
  <2> HIDE DEF d
  <2>2. Mail(q, b) => Mail(d, b)
    BY <2>1, LessMail
  <2>3. Read(d)
    BY <1>6, <2>1, <2>2 DEF SameNumbers
  <2> QED
    BY <2>3 DEF d
<1> HIDE DEF Read, taken
<1>7. Read(read)
  BY <1>3, <1>4, <1>6
<1> HIDE DEF read
<1>8. /\ acked.alive = s.alive /\ acked.state = "ESTABLISHED" /\ acked.remote = s.remote
      /\ ~acked.user_want_to_close /\ acked.recv_buffer = s.recv_buffer
  BY <1>2 DEF Frame, Carries, Holds, Flight, Opening
<1>9. /\ Accounts(read, s, b, {s.recv_next, read.recv_next}) /\ read.state = "ESTABLISHED"
      /\ Advances(read, s, b) /\ Top(read, b) = Top(acked, b)
  <2>1. Holds(read, b) /\ read.state = "ESTABLISHED" /\ Top(read, b) = Top(acked, b)
    BY <1>2, <1>7, <1>8, SameHolds DEF Read, Carries, SameNumbers
  <2>2. Advances(read, s, b)
    BY <1>2, <1>7 DEF Read, SameNumbers, Carries, Advances
  <2>3. Fits(read, s, b) => Fits(acked, s, b)
    BY <1>8, <2>1 DEF Fits, Streaming
  <2>4. Fits(read, s, b) /\ {s.recv_next, read.recv_next} \subseteq b.acks /\ Mail(s, b)
          => Mail(read, b)
    BY <1>2, <1>7, <2>3 DEF Read, Carries
  <2> QED
    BY <2>1, <2>2, <2>4 DEF Accounts
<1>10. /\ read.alive = s.alive /\ read.remote = s.remote /\ ~read.user_want_to_close
       /\ read.self = s.self /\ WellFormed(read)
  BY <1>7, <1>8 DEF Read, SameNumbers
<1>11. Learns(read, s, packet)
  BY <1>2, <1>7, <1>8, <1>9 DEF Read, SameNumbers, Learns
<1>12. Follows(read, s, packet)
  BY <1>7, <1>9, <1>10, <1>11
     DEF Read, Follows, Kept, Accepted, Late, Opening, Crossing, Streaming
<1>13. ASSUME "FIN" \in packet.flags
       PROVE  /\ Accounts(last, s, b, Word) /\ Follows(last, s, packet)
              /\ last.state = "CLOSE_WAIT"
  <2>1. WellFormed(fin)
    BY <1>10, FinType DEF TcpState
  <2>2. /\ Beside(fin, read) /\ fin.state = "CLOSE_WAIT" /\ fin.send_unack = read.send_unack
        /\ Mail(read, b) /\ Word \subseteq b.acks => Mail(fin, b)
    BY <1>10, FinCarries DEF TcpState
  <2> HIDE DEF fin
  <2>3. /\ SameNumbers(last, fin) /\ last.self = fin.self /\ WellFormed(last)
        /\ last.remote = fin.remote /\ last.timers = fin.timers /\ last.out = fin.out
        /\ last.recv_next = fin.recv_next /\ last.recv_buffer = fin.recv_buffer
    BY <1>5, <2>1
  <2> HIDE DEF last
  <2>4. Mail(fin, b) => Mail(last, b)
    BY <2>3, LessMail
  <2>5. /\ last.alive = read.alive /\ last.state = "CLOSE_WAIT"
        /\ last.send_next = read.send_next /\ last.send_unack = read.send_unack
        /\ last.send_buffer = read.send_buffer /\ last.recv_buffer = read.recv_buffer
        /\ last.user_want_to_close = read.user_want_to_close /\ last.remote = read.remote
    BY <2>2, <2>3 DEF Beside, SameNumbers
  <2>6. Holds(last, b)
    BY <1>9, <1>10, <2>5
       DEF Accounts, Holds, Flight, Numbered, Streaming, Opening
  <2>7. Advances(last, s, b)
    BY <1>9, <2>5 DEF Advances
  <2>8. Fits(last, s, b) => Fits(read, s, b)
    BY <1>9, <1>10, <2>5 DEF Fits, Streaming, Top
  <2>9. {s.recv_next, read.recv_next} \subseteq Word
    BY <1>0, <1>10, Numbers
  <2>10. Accounts(last, s, b, Word)
    <3>1. ASSUME Word \subseteq b.acks, Fits(last, s, b), Mail(s, b) PROVE Mail(last, b)
      <4>1. Mail(read, b)
        BY <1>9, <2>8, <2>9, <3>1 DEF Accounts
      <4> QED
        BY <2>2, <2>4, <3>1, <4>1
    <3> QED
      BY <2>6, <2>7, <3>1 DEF Accounts
  <2>11. Follows(last, s, packet)
    BY <1>7, <1>10, <1>13, <2>5
       DEF Read, Follows, Kept, Accepted, Learns, Late, Opening, Crossing, Streaming
  <2> QED
    BY <2>5, <2>10, <2>11
<1> HIDE DEF last
<1> QED
  BY <1>1, <1>9, <1>12, <1>13 DEF Acks

\* FIN_WAIT_1: the acknowledgement of our FIN, the peer's FIN, or both.
LEMMA FinWait1Carries ==
  ASSUME NEW s, SessionInv(s), s.alive, s.state = "FIN_WAIT_1", NEW b, Pledge(b),
         Holds(s, b), NEW packet \in myu_tcp_packet
  PROVE  LET r == handle_fin_wait_1(s, packet)
         IN  Accounts(r, s, b, Acks(r, s, packet)) /\ Follows(r, s, packet)
<1> DEFINE t == TakeControlAck(s, packet.ack, "FIN_WAIT_2")
           acked == IF Has(packet, "ACK") /\ packet.ack = ExpectedAck(s) THEN t ELSE s
           fin == AcceptFin(acked, packet, "CLOSE_WAIT")
           l == Len(s.send_buffer)
           n == Off(b.i, s.send_next)
           u == Off(b.i, s.send_unack)
           Passed(q) == LET w == Off(b.i, q.send_unack)
                        IN  w + l <= b.A + 2 /\ w <= n /\ 1 <= n /\ n <= b.A + 2
<1>0. WellFormed(s) /\ packet.ack \in Word
  BY DEF SessionInv, myu_tcp_packet
<1>1. handle_fin_wait_1(s, packet) = IF "FIN" \in packet.flags THEN fin ELSE acked
  BY DEF handle_fin_wait_1, Has
<1>2. s.user_want_to_close /\ Flight(s)
  BY DEF Holds, Flight
<1>3. /\ WellFormed(acked) /\ Beside(acked, s) /\ acked.recv_next = s.recv_next
      /\ acked.state \in {"FIN_WAIT_1", "FIN_WAIT_2"}
      /\ acked.state = "FIN_WAIT_1" => acked = s
      /\ acked.send_unack \in {s.send_unack, Plus(s.send_unack, 1)}
      /\ Mail(s, b) => Mail(acked, b)
  <2>1. /\ WellFormed(t) /\ Beside(t, s) /\ t.state = "FIN_WAIT_2"
        /\ t.send_unack = packet.ack /\ t.recv_next = s.recv_next
        /\ Mail(s, b) => Mail(t, b)
    BY <1>0, ControlAckCarries DEF TcpState
  <2>2. Beside(s, s)
    BY DEF Beside
  <2> HIDE DEF t
  <2>3. CASE acked = s
    BY <1>0, <2>2, <2>3
  <2>4. CASE acked = t /\ packet.ack = Plus(s.send_unack, 1)
    <3> HIDE DEF acked
    <3> QED
      BY <2>1, <2>4
  <2> QED
    BY <2>3, <2>4 DEF ExpectedAck
<1> HIDE DEF acked
<1>4. ~b.any => /\ Passed(acked) /\ l <= b.A /\ b.A <= b.m
                /\ \A x \in 1..l : s.send_buffer[x] = b.A - l + x
  <2> HAVE ~b.any
  <2>1. /\ u + l <= b.A + 1 /\ u + 1 <= n /\ n <= b.A + 2 /\ l <= b.A /\ b.A <= b.m
        /\ \A x \in 1..l : s.send_buffer[x] = b.A - l + x
    BY DEF Holds, Numbered
  <2>2. /\ n \in Nat /\ u \in Nat /\ l \in Nat /\ b.A \in Nat /\ n < SeqMod /\ SeqMod \in Nat
    BY <1>0, NumberFacts
  <2>3. u + 1 < SeqMod
    <3> HIDE DEF u, l, n
    <3> QED
      BY <2>1, <2>2
  <2>4. Off(b.i, Plus(s.send_unack, 1)) = u + 1
    BY <1>0, <2>3, NumberFacts, OffArith
  <2>5. Off(b.i, acked.send_unack) \in {u, u + 1}
    BY <1>3, <2>4
  <2> HIDE DEF u, l, n
  <2> QED
    BY <2>1, <2>2, <2>5
<1> HIDE DEF Passed
<1>5. Holds(acked, b)
  <2>1. CASE acked.state = "FIN_WAIT_1"
    BY <1>3, <2>1
  <2>2. CASE acked.state = "FIN_WAIT_2"
    BY <1>3, <1>4, <2>2 DEF Holds, Flight, Numbered, Streaming, Opening, Beside
  <2> QED
    BY <1>3, <2>1, <2>2
<1>6. Advances(acked, s, b)
  BY <1>0, <1>3, NumberFacts DEF Advances, Beside
<1>7. Accounts(acked, s, b, Acks(acked, s, packet))
  BY <1>3, <1>5, <1>6 DEF Accounts
<1>8. Follows(acked, s, packet)
  BY <1>2, <1>3 DEF Follows, Kept, Learns, Late, Opening, Crossing, Streaming, Beside
<1>9. ASSUME "FIN" \in packet.flags
      PROVE  /\ Accounts(fin, s, b, Word) /\ Follows(fin, s, packet)
             /\ fin.state = "CLOSE_WAIT"
  <2>1. /\ Beside(fin, acked) /\ fin.state = "CLOSE_WAIT"
        /\ fin.send_unack = acked.send_unack
        /\ Mail(acked, b) /\ Word \subseteq b.acks => Mail(fin, b)
    BY <1>3, FinCarries DEF TcpState
  <2> HIDE DEF fin
  <2>2. Beside(fin, s)
    BY <1>3, <2>1 DEF Beside
  <2>3. Holds(fin, b)
    <3>1. Flight(fin)
      BY <1>2, <2>1, <2>2 DEF Flight, Streaming, Opening, Beside
    <3>2. ~b.any => Numbered(fin, b)
      BY <1>2, <1>4, <2>1, <2>2 DEF Numbered, Passed, Streaming, Opening, Beside
    <3> QED
      BY <3>1, <3>2 DEF Holds
  <2>4. Advances(fin, s, b)
    BY <1>0, <2>2, NumberFacts DEF Advances, Beside
  <2>5. Accounts(fin, s, b, Word)
    BY <1>3, <2>1, <2>3, <2>4 DEF Accounts
  <2>6. Follows(fin, s, packet)
    BY <1>2, <1>9, <2>1, <2>2
       DEF Follows, Kept, Learns, Late, Opening, Crossing, Streaming, Beside
  <2> QED
    BY <2>1, <2>5, <2>6
<1> HIDE DEF fin
<1> QED
  BY <1>1, <1>7, <1>8, <1>9 DEF Acks

\* FIN_WAIT_2 and TIME_WAIT: the peer's FIN.
LEMMA TimeWaitCarries ==
  ASSUME NEW s, SessionInv(s), s.alive, s.state \in {"FIN_WAIT_2", "TIME_WAIT"},
         NEW b, Pledge(b), Holds(s, b), NEW packet \in myu_tcp_packet
  PROVE  \A r \in {handle_fin_wait_2(s, packet), handle_timed_wait(s, packet)} :
           Accounts(r, s, b, Acks(r, s, packet)) /\ Follows(r, s, packet)
<1> DEFINE fin == AcceptFin(s, packet, "TIME_WAIT")
           timed == [fin EXCEPT !.msl_timer = TRUE]
<1>1. /\ handle_fin_wait_2(s, packet) = IF "FIN" \in packet.flags THEN timed ELSE s
      /\ handle_timed_wait(s, packet) = IF "FIN" \in packet.flags THEN fin ELSE s
  BY DEF handle_fin_wait_2, handle_timed_wait, Has
<1>2. /\ Beside(fin, s) /\ fin.state = "TIME_WAIT" /\ fin.send_unack = s.send_unack
      /\ Mail(s, b) /\ Word \subseteq b.acks => Mail(fin, b)
  BY FinCarries DEF TcpState, SessionInv
<1>3. WellFormed(fin)
  BY FinType DEF TcpState, SessionInv
<1> HIDE DEF fin
<1>4. /\ Beside(timed, fin) /\ timed.state = fin.state
      /\ timed.timers = fin.timers /\ timed.out = fin.out
  BY <1>3 DEF Beside, WellFormed, Session
<1>5. Mail(fin, b) => Mail(timed, b)
  BY <1>4, LessMail DEF Beside
<1> HIDE DEF timed
<1>6. ASSUME NEW r, Beside(r, s), r.state = "TIME_WAIT", "FIN" \in packet.flags,
             Mail(s, b) /\ Word \subseteq b.acks => Mail(r, b)
      PROVE  Accounts(r, s, b, Acks(r, s, packet)) /\ Follows(r, s, packet)
  <2>1. Holds(r, b)
    BY <1>6 DEF Holds, Flight, Numbered, Streaming, Opening, Beside
  <2>2. Accounts(r, s, b, Word)
    BY <1>6, <2>1 DEF Accounts
  <2>3. Follows(r, s, packet)
    BY <1>6 DEF Follows, Kept, Learns, Late, Opening, Crossing, Streaming, Beside
  <2> QED
    BY <1>6, <2>2, <2>3 DEF Acks
<1>7. Accounts(s, s, b, Acks(s, s, packet)) /\ Follows(s, s, packet)
  BY DEF Accounts, Follows, Kept, Learns, Late, Crossing, Streaming
<1>8. Beside(timed, s) /\ timed.state = "TIME_WAIT"
      /\ (Mail(s, b) /\ Word \subseteq b.acks => Mail(timed, b))
  BY <1>2, <1>4, <1>5 DEF Beside
<1> QED
  BY <1>1, <1>2, <1>6, <1>7, <1>8

\* CLOSE_WAIT: every packet is acknowledged, and what is left to send is sent;
\* after a simultaneous close, a second FIN may follow.
LEMMA CloseWaitCarries ==
  ASSUME NEW s, SessionInv(s), s.alive, s.state = "CLOSE_WAIT", NEW b, Pledge(b),
         Holds(s, b), NEW packet \in myu_tcp_packet, b.fin
  PROVE  LET r == handle_close_wait(s, packet)
         IN  Accounts(r, s, b, {s.recv_next}) /\ Follows(r, s, packet)
<1> DEFINE sent == send_pure_ack(s, s.recv_next)
           tried == handle_try_send(sent)
           stopped == stop_all_timers(tried)
           fin == send_control_packet(stopped, {"FIN"})
           last == [fin EXCEPT !.send_next = Plus(@, 1), !.state = "LAST_ACK"]
           over == /\ tried.user_want_to_close
                   /\ tried.send_buffer = <<>>
                   /\ tried.send_unack = tried.send_next
<1>0. WellFormed(s) /\ s.recv_next \in Word
  BY Numbers DEF SessionInv
<1>1. handle_close_wait(s, packet) = IF over THEN last ELSE tried
  BY DEF handle_close_wait
<1>2. /\ Beside(sent, s) /\ SameNumbers(sent, s) /\ WellFormed(sent)
      /\ sent.recv_next = s.recv_next
      /\ Mail(s, b) /\ s.recv_next \in b.acks => Mail(sent, b)
  BY <1>0, PureAckBeside, PureAckMail
<1> HIDE DEF sent
<1>3. Holds(sent, b) /\ sent.alive /\ sent.state = "CLOSE_WAIT" /\ Top(sent, b) = Top(s, b)
  BY <1>2, SameHolds DEF SameNumbers
<1>4. Carries(tried, sent, b) /\ Keeps(tried, sent) /\ WellFormed(tried)
  BY <1>2, <1>3, TrySendCarries, TrySendType
<1>5. Frame(tried, sent)
  BY <1>2, TrySendFrame DEF WellFormed, Session, HasFields, Watched
<1> HIDE DEF tried
<1>6. /\ tried.alive = s.alive /\ tried.state = "CLOSE_WAIT" /\ tried.remote = s.remote
      /\ tried.recv_next = s.recv_next /\ tried.recv_buffer = s.recv_buffer
      /\ tried.user_want_to_close = s.user_want_to_close
      /\ tried.send_unack = s.send_unack
  BY <1>2, <1>3, <1>4, <1>5 DEF Keeps, Frame, Beside, SameNumbers
<1>7. Fits(tried, s, b) => Fits(tried, sent, b)
  BY <1>2, <1>3 DEF Fits, SameNumbers
<1>8. Advances(tried, s, b)
  BY <1>2, <1>4 DEF Carries, Advances, SameNumbers
<1>9. Accounts(tried, s, b, {s.recv_next})
  BY <1>2, <1>4, <1>7, <1>8 DEF Accounts, Carries
<1>10. Follows(tried, s, packet)
  BY <1>6 DEF Follows, Kept, Learns, Late, Opening, Crossing, Streaming
<1>11. /\ WellFormed(stopped) /\ Beside(stopped, tried) /\ stopped.recv_next = tried.recv_next
       /\ Mail(tried, b) => Mail(stopped, b)
  <2>1. Beside(stopped, tried) /\ stopped.recv_next = tried.recv_next
    BY <1>4 DEF stop_all_timers, Beside, WellFormed, Session
  <2> QED
    BY <1>4, <2>1, TimerType, StopMail
<1> HIDE DEF stopped
<1>12. {"FIN"} \in SUBSET TcpFlag /\ stopped.remote \in Addr /\ HasFields(stopped)
  BY <1>11 DEF TcpFlag, WellFormed, Session, HasFields, Watched
<1>13. Mail(stopped, b) => Mail(fin, b)
  BY <1>11, <1>12, ControlMail
<1>14. WellFormed(fin) /\ Keeps(fin, stopped) /\ Frame(fin, stopped)
  BY <1>11, <1>12, ControlType, ControlFrame
<1> HIDE DEF fin
<1>15. /\ last.state = "LAST_ACK" /\ last.alive = fin.alive /\ last.self = fin.self
       /\ last.remote = fin.remote /\ last.send_buffer = fin.send_buffer
       /\ last.recv_buffer = fin.recv_buffer /\ last.timers = fin.timers
       /\ last.out = fin.out /\ last.user_want_to_close = fin.user_want_to_close
       /\ last.recv_next = fin.recv_next
  BY <1>14 DEF WellFormed, Session
<1> HIDE DEF last
<1>16. Mail(tried, b) => Mail(last, b)
  BY <1>11, <1>13, <1>15, LessMail
<1>17. /\ last.alive = s.alive /\ last.remote = s.remote /\ last.recv_next = s.recv_next
       /\ last.recv_buffer = s.recv_buffer /\ last.send_buffer = tried.send_buffer
  BY <1>6, <1>11, <1>14, <1>15 DEF Beside, Keeps, Frame
<1>18. Holds(last, b)
  BY <1>6, <1>9, <1>15, <1>17
     DEF Accounts, Holds, Flight, Numbered, Streaming, Opening
<1>19. Fits(last, s, b) /\ over => Fits(tried, s, b)
  BY <1>6 DEF Fits, Streaming
<1>20. over => Accounts(last, s, b, {s.recv_next})
  BY <1>9, <1>15, <1>16, <1>18, <1>19 DEF Accounts
<1>21. Follows(last, s, packet)
  BY <1>15, <1>17 DEF Follows, Kept, Learns, Late, Opening, Crossing, Streaming
<1> HIDE DEF over
<1> QED
  BY <1>1, <1>9, <1>10, <1>20, <1>21

\* LAST_ACK: the acknowledgement of our FIN erases the session; so does a RST.
LEMMA GoneCarries ==
  ASSUME NEW s, SessionInv(s), s.alive, NEW b, Pledge(b), Holds(s, b),
         NEW packet \in myu_tcp_packet
  PROVE  /\ LET r == handle_last_ack(s, packet)
            IN  s.state = "LAST_ACK" =>
                  Accounts(r, s, b, Acks(r, s, packet)) /\ Follows(r, s, packet)
         /\ LET r == handle_reset(s)
            IN  "RST" \in packet.flags /\ packet.valid =>
                  Accounts(r, s, b, Acks(r, s, packet)) /\ Follows(r, s, packet)
<1> DEFINE t == TakeControlAck(s, packet.ack, "CLOSED")
           q == stop_all_timers(s)
<1>0. WellFormed(s) /\ packet.ack \in Word
  BY DEF SessionInv, myu_tcp_packet
<1>1. ASSUME NEW d, WellFormed(d), Mail(s, b) => Mail(d, b), d.remote = s.remote,
             s.state = "LAST_ACK" \/ ("RST" \in packet.flags /\ packet.valid)
      PROVE  LET r == on_closed_cb(d)
             IN  Accounts(r, s, b, Acks(r, s, packet)) /\ Follows(r, s, packet)
  <2> DEFINE r == on_closed_cb(d)
  <2>1. /\ Holds(r, b) /\ r.state = "CLOSED" /\ r.alive = FALSE
        /\ r.recv_buffer = <<>> /\ r.remote = s.remote
        /\ Mail(s, b) => Mail(r, b)
    BY <1>1, EraseCarries
  <2> HIDE DEF r
  <2>2. Accounts(r, s, b, Acks(r, s, packet))
    BY <2>1 DEF Accounts
  <2>3. Follows(r, s, packet)
    BY <1>1, <2>1 DEF Follows, Gone, Crossing, Streaming
  <2> QED
    BY <2>2, <2>3 DEF r
<1>2. WellFormed(t) /\ t.remote = s.remote /\ (Mail(s, b) => Mail(t, b))
  BY <1>0, ControlAckCarries DEF Beside, TcpState
<1>3. WellFormed(q) /\ q.remote = s.remote /\ (Mail(s, b) => Mail(q, b))
  <2>1. q.remote = s.remote
    BY <1>0 DEF stop_all_timers, WellFormed, Session
  <2> QED
    BY <1>0, <2>1, TimerType, StopMail
<1>4. /\ handle_last_ack(s, packet) \in {s, on_closed_cb(t)}
      /\ handle_reset(s) = on_closed_cb(q)
  BY DEF handle_last_ack, handle_reset
<1>5. s.state = "LAST_ACK" => Accounts(s, s, b, Acks(s, s, packet)) /\ Follows(s, s, packet)
  BY DEF Accounts, Follows, Kept, Learns, Late, Crossing, Streaming
<1> HIDE DEF t, q
<1> QED
  BY <1>1, <1>2, <1>3, <1>4, <1>5

\* input(): a session keeps to its pledge whatever arrives, if the pledge covers
\* its acknowledgements, and it takes from a packet only what comes next.
LEMMA InputCarries ==
  ASSUME ConnectsClosed,
         NEW s, SessionInv(s), s.alive, NEW b, Pledge(b), Holds(s, b),
         NEW packet \in myu_tcp_packet, NEW iss \in Word,
         s.state = "LISTEN" /\ input(s, packet, iss).state # "LISTEN"
           => iss \in b.joins /\ (b.any \/ iss = b.i),
         s.state = "SYN_SENT" => "SYN" \notin packet.flags \/ "ACK" \in packet.flags,
         s.state = "CLOSE_WAIT" => b.fin
  PROVE  LET r == input(s, packet, iss)
         IN  Accounts(r, s, b, Acks(r, s, packet)) /\ Follows(r, s, packet)
<1> DEFINE p == [s EXCEPT !.peer_usable_window_size = packet.win]
           d == DispatchOnState(p, packet, iss)
           Good(r, q) == Accounts(r, q, b, Acks(r, q, packet)) /\ Follows(r, q, packet)
<1>0. WellFormed(s) /\ s.recv_next \in Word /\ s.state \in TcpState
  BY Numbers DEF SessionInv, WellFormed, Session
<1>1. \/ input(s, packet, iss) = s
      \/ input(s, packet, iss) = handle_reset(s) /\ "RST" \in packet.flags /\ packet.valid
      \/ input(s, packet, iss) = d
  BY DEF input, Has
<1>2. Good(s, s)
  <2>1. Advances(s, s, b)
    BY <1>0, NumberFacts DEF Advances
  <2> QED
    BY <2>1 DEF Accounts, Follows, Kept, Learns, Late, Crossing, Streaming
<1>3. "RST" \in packet.flags /\ packet.valid => Good(handle_reset(s), s)
  BY GoneCarries
<1>4. /\ WellFormed(p) /\ Same(p, s) /\ p.timers = s.timers /\ p.msl_timer = s.msl_timer
      /\ SameNumbers(p, s) /\ p.out = s.out /\ p.remote = s.remote
      /\ p.recv_next = s.recv_next /\ p.recv_buffer = s.recv_buffer
  BY <1>0 DEF myu_tcp_packet, WellFormed, Session, Same, SameNumbers
<1> HIDE DEF p
<1>5. SessionInv(p) /\ p.self = s.self
  BY <1>4, AsideInv
<1>6. /\ Holds(p, b) /\ p.alive /\ p.state = s.state /\ Top(p, b) = Top(s, b)
      /\ Mail(s, b) => Mail(p, b)
  BY <1>4, <1>5, AsideCarries DEF SameNumbers
<1>7. ASSUME NEW r, Good(r, p) PROVE Good(r, s)
  <2>1. Accounts(r, s, b, Acks(r, s, packet))
    <3>1. Advances(r, p, b) => Advances(r, s, b)
      BY <1>4 DEF Advances, SameNumbers
    <3>2. Fits(r, s, b) => Fits(r, p, b)
      BY <1>4, <1>6 DEF Fits, SameNumbers
    <3>3. Acks(r, s, packet) = Acks(r, p, packet)
      BY <1>4, <1>6 DEF Acks
    <3> QED
      BY <1>6, <1>7, <3>1, <3>2, <3>3 DEF Accounts
  <2>2. Follows(r, p, packet)
    BY <1>7
  <2>3. ExpectedAck(p) = ExpectedAck(s) /\ (Crossing(p) => Crossing(s))
        /\ (Streaming(p) => Streaming(s))
    BY <1>4 DEF ExpectedAck, SameNumbers, Crossing, Streaming
  <2>4. /\ Gone(r, p, packet) => Gone(r, s, packet)
        /\ Learns(r, p, packet) => Learns(r, s, packet)
    BY <1>4 DEF Gone, Learns, SameNumbers
  <2>5. /\ Kept(r, p, packet) => Kept(r, s, packet)
        /\ Opened(r, p, packet) => Opened(r, s, packet)
        /\ Accepted(r, p, packet) => Accepted(r, s, packet)
    BY <1>4, <2>4 DEF Kept, Opened, Accepted, SameNumbers
  <2>6. Joined(r, p, packet) => Joined(r, s, packet)
    BY <1>4, <2>3 DEF Joined, SameNumbers
  <2>7. Follows(r, s, packet)
    BY <1>4, <1>6, <2>2, <2>3, <2>4, <2>5, <2>6 DEF Follows
  <2> QED
    BY <2>1, <2>7
<1>8. ASSUME NEW r, Accounts(r, p, b, {p.recv_next}),
             p.state \notin {"LISTEN", "SYN_SENT"}
      PROVE  Accounts(r, p, b, Acks(r, p, packet))
  BY <1>0, <1>4, <1>8 DEF Accounts, Acks
<1>9. ASSUME input(s, packet, iss) = d PROVE Good(d, p)
  <2>1. CASE p.state = "CLOSED"
    <3> DEFINE c == [p EXCEPT !.user_want_to_close = FALSE]
    <3>1. d = c
      BY <2>1 DEF DispatchOnState
    <3>2. /\ SameNumbers(c, p) /\ c.timers = p.timers /\ c.out = p.out /\ c.self = p.self
          /\ c.remote = p.remote /\ c.recv_next = p.recv_next
          /\ c.recv_buffer = p.recv_buffer
      BY <1>4, <1>6, <2>1 DEF WellFormed, Session, SameNumbers, Holds, Flight, Opening
    <3> HIDE DEF c
    <3>3. Holds(c, b) /\ (Mail(p, b) => Mail(c, b)) /\ c.state = "CLOSED"
      BY <1>6, <2>1, <3>2, AsideCarries DEF SameNumbers
    <3>4. Accounts(c, p, b, Acks(c, p, packet))
      BY <3>3 DEF Accounts
    <3>5. Follows(c, p, packet)
      BY <2>1, <3>2, <3>3 DEF Follows, Kept, Learns, Late, Crossing, Streaming, SameNumbers
    <3> QED
      BY <3>1, <3>4, <3>5
  <2>2. CASE p.state = "LISTEN"
    <3>1. d = handle_listen(p, packet, iss)
      BY <2>2 DEF DispatchOnState
    <3>2. d.state # "LISTEN" => iss \in b.joins /\ (b.any \/ iss = b.i)
      BY <1>6, <1>9, <2>2
    <3> QED
      BY <1>5, <1>6, <2>2, <3>1, <3>2, ListenCarries
  <2>3. CASE p.state = "SYN_SENT"
    <3>1. d = handle_syn_sent(p, packet)
      BY <2>3 DEF DispatchOnState
    <3> QED
      BY <1>5, <1>6, <2>3, <3>1, SynSentCarries
  <2>4. CASE p.state = "SYN_RECEIVED"
    <3>1. d = handle_syn_received(p, packet)
      BY <2>4 DEF DispatchOnState
    <3>2. Accounts(d, p, b, {p.recv_next}) /\ Follows(d, p, packet)
      BY <1>5, <1>6, <2>4, <3>1, SynReceivedCarries
    <3> HIDE DEF d
    <3> QED
      BY <1>8, <2>4, <3>2
  <2>5. CASE p.state = "ESTABLISHED"
    <3>1. d = handle_established(p, packet)
      BY <2>5 DEF DispatchOnState
    <3> QED
      BY <1>5, <1>6, <2>5, <3>1, EstablishedCarries
  <2>6. CASE p.state = "FIN_WAIT_1"
    <3>1. d = handle_fin_wait_1(p, packet)
      BY <2>6 DEF DispatchOnState
    <3> QED
      BY <1>5, <1>6, <2>6, <3>1, FinWait1Carries
  <2>7. CASE p.state \in {"FIN_WAIT_2", "TIME_WAIT"}
    <3>1. d \in {handle_fin_wait_2(p, packet), handle_timed_wait(p, packet)}
      BY <2>7 DEF DispatchOnState
    <3> HIDE DEF d
    <3> QED
      BY <1>5, <1>6, <2>7, <3>1, TimeWaitCarries
  <2>8. CASE p.state = "CLOSE_WAIT"
    <3>1. d = handle_close_wait(p, packet)
      BY <2>8 DEF DispatchOnState
    <3>2. Accounts(d, p, b, {p.recv_next}) /\ Follows(d, p, packet)
      BY <1>5, <1>6, <2>8, <3>1, CloseWaitCarries
    <3> HIDE DEF d
    <3> QED
      BY <1>8, <2>8, <3>2
  <2>9. CASE p.state = "LAST_ACK"
    <3>1. d = handle_last_ack(p, packet)
      BY <2>9 DEF DispatchOnState
    <3> QED
      BY <1>5, <1>6, <2>9, <3>1, GoneCarries
  <2> HIDE DEF d, Good
  <2> QED
    BY <1>0, <1>6, <2>1, <2>2, <2>3, <2>4, <2>5, <2>6, <2>7, <2>8, <2>9 DEF TcpState
<1> HIDE DEF d, Good
<1>10. Good(input(s, packet, iss), s)
  BY <1>1, <1>2, <1>3, <1>7, <1>9
<1> QED
  BY <1>10 DEF Good

-----------------------------------------------------------------------------
(* The application's calls and the timers.                                 *)

\* What the application and the timers leave alone.
Steady(r, s) ==
  /\ r.alive = s.alive /\ r.remote = s.remote /\ r.recv_next = s.recv_next
  /\ r.send_unack = s.send_unack
  /\ \/ r.state = s.state \/ r.state \in {"FIN_WAIT_1", "LAST_ACK"}
     \/ r.state = "CLOSED" /\ s.state \in {"SYN_SENT", "SYN_RECEIVED"}
  /\ r.state = "FIN_WAIT_1" => s.state \in {"ESTABLISHED", "FIN_WAIT_1"}
  /\ r.state = "LAST_ACK" => s.state \in {"CLOSE_WAIT", "LAST_ACK"}
  /\ r.state \in Opening \cup {"ESTABLISHED", "CLOSE_WAIT"}
       => r.user_want_to_close = s.user_want_to_close

\* A control packet leaves everything but send_next_, timers and mail alone.
LEMMA ControlBeside ==
  ASSUME NEW s, WellFormed(s), NEW flags \in SUBSET TcpFlag
  PROVE  LET r == send_control_packet(s, flags)
         IN  /\ WellFormed(r) /\ r.alive = s.alive /\ r.self = s.self /\ r.remote = s.remote
             /\ r.state = s.state /\ r.send_unack = s.send_unack
             /\ r.send_buffer = s.send_buffer /\ r.recv_buffer = s.recv_buffer
             /\ r.recv_next = s.recv_next /\ r.user_want_to_close = s.user_want_to_close
<1> DEFINE r == send_control_packet(s, flags)
<1>1. HasFields(s) /\ s.remote \in Addr
  BY DEF WellFormed, Session, HasFields, Watched
<1>2. WellFormed(r) /\ Keeps(r, s) /\ Frame(r, s)
  BY <1>1, ControlType, ControlFrame
<1> HIDE DEF r
<1>3. /\ WellFormed(r) /\ r.alive = s.alive /\ r.self = s.self /\ r.remote = s.remote
      /\ r.state = s.state /\ r.send_unack = s.send_unack
      /\ r.send_buffer = s.send_buffer /\ r.recv_buffer = s.recv_buffer
      /\ r.recv_next = s.recv_next /\ r.user_want_to_close = s.user_want_to_close
  BY <1>2 DEF Keeps, Frame
<1> QED
  BY <1>3 DEF r

\* connect() takes the initial sequence number i.
LEMMA ConnectCarries ==
  ASSUME NEW s, SessionInv(s), s.alive, s.state = "CLOSED", NEW b, Pledge(b), Holds(s, b),
         NEW iss \in Word, b.any \/ iss = b.i
  PROVE  LET r == connect(s, iss)
         IN  /\ Holds(r, b) /\ r.alive /\ r.state = "SYN_SENT" /\ r.remote = s.remote
             /\ r.recv_buffer = s.recv_buffer
             /\ iss \in b.syn /\ s.remote \in b.open /\ Mail(s, b) => Mail(r, b)
<1> DEFINE a == [s EXCEPT !.state = "SYN_SENT", !.send_next = iss, !.send_unack = iss]
           r == send_control_packet(a, {"SYN"})
<1>1. connect(s, iss) = r
  BY DEF connect
<1>2. /\ WellFormed(a) /\ a.alive = s.alive /\ a.self = s.self /\ a.remote = s.remote
      /\ a.state = "SYN_SENT" /\ a.send_next = iss /\ a.send_unack = iss
      /\ a.send_buffer = s.send_buffer /\ a.recv_buffer = s.recv_buffer
      /\ a.user_want_to_close = s.user_want_to_close /\ a.timers = s.timers /\ a.out = s.out
  BY DEF SessionInv, WellFormed, Session, TcpState
<1> HIDE DEF a
<1>3. {"SYN"} \in SUBSET TcpFlag
  BY DEF TcpFlag
<1>4. /\ r.send_next = Plus(iss, 1)
      /\ iss \in b.syn /\ s.remote \in b.open /\ Mail(a, b) => Mail(r, b)
  BY <1>2, <1>3, ControlMail
<1>5. /\ r.alive = s.alive /\ r.remote = s.remote /\ r.state = "SYN_SENT"
      /\ r.send_unack = iss /\ r.send_buffer = s.send_buffer
      /\ r.recv_buffer = s.recv_buffer /\ r.user_want_to_close = s.user_want_to_close
  BY <1>2, <1>3, ControlBeside
<1> HIDE DEF r
<1>6. Mail(s, b) => Mail(a, b)
  BY <1>2, LessMail
<1>7. Holds(r, b)
  BY <1>4, <1>5 DEF Holds, Flight, Numbered, Streaming, Opening
<1> QED
  BY <1>1, <1>4, <1>5, <1>6, <1>7

\* A FIN takes a number after the last byte.
Closes(r, s, b) ==
  s.state = "ESTABLISHED" /\ r.state = "FIN_WAIT_1" => b.any \/ Top(s, b) < Top(r, b)

\* close(): the FIN follows the last byte that has been sent, or answers the
\* peer's; a RST ends the handshake.
LEMMA CloseCarries ==
  ASSUME NEW s, SessionInv(s), s.alive, NEW b, Pledge(b), Holds(s, b),
         s.state \in {"ESTABLISHED", "CLOSE_WAIT"} => b.fin,
         s.state \in {"SYN_SENT", "SYN_RECEIVED"} => b.rst
  PROVE  LET r == close(s)
         IN  /\ Accounts(r, s, b, {s.recv_next}) /\ Steady(r, s)
             /\ r.recv_buffer = s.recv_buffer /\ Closes(r, s, b)
<1>0. WellFormed(s)
  BY DEF SessionInv
<1>1. CASE s.state = "ESTABLISHED"
  <2> DEFINE tried == handle_try_send(s)
             stopped == stop_all_timers(tried)
             a == [stopped EXCEPT !.state = "FIN_WAIT_1"]
             f == send_control_packet(a, {"FIN"})
             r == [f EXCEPT !.user_want_to_close = TRUE]
             n == Off(b.i, tried.send_next)
             u == Off(b.i, s.send_unack)
             l == Len(s.send_buffer)
  <2>1. close(s) = r
    BY <1>1 DEF close
  <2>2. Carries(tried, s, b) /\ Keeps(tried, s) /\ WellFormed(tried)
    BY <1>0, TrySendCarries, TrySendType
  <2>3. Frame(tried, s)
    BY <1>0, TrySendFrame DEF WellFormed, Session, HasFields, Watched
  <2> HIDE DEF tried
  <2>4. /\ tried.alive = s.alive /\ tried.state = "ESTABLISHED" /\ tried.remote = s.remote
        /\ tried.recv_next = s.recv_next /\ tried.recv_buffer = s.recv_buffer
        /\ tried.send_unack = s.send_unack /\ tried.self = s.self
        /\ tried.send_buffer = s.send_buffer
    BY <1>1, <2>2, <2>3 DEF Keeps, Frame
  <2>5. /\ WellFormed(stopped) /\ Beside(stopped, tried) /\ stopped.recv_next = tried.recv_next
        /\ stopped.send_unack = tried.send_unack /\ (Mail(tried, b) => Mail(stopped, b))
    <3>1. /\ Beside(stopped, tried) /\ stopped.recv_next = tried.recv_next
          /\ stopped.send_unack = tried.send_unack
      BY <2>2 DEF stop_all_timers, Beside, WellFormed, Session
    <3> QED
      BY <2>2, <3>1, TimerType, StopMail
  <2> HIDE DEF stopped
  <2>6. /\ WellFormed(a) /\ Beside(a, stopped) /\ a.recv_next = stopped.recv_next
        /\ a.send_unack = stopped.send_unack /\ a.state = "FIN_WAIT_1"
        /\ a.timers = stopped.timers /\ a.out = stopped.out
    BY <2>5 DEF WellFormed, Session, Beside, TcpState
  <2>7. Mail(stopped, b) => Mail(a, b)
    BY <2>6, LessMail DEF Beside
  <2> HIDE DEF a
  <2>8. {"FIN"} \in SUBSET TcpFlag
    BY DEF TcpFlag
  <2>9. /\ f.send_next = Plus(a.send_next, 1)
        /\ Mail(a, b) => Mail(f, b)
    BY <1>1, <2>6, <2>8, ControlMail
  <2>10. /\ WellFormed(f) /\ f.alive = a.alive /\ f.self = a.self /\ f.remote = a.remote
         /\ f.state = a.state /\ f.send_unack = a.send_unack
         /\ f.send_buffer = a.send_buffer /\ f.recv_buffer = a.recv_buffer
         /\ f.recv_next = a.recv_next
    BY <2>6, <2>8, ControlBeside
  <2> HIDE DEF f
  <2>11. /\ r.alive = f.alive /\ r.self = f.self /\ r.remote = f.remote /\ r.state = f.state
         /\ r.send_unack = f.send_unack /\ r.send_buffer = f.send_buffer
         /\ r.recv_buffer = f.recv_buffer /\ r.recv_next = f.recv_next
         /\ r.send_next = f.send_next /\ r.timers = f.timers /\ r.out = f.out
         /\ r.user_want_to_close = TRUE
    BY <2>10 DEF WellFormed, Session
  <2>12. Mail(f, b) => Mail(r, b)
    BY <2>11, LessMail
  <2> HIDE DEF r
  <2>13. /\ r.alive = s.alive /\ r.remote = s.remote /\ r.state = "FIN_WAIT_1"
         /\ r.send_unack = s.send_unack /\ r.send_buffer = s.send_buffer
         /\ r.recv_buffer = s.recv_buffer /\ r.recv_next = s.recv_next
         /\ r.send_next = Plus(tried.send_next, 1)
    BY <2>4, <2>5, <2>6, <2>9, <2>10, <2>11 DEF Beside
  <2>14. Flight(r)
    BY <2>11, <2>13 DEF Flight, Streaming, Opening
  <2>15. ASSUME ~b.any
         PROVE  Numbered(r, b) /\ Off(b.i, s.send_next) <= Off(b.i, r.send_next)
                /\ Top(r, b) = Top(tried, b) + 1 /\ Top(s, b) < Top(r, b)
    <3>1. Numbered(s, b) /\ Flight(tried) /\ Numbered(tried, b)
      BY <2>2, <2>15 DEF Holds, Carries
    <3>2. /\ u = 1 + b.A - l /\ l <= b.A /\ b.A <= b.m
          /\ \A x \in 1..l : s.send_buffer[x] = b.A - l + x
      BY <1>1, <3>1 DEF Numbered, Streaming
    <3>3. /\ n - 1 <= b.A /\ u <= n /\ n >= 1
      <4>1. /\ Top(tried, b) <= b.A /\ Top(tried, b) >= 0
            /\ Off(b.i, tried.send_unack) <= Off(b.i, tried.send_next)
        BY <2>2, <2>4, <3>1, StreamingNumbers DEF Streaming
      <4>2. n \in Nat /\ b.A \in Nat
        BY <2>2, NumberFacts
      <4>3. Top(tried, b) = n - 1 /\ Off(b.i, tried.send_unack) = u
        BY <2>4 DEF Top
      <4> HIDE DEF n, u
      <4> QED
        BY <4>1, <4>2, <4>3 DEF n
    <3>4. /\ b.A \in Nat /\ b.m \in Nat /\ n \in Nat /\ u \in Nat /\ l \in Nat
          /\ b.m + 2 < SeqMod /\ SeqMod \in Nat /\ Off(b.i, s.send_next) \in Nat
      BY <1>0, <2>2, NumberFacts
    <3>5. n + 1 < SeqMod /\ n + 1 <= b.A + 2 /\ u + l <= b.A + 1
      <4> HIDE DEF n, u, l
      <4> QED
        BY <3>2, <3>3, <3>4
    <3>6. Off(b.i, r.send_next) = n + 1
      BY <2>2, <2>13, <3>5, NumberFacts, OffArith
    <3>7. Off(b.i, s.send_next) <= n
      BY <2>2, <2>15 DEF Carries, Advances
    <3>8. Numbered(r, b)
      <4>1. /\ u + l <= b.A + 1 /\ u + 1 <= Off(b.i, r.send_next)
            /\ Off(b.i, r.send_next) <= b.A + 2
        <5> HIDE DEF n, u, l
        <5> QED
          BY <3>3, <3>4, <3>5, <3>6
      <4> QED
        BY <2>13, <3>2, <4>1 DEF Numbered, Streaming, Opening
    <3>9. /\ Off(b.i, s.send_next) <= Off(b.i, r.send_next) /\ Top(r, b) = Top(tried, b) + 1
          /\ Top(s, b) < Top(r, b)
      BY <3>4, <3>6, <3>7 DEF Top
    <3> QED
      BY <3>8, <3>9
  <2>16. Holds(r, b) /\ Advances(r, s, b)
    BY <2>14, <2>15 DEF Holds, Advances
  <2>17. Fits(r, s, b) => Fits(tried, s, b)
    <3>1. ~b.any => Top(tried, b) \in Int /\ b.g \in Int
      BY <2>2, NumberFacts DEF Top, Pledge
    <3> QED
      BY <1>1, <2>4, <2>13, <2>15, <3>1 DEF Fits, Streaming
  <2>18. Accounts(r, s, b, {s.recv_next})
    BY <2>2, <2>5, <2>7, <2>9, <2>12, <2>16, <2>17 DEF Accounts, Carries
  <2>19. Steady(r, s)
    BY <1>1, <2>13 DEF Steady, Opening
  <2>20. Closes(r, s, b)
    BY <2>15 DEF Closes
  <2> QED
    BY <2>1, <2>13, <2>18, <2>19, <2>20
<1>2. CASE s.state = "CLOSE_WAIT"
  <2> DEFINE a == [s EXCEPT !.state = "LAST_ACK"]
             f == send_control_packet(a, {"FIN", "ACK"})
             r == [f EXCEPT !.user_want_to_close = TRUE]
  <2>1. close(s) = r
    BY <1>2 DEF close
  <2>2. /\ WellFormed(a) /\ Beside(a, s) /\ a.recv_next = s.recv_next
        /\ a.send_unack = s.send_unack /\ a.state = "LAST_ACK"
        /\ a.timers = s.timers /\ a.out = s.out
    BY <1>0 DEF WellFormed, Session, Beside, TcpState
  <2>3. Mail(s, b) => Mail(a, b)
    BY <2>2, LessMail DEF Beside
  <2> HIDE DEF a
  <2>4. {"FIN", "ACK"} \in SUBSET TcpFlag
    BY DEF TcpFlag
  <2>5. s.recv_next \in b.acks /\ Mail(a, b) => Mail(f, b)
    BY <1>2, <2>2, <2>4, ControlMail
  <2>6. /\ WellFormed(f) /\ f.alive = a.alive /\ f.self = a.self /\ f.remote = a.remote
        /\ f.state = a.state /\ f.send_unack = a.send_unack
        /\ f.send_buffer = a.send_buffer /\ f.recv_buffer = a.recv_buffer
        /\ f.recv_next = a.recv_next
    BY <2>2, <2>4, ControlBeside
  <2> HIDE DEF f
  <2>7. /\ r.alive = f.alive /\ r.self = f.self /\ r.remote = f.remote /\ r.state = f.state
        /\ r.send_unack = f.send_unack /\ r.send_buffer = f.send_buffer
        /\ r.recv_buffer = f.recv_buffer /\ r.recv_next = f.recv_next
        /\ r.timers = f.timers /\ r.out = f.out
    BY <2>6 DEF WellFormed, Session
  <2>8. Mail(f, b) => Mail(r, b)
    BY <2>7, LessMail
  <2> HIDE DEF r
  <2>9. /\ r.alive = s.alive /\ r.remote = s.remote /\ r.state = "LAST_ACK"
        /\ r.send_unack = s.send_unack /\ r.send_buffer = s.send_buffer
        /\ r.recv_buffer = s.recv_buffer /\ r.recv_next = s.recv_next
    BY <2>2, <2>6, <2>7 DEF Beside
  <2>10. Holds(r, b)
    BY <2>9 DEF Holds, Flight, Numbered, Streaming, Opening
  <2>11. Accounts(r, s, b, {s.recv_next})
    BY <2>3, <2>5, <2>8, <2>9, <2>10 DEF Accounts
  <2>12. Steady(r, s)
    BY <1>2, <2>9 DEF Steady, Opening
  <2>13. Closes(r, s, b)
    BY <1>2 DEF Closes
  <2> QED
    BY <2>1, <2>9, <2>11, <2>12, <2>13
<1>3. CASE s.state \in {"SYN_SENT", "SYN_RECEIVED"}
  <2> DEFINE f == send_control_packet(s, {"RST"})
             q == stop_all_timers(f)
             r == [q EXCEPT !.state = "CLOSED"]
  <2>1. close(s) = r
    BY <1>3 DEF close
  <2>2. {"RST"} \in SUBSET TcpFlag
    BY DEF TcpFlag
  <2>3. /\ WellFormed(f) /\ f.alive = s.alive /\ f.self = s.self /\ f.remote = s.remote
        /\ f.send_unack = s.send_unack /\ f.send_buffer = s.send_buffer
        /\ f.recv_buffer = s.recv_buffer /\ f.recv_next = s.recv_next
        /\ f.user_want_to_close = s.user_want_to_close
        /\ Mail(s, b) => Mail(f, b)
    BY <1>0, <1>3, <2>2, ControlBeside, ControlMail
  <2> HIDE DEF f
  <2>4. /\ WellFormed(q) /\ Beside(q, f) /\ q.recv_next = f.recv_next
        /\ q.send_unack = f.send_unack /\ (Mail(f, b) => Mail(q, b))
    <3>1. Beside(q, f) /\ q.recv_next = f.recv_next /\ q.send_unack = f.send_unack
      BY <2>3 DEF stop_all_timers, Beside, WellFormed, Session
    <3> QED
      BY <2>3, <3>1, TimerType, StopMail
  <2> HIDE DEF q
  <2>5. /\ Beside(r, q) /\ r.state = "CLOSED" /\ r.recv_next = q.recv_next
        /\ r.send_unack = q.send_unack /\ r.timers = q.timers /\ r.out = q.out
    BY <2>4 DEF Beside, WellFormed, Session
  <2>6. Mail(q, b) => Mail(r, b)
    BY <2>5, LessMail DEF Beside
  <2> HIDE DEF r
  <2>7. /\ r.alive = s.alive /\ r.remote = s.remote /\ r.state = "CLOSED"
        /\ r.send_unack = s.send_unack /\ r.send_buffer = s.send_buffer
        /\ r.recv_buffer = s.recv_buffer /\ r.recv_next = s.recv_next
        /\ r.user_want_to_close = s.user_want_to_close
    BY <2>3, <2>4, <2>5 DEF Beside
  <2>8. Holds(r, b)
    BY <1>3, <2>7 DEF Holds, Flight, Numbered, Streaming, Opening
  <2>9. Accounts(r, s, b, {s.recv_next})
    BY <2>3, <2>4, <2>6, <2>7, <2>8 DEF Accounts
  <2>10. Steady(r, s)
    BY <1>3, <2>7 DEF Steady
  <2>11. Closes(r, s, b)
    BY <1>3 DEF Closes
  <2> QED
    BY <2>1, <2>7, <2>9, <2>10, <2>11
<1>4. CASE s.state \notin {"ESTABLISHED", "CLOSE_WAIT", "SYN_SENT", "SYN_RECEIVED"}
  <2>1. close(s) = s
    BY <1>4 DEF close
  <2>2. Advances(s, s, b)
    BY <1>0, NumberFacts DEF Advances
  <2> QED
    BY <1>4, <2>1, <2>2 DEF Accounts, Steady, Closes
<1> QED
  BY <1>1, <1>2, <1>3, <1>4

\* send() takes the first part of its data.
LEMMA WritablePart ==
  ASSUME NEW s, WellFormed(s), NEW data \in Seq(Byte)
  PROVE  LET w == Writable(s, data)
         IN  /\ w \in Seq(Byte) /\ Len(w) <= Len(data)
             /\ \A x \in 1..Len(w) : w[x] = data[x]
<1> DEFINE room == BufferCapacity - Len(s.send_buffer)
           n == IF Len(data) > room THEN room ELSE Len(data)
           w == SubSeq(data, 1, n)
<1>1. /\ Len(s.send_buffer) \in Nat /\ Len(s.send_buffer) <= BufferCapacity
      /\ BufferCapacity \in Nat /\ Len(data) \in Nat
  BY SessionAssumption DEF WellFormed, Session
<1>2. n \in Nat /\ n <= Len(data)
  <2> DEFINE m == Len(s.send_buffer)
             c == Len(data)
  <2>1. ASSUME NEW a \in Nat, NEW b \in Nat, NEW d \in Nat, b <= a
        PROVE  LET k == IF d > a - b THEN a - b ELSE d IN k \in Nat /\ k <= d
    BY <2>1
  <2> QED
    BY <1>1, <2>1
<1>3. Writable(s, data) = w
  BY DEF Writable
<1> HIDE DEF n
<1>4. \A i \in 1..n : data[i] \in Byte
  BY <1>2
<1>5. /\ w \in Seq(Byte) /\ Len(w) = IF 1 <= n THEN n - 1 + 1 ELSE 0
      /\ \A x \in 1..(n - 1 + 1) : w[x] = data[1 + x - 1]
  BY <1>2, <1>4, SubSeqProperties
<1> HIDE DEF w
<1>6. Len(w) = n
  BY <1>2, <1>5
<1>7. \A x \in 1..n : w[x] = data[x]
  BY <1>2, <1>5
<1> QED
  BY <1>2, <1>3, <1>5, <1>6, <1>7

\* More bytes in the buffer, and as many more accepted.
LEMMA LongerArith ==
  ASSUME NEW u \in Nat, NEW n \in Nat, NEW l \in Nat, NEW k \in Nat, NEW A \in Nat,
         NEW B \in Nat, B = A + k
  PROVE  /\ u = 1 + A - l => u = 1 + B - (l + k)
         /\ u + l <= A + 1 => u + (l + k) <= B + 1
         /\ u + l <= A + 2 => u + (l + k) <= B + 2
         /\ n <= A + 2 => n <= B + 2
         /\ l = A => l + k = B
         /\ l <= A => l + k <= B
OBVIOUS

\* send(): the bytes that are accepted join the buffer at their positions.
LEMMA SendCarries ==
  ASSUME NEW s, SessionInv(s), s.alive, NEW b, Pledge(b), Holds(s, b),
         NEW data \in Seq(Byte), data # <<>>,
         NEW c, Pledge(c), c.any = b.any, c.i = b.i, c.m = b.m,
         ~b.any => /\ \A x \in 1..Len(data) : data[x] = b.A + x
                   /\ c.A = b.A + Len(Writable(s, data)) /\ c.A <= c.m
  PROVE  LET r == send(s, data)
         IN  /\ Accounts(r, s, c, {s.recv_next}) /\ Steady(r, s) /\ r.state = s.state
             /\ r.recv_buffer = s.recv_buffer /\ (Streaming(r) <=> Streaming(s))
<1> DEFINE w == Writable(s, data)
           q == [s EXCEPT !.send_buffer = s.send_buffer \o w]
           r == handle_try_send(q)
           l == Len(s.send_buffer)
           k == Len(w)
<1>0. WellFormed(s) /\ s.send_buffer \in Seq(Byte)
  BY DEF SessionInv, WellFormed, Session
<1>1. send(s, data) = r
  BY DEF send, push_batch
<1>2. w \in Seq(Byte) /\ k \in Nat /\ \A x \in 1..k : w[x] = data[x] /\ x \in 1..Len(data)
  <2>1. w \in Seq(Byte) /\ Len(w) <= Len(data) /\ \A x \in 1..Len(w) : w[x] = data[x]
    BY <1>0, WritablePart
  <2> HIDE DEF w
  <2>2. Len(w) \in Nat /\ Len(data) \in Nat
    BY <2>1
  <2> QED
    BY <2>1, <2>2
<1>3. /\ s.send_buffer \o w \in Seq(Byte) /\ Len(s.send_buffer \o w) <= BufferCapacity
  BY <1>0, WritableType
<1> HIDE DEF w
<1>4. /\ Len(s.send_buffer \o w) = l + k
      /\ \A x \in 1..(l + k) : (s.send_buffer \o w)[x]
            = IF x <= l THEN s.send_buffer[x] ELSE w[x - l]
  BY <1>0, <1>2, ConcatProperties
<1>5. /\ WellFormed(q) /\ q.alive = s.alive /\ q.state = s.state /\ q.remote = s.remote
      /\ q.send_unack = s.send_unack /\ q.send_next = s.send_next /\ q.self = s.self
      /\ q.user_want_to_close = s.user_want_to_close /\ q.recv_next = s.recv_next
      /\ q.recv_buffer = s.recv_buffer /\ q.timers = s.timers /\ q.out = s.out
      /\ q.send_buffer = s.send_buffer \o w
  BY <1>0, <1>3 DEF WellFormed, Session
<1> HIDE DEF q
<1>6. l \in Nat /\ b.A \in Nat /\ c.i = b.i
  BY <1>0, NumberFacts
<1>7. Flight(q)
  <2>1. Streaming(s) => Minus(s.send_next, s.send_unack) <= l + k
    BY <1>0, <1>2, <1>6, NumberFacts DEF Holds, Flight
  <2> QED
    BY <1>4, <1>5, <2>1 DEF Holds, Flight, Streaming, Opening
<1>8. ASSUME ~b.any PROVE Numbered(q, c)
  <2> DEFINE u == Off(b.i, s.send_unack)
             n == Off(b.i, s.send_next)
  <2>0. c.A = b.A + k /\ c.A <= c.m /\ \A x \in 1..Len(data) : data[x] = b.A + x
    BY <1>8 DEF w
  <2>1. Numbered(s, b)
    BY <1>8 DEF Holds
  <2>2. l <= b.A /\ \A x \in 1..l : s.send_buffer[x] = b.A - l + x
    BY <2>1 DEF Numbered
  <2>3. \A x \in 1..(l + k) : q.send_buffer[x] = c.A - (l + k) + x
    <3> TAKE x \in 1..(l + k)
    <3>1. CASE x <= l
      <4>1. x \in 1..l /\ q.send_buffer[x] = s.send_buffer[x]
        BY <1>2, <1>4, <1>5, <1>6, <3>1
      <4> HIDE DEF l, k
      <4>2. k \in Nat /\ x \in Nat
        BY <1>2, <1>6
      <4>3. b.A - l + x = c.A - (l + k) + x
        BY <1>6, <2>0, <4>2
      <4> QED
        BY <2>2, <4>1, <4>3
    <3>2. CASE ~(x <= l)
      <4>1. x - l \in 1..k /\ q.send_buffer[x] = w[x - l]
        BY <1>2, <1>4, <1>5, <1>6, <3>2
      <4>2. w[x - l] = b.A + (x - l)
        BY <1>2, <2>0, <4>1
      <4>3. k \in Nat /\ x \in Nat
        BY <1>2, <1>6
      <4> HIDE DEF l, k
      <4>4. b.A + (x - l) = c.A - (l + k) + x
        BY <1>6, <2>0, <4>3
      <4> QED
        BY <4>1, <4>2, <4>4
    <3> QED
      BY <3>1, <3>2
  <2>4. /\ u \in Nat /\ n \in Nat
        /\ u = 1 + b.A - l => u = 1 + c.A - (l + k)
        /\ u + l <= b.A + 1 => u + (l + k) <= c.A + 1
        /\ u + l <= b.A + 2 => u + (l + k) <= c.A + 2
        /\ n <= b.A + 2 => n <= c.A + 2
        /\ l = b.A => l + k = c.A
        /\ l <= b.A => l + k <= c.A
    <3>1. u \in Nat /\ n \in Nat
      BY <1>0, NumberFacts
    <3>2. k \in Nat
      BY <1>2
    <3>3. c.A \in Nat
      BY <1>6, <2>0, <3>2
    <3> DEFINE A == b.A
               B == c.A
    <3>4. l \in Nat /\ A \in Nat /\ B \in Nat /\ B = A + k
      BY <1>6, <2>0, <3>3
    <3> HIDE DEF u, n, l, k, A, B
    <3>5. /\ u = 1 + A - l => u = 1 + B - (l + k)
          /\ u + l <= A + 1 => u + (l + k) <= B + 1
          /\ u + l <= A + 2 => u + (l + k) <= B + 2
          /\ n <= A + 2 => n <= B + 2
          /\ l = A => l + k = B
          /\ l <= A => l + k <= B
      BY <3>1, <3>2, <3>4, LongerArith
    <3> QED
      BY <3>1, <3>5 DEF A, B
  <2>5. Len(q.send_buffer) = l + k /\ Off(c.i, q.send_unack) = u /\ Off(c.i, q.send_next) = n
    BY <1>4, <1>5, <1>6
  <2>6. Streaming(q) <=> Streaming(s)
    BY <1>5 DEF Streaming
  <2> HIDE DEF u, n, l, k
  <2> QED
    BY <1>5, <1>6, <2>0, <2>1, <2>2, <2>3, <2>4, <2>5, <2>6 DEF Numbered, u, n, l
<1>9. Holds(q, c)
  BY <1>7, <1>8 DEF Holds
<1>10. Carries(r, q, c) /\ Keeps(r, q)
  BY <1>5, <1>9, TrySendCarries, TrySendType
<1>11. Frame(r, q)
  BY <1>5, TrySendFrame DEF WellFormed, Session, HasFields, Watched
<1> HIDE DEF r
<1>12. /\ r.alive = s.alive /\ r.state = s.state /\ r.remote = s.remote
       /\ r.recv_next = s.recv_next /\ r.recv_buffer = s.recv_buffer
       /\ r.send_unack = s.send_unack /\ r.user_want_to_close = s.user_want_to_close
  BY <1>5, <1>10, <1>11 DEF Keeps, Frame
<1>13. Steady(r, s) /\ (Streaming(r) <=> Streaming(s))
  BY <1>12 DEF Steady, Streaming
<1>14. Fits(r, s, c) => Fits(r, q, c)
  BY <1>5 DEF Fits, Top
<1>15. Mail(s, c) => Mail(q, c)
  BY <1>5, LessMail
<1>16. Accounts(r, s, c, {s.recv_next})
  BY <1>5, <1>10, <1>14, <1>15 DEF Accounts, Carries, Advances
<1> QED
  BY <1>1, <1>12, <1>13, <1>16

\* What is read and what is left make up the receive buffer.
LEMMA ReadPart ==
  ASSUME NEW s, WellFormed(s), NEW n \in Nat
  PROVE  /\ Readable(s, n) \in Seq(Byte) /\ pop_front(s.recv_buffer, n) \in Seq(Byte)
         /\ Readable(s, n) \o pop_front(s.recv_buffer, n) = s.recv_buffer
         /\ Readable(s, Len(s.recv_buffer)) = s.recv_buffer
<1> DEFINE q == s.recv_buffer
           Cut(k) == IF k > Len(q) THEN Len(q) ELSE k
<1>1. q \in Seq(Byte) /\ Len(q) \in Nat
  BY DEF WellFormed, Session
<1> HIDE DEF q
<1>2. ASSUME NEW k \in Nat, k <= Len(q)
      PROVE  LET a == SubSeq(q, 1, k)
                 z == SubSeq(q, k + 1, Len(q))
             IN  /\ a \in Seq(Byte) /\ z \in Seq(Byte) /\ a \o z = q
                 /\ k = Len(q) => a = q
  <2> DEFINE a == SubSeq(q, 1, k)
             z == SubSeq(q, k + 1, Len(q))
  <2>1. /\ \A i \in 1..k : q[i] \in Byte
        /\ \A i \in (k + 1)..Len(q) : q[i] \in Byte
    BY <1>1, <1>2
  <2>2. /\ a \in Seq(Byte) /\ Len(a) = IF 1 <= k THEN k - 1 + 1 ELSE 0
        /\ \A x \in 1..(k - 1 + 1) : a[x] = q[1 + x - 1]
    BY <1>2, <2>1, SubSeqProperties
  <2>3. /\ z \in Seq(Byte)
        /\ Len(z) = IF k + 1 <= Len(q) THEN Len(q) - (k + 1) + 1 ELSE 0
        /\ \A x \in 1..(Len(q) - (k + 1) + 1) : z[x] = q[k + 1 + x - 1]
    BY <1>1, <1>2, <2>1, SubSeqProperties
  <2> HIDE DEF a, z
  <2>4. Len(a) = k /\ Len(z) = Len(q) - k
    BY <1>1, <1>2, <2>2, <2>3
  <2>5. /\ a \o z \in Seq(Byte) /\ Len(a \o z) = Len(q)
        /\ \A i \in 1..Len(q) : (a \o z)[i] = IF i <= k THEN a[i] ELSE z[i - k]
    <3>1. /\ a \o z \in Seq(Byte) /\ Len(a \o z) = Len(a) + Len(z)
          /\ \A i \in 1..(Len(a) + Len(z)) : (a \o z)[i]
                = IF i <= Len(a) THEN a[i] ELSE z[i - Len(a)]
      BY <2>2, <2>3, ConcatProperties
    <3>2. Len(a) + Len(z) = Len(q)
      BY <1>1, <1>2, <2>4
    <3> QED
      BY <2>4, <3>1, <3>2
  <2>6. \A i \in 1..Len(q) : (a \o z)[i] = q[i]
    <3> TAKE i \in 1..Len(q)
    <3>1. CASE i <= k
      <4>1. i \in 1..(k - 1 + 1) /\ 1 + i - 1 = i
        BY <1>1, <1>2, <3>1
      <4> QED
        BY <2>2, <2>5, <3>1, <4>1
    <3>2. CASE ~(i <= k)
      <4>1. i - k \in 1..(Len(q) - (k + 1) + 1) /\ k + 1 + (i - k) - 1 = i
        BY <1>1, <1>2, <3>2
      <4> QED
        BY <2>3, <2>5, <3>2, <4>1
    <3> QED
      BY <3>1, <3>2
  <2>7. a \o z = q
    BY <1>1, <2>5, <2>6, SeqEqual
  <2>8. k = Len(q) => a = q
    <3>1. \A x \in 1..k : a[x] = q[x]
      BY <1>2, <2>2
    <3> QED
      BY <1>1, <2>2, <2>4, <3>1, SeqEqual
  <2> QED
    BY <2>2, <2>3, <2>7, <2>8 DEF a, z
<1>3. Cut(n) \in Nat /\ Cut(n) <= Len(q) /\ Cut(Len(q)) = Len(q)
  BY <1>1
<1>4. /\ Readable(s, n) = SubSeq(q, 1, Cut(n))
      /\ pop_front(s.recv_buffer, n) = SubSeq(q, Cut(n) + 1, Len(q))
      /\ Readable(s, Len(s.recv_buffer)) = SubSeq(q, 1, Cut(Len(q)))
  BY DEF Readable, pop_front, q
<1> HIDE DEF Cut
<1>5. ASSUME NEW k \in Nat, k <= Len(q)
      PROVE  /\ SubSeq(q, 1, k) \in Seq(Byte) /\ SubSeq(q, k + 1, Len(q)) \in Seq(Byte)
             /\ SubSeq(q, 1, k) \o SubSeq(q, k + 1, Len(q)) = q
             /\ k = Len(q) => SubSeq(q, 1, k) = q
  BY <1>2, <1>5
<1>6. /\ Readable(s, n) \in Seq(Byte) /\ pop_front(s.recv_buffer, n) \in Seq(Byte)
      /\ Readable(s, n) \o pop_front(s.recv_buffer, n) = q
  BY <1>3, <1>4, <1>5
<1>7. Readable(s, Len(s.recv_buffer)) = q
  BY <1>1, <1>3, <1>4, <1>5
<1> QED
  BY <1>6, <1>7 DEF q

\* Fields that no pledge speaks of may change before a handler runs.
LEMMA AsideAccounts ==
  ASSUME NEW q, NEW s, NEW b, SameNumbers(q, s), q.timers = s.timers, q.out = s.out,
         q.self = s.self, q.remote = s.remote, q.recv_next = s.recv_next
  PROVE  /\ Holds(s, b) <=> Holds(q, b)
         /\ Mail(s, b) <=> Mail(q, b)
         /\ \A r, acks : Accounts(r, q, b, acks) => Accounts(r, s, b, acks)
         /\ \A r : Steady(r, q) => Steady(r, s)
<1>1. Top(q, b) = Top(s, b) /\ (Mail(s, b) <=> Mail(q, b)) /\ (Holds(s, b) <=> Holds(q, b))
  BY AsideCarries
<1>2. ASSUME NEW r, NEW acks, Accounts(r, q, b, acks) PROVE Accounts(r, s, b, acks)
  <2>1. Fits(r, s, b) => Fits(r, q, b)
    BY <1>1 DEF Fits, SameNumbers
  <2>2. Advances(r, q, b) => Advances(r, s, b)
    BY DEF Advances, SameNumbers
  <2> QED
    BY <1>1, <1>2, <2>1, <2>2 DEF Accounts
<1>3. ASSUME NEW r, Steady(r, q) PROVE Steady(r, s)
  BY <1>3 DEF Steady, SameNumbers
<1> QED
  BY <1>1, <1>2, <1>3

\* A session that stays as it is.
LEMMA StayAccounts ==
  ASSUME NEW s, WellFormed(s), NEW b, Pledge(b), Holds(s, b), NEW acks
  PROVE  Accounts(s, s, b, acks) /\ Steady(s, s)
<1>1. Advances(s, s, b)
  BY NumberFacts DEF Advances
<1> QED
  BY <1>1 DEF Accounts, Steady

\* recv() leaves the rest, and closes the session at the end of the stream.
LEMMA RecvCarries ==
  ASSUME NEW s, SessionInv(s), s.alive, NEW b, Pledge(b), Holds(s, b), NEW n \in Nat,
         s.state = "CLOSE_WAIT" => b.fin
  PROVE  LET r == recv(s, n)
         IN  /\ Accounts(r, s, b, {s.recv_next}) /\ Steady(r, s)
             /\ r.recv_buffer = pop_front(s.recv_buffer, n)
             /\ s.state # "CLOSE_WAIT" => r.state = s.state
<1> DEFINE q == pop_front(s.recv_buffer, n)
           rest == [s EXCEPT !.recv_buffer = q]
<1>1. /\ WellFormed(s) /\ s.recv_buffer \in Seq(Byte) /\ Len(s.recv_buffer) \in Nat
      /\ Len(s.recv_buffer) <= BufferCapacity
  BY DEF SessionInv, WellFormed, Session
<1>2. q \in Seq(Byte) /\ Len(q) <= Len(s.recv_buffer)
  BY <1>1, QueueType
<1>3. \/ recv(s, n) = rest
      \/ recv(s, n) = close(rest) /\ s.state = "CLOSE_WAIT"
  BY DEF recv
<1> HIDE DEF q
<1>4. Len(q) <= BufferCapacity
  BY <1>1, <1>2, SessionAssumption
<1>5. /\ SessionInv(rest) /\ SameNumbers(rest, s) /\ rest.recv_buffer = q
      /\ rest.timers = s.timers /\ rest.out = s.out /\ rest.self = s.self
      /\ rest.remote = s.remote /\ rest.recv_next = s.recv_next
  <2>1. /\ WellFormed(rest) /\ Same(rest, s) /\ rest.recv_buffer = q
        /\ rest.timers = s.timers /\ rest.msl_timer = s.msl_timer
    BY <1>1, <1>2, <1>4 DEF WellFormed, Session, Same
  <2>2. SessionInv(rest)
    BY <2>1, AsideInv
  <2> QED
    BY <1>1, <2>1, <2>2 DEF WellFormed, Session, SameNumbers
<1> HIDE DEF rest
<1>6. Holds(rest, b) /\ WellFormed(rest)
  BY <1>5, AsideAccounts DEF SessionInv
<1>7. /\ Accounts(rest, rest, b, {s.recv_next}) /\ Steady(rest, rest)
  BY <1>6, StayAccounts
<1>8. s.state = "CLOSE_WAIT" =>
        LET r == close(rest)
        IN  /\ Accounts(r, rest, b, {s.recv_next}) /\ Steady(r, rest)
            /\ r.recv_buffer = q
  BY <1>5, <1>6, CloseCarries DEF SameNumbers
<1>9. PICK r \in {recv(s, n)} : r = rest \/ (r = close(rest) /\ s.state = "CLOSE_WAIT")
  BY <1>3
<1>10. Accounts(r, rest, b, {s.recv_next}) /\ Steady(r, rest) /\ r.recv_buffer = q
  BY <1>5, <1>7, <1>8, <1>9
<1>11. Accounts(r, s, b, {s.recv_next}) /\ Steady(r, s)
  BY <1>5, <1>10, AsideAccounts
<1>12. s.state # "CLOSE_WAIT" => r.state = s.state
  BY <1>5, <1>9 DEF SameNumbers
<1> QED
  BY <1>9, <1>10, <1>11, <1>12 DEF q

\* A retransmission sends what the timer holds, under the acknowledgement of now.
LEMMA RetransmitCarries ==
  ASSUME NEW s, WellFormed(s), NEW b, NEW t \in s.timers
  PROVE  LET r == handle_retransmit(s, t)
         IN  /\ SameNumbers(r, s) /\ r.recv_next = s.recv_next
             /\ r.recv_buffer = s.recv_buffer /\ r.remote = s.remote
             /\ b.acks = {} \/ s.recv_next \in b.acks =>
                  (Mail(s, b) => Mail(r, b))
<1> DEFINE packet == Packet(s, t.flags, t.seq, s.recv_next, t.payload)
           cwnd == s.send_window_size
           half == IF cwnd % 2 # 0 THEN Plus(cwnd, 1) \div 2 ELSE Plus(cwnd, 1)
           next == [t EXCEPT !.count = t.count + 1]
           a == start_timer(s, next)
           u == [a EXCEPT !.ssthresh = half, !.send_window_size = 1]
           r == handle_retransmit(s, t)
<1>1. r = IF t.count + 1 >= MAX_RETRANSMIT_COUNT THEN stop_timer(s, t.seq)
          ELSE send_packet(u, t.dest, packet)
  BY DEF handle_retransmit
<1>2. /\ t \in RetransmitTimer /\ next \in RetransmitTimer
      /\ next.seq = t.seq /\ next.flags = t.flags /\ next.payload = t.payload
      /\ next.dest = t.dest
  <2>1. t \in RetransmitTimer
    BY DEF WellFormed, Session
  <2> QED
    BY <2>1 DEF RetransmitTimer
<1>3. packet \in myu_tcp_packet /\ packet.src = s.self
  BY <1>2, PacketType DEF Packet, RetransmitTimer, WellFormed, Session
<1>4. /\ packet.flags = t.flags /\ packet.seq = t.seq /\ packet.payload = t.payload
      /\ packet.ack = s.recv_next
  BY DEF Packet
<1> HIDE DEF packet, next, half
<1>5. WellFormed(a) /\ a.send_next = s.send_next /\ a.self = s.self
  BY <1>2, StartTimerNext
<1>6. Frame(a, s) /\ Frame(stop_timer(s, t.seq), s) /\ Frame(r, s)
  <2>1. HasFields(s)
    BY DEF WellFormed, Session, HasFields, Watched
  <2> QED
    BY <2>1, TimerFrame, RetransmitFrame
<1>7. Keeps(r, s) /\ WellFormed(r)
  BY RetransmitType
<1>8. r.send_next = s.send_next
  <2>1. stop_timer(s, t.seq).send_next = s.send_next
    BY StopMail
  <2>2. u.send_next = s.send_next /\ send_packet(u, t.dest, packet).send_next = u.send_next
    BY <1>5 DEF send_packet, start_timer
  <2> QED
    BY <1>1, <2>1, <2>2
<1>9. ASSUME b.acks = {} \/ s.recv_next \in b.acks, Mail(s, b) PROVE Mail(r, b)
  <2>1. Mail(stop_timer(s, t.seq), b)
    BY <1>9, StopMail
  <2>2. TimerOK(b, t) /\ TimerOK(b, next)
    BY <1>2, <1>9 DEF Mail, TimerOK
  <2>3. Mail(a, b)
    BY <1>9, <2>2, StartTimerMail
  <2>4. Mail(u, b) /\ WellFormed(u) /\ u.self = s.self
    <3>1. half \in Word /\ 1 \in Word
      <4>1. Plus(cwnd, 1) \in Word
        BY WordArith, Numbers
      <4>2. Plus(cwnd, 1) \div 2 \in Word
        BY <4>1, HalfWord
      <4>3. 1 \in Word
        BY SessionAssumption DEF Word
      <4> QED
        BY <4>1, <4>2, <4>3 DEF half
    <3>2. /\ WellFormed(u) /\ u.timers = a.timers /\ u.out = a.out /\ u.self = a.self
      BY <1>5, <3>1 DEF WellFormed, Session
    <3> HIDE DEF u, a
    <3> QED
      BY <1>5, <2>3, <3>2, LessMail
  <2>5. PacketOK(b, t.dest, packet)
    BY <1>4, <1>9, <2>2 DEF TimerOK, PacketOK
  <2> HIDE DEF u, a
  <2>6. Mail(send_packet(u, t.dest, packet), b)
    BY <1>3, <2>4, <2>5, SendPacketMail
  <2> QED
    BY <1>1, <2>1, <2>6
<1> HIDE DEF r
<1> QED
  BY <1>6, <1>7, <1>8, <1>9 DEF SameNumbers, Frame, Keeps, r

\* A session that has not been used keeps to every pledge.
Unused(s, remote, b) ==
  /\ Holds(s, b) /\ Mail(s, b) /\ s.recv_buffer = <<>>
  /\ s.remote = remote /\ s.state \in {"CLOSED", "LISTEN"}

\* So it is for a new session, one that listens and one that does not exist yet.
LEMMA FreshCarries ==
  ASSUME NEW self \in Addr, NEW remote \in Addr, NEW initial, NEW b, Pledge(b),
         b.any \/ b.A = 0
  PROVE  /\ Unused(NewSession(self, remote, initial), remote, b)
         /\ Unused(listen(NewSession(self, remote, initial)), remote, b)
         /\ Unused([NewSession(self, remote, initial) EXCEPT !.alive = FALSE], remote, b)
<1> SUFFICES ASSUME NEW s \in {NewSession(self, remote, initial),
                               listen(NewSession(self, remote, initial)),
                               [NewSession(self, remote, initial) EXCEPT !.alive = FALSE]}
             PROVE  Unused(s, remote, b)
  OBVIOUS
<1>1. /\ s.state \in {"CLOSED", "LISTEN"} /\ (s.alive \/ s.state = "CLOSED")
      /\ s.send_buffer = <<>> /\ s.recv_buffer = <<>> /\ s.remote = remote
      /\ s.user_want_to_close = FALSE /\ s.timers = {} /\ s.out = NothingSent
  BY DEF NewSession, listen
<1> HIDE DEF NewSession, listen
<1>2. Len(s.send_buffer) = 0
  BY <1>1
<1>3. b.A \in Nat /\ b.m \in Nat
  BY DEF Pledge
<1>4. ~b.any => b.A = 0
  OBVIOUS
<1>5. Holds(s, b)
  <2>1. Flight(s)
    BY <1>1 DEF Flight, Streaming, Opening
  <2>2. b.A = 0 => Numbered(s, b)
    BY <1>1, <1>2, <1>3 DEF Numbered, Streaming, Opening
  <2> QED
    BY <1>4, <2>1, <2>2 DEF Holds
<1>6. Mail(s, b)
  BY <1>1 DEF Mail, NothingSent
<1> QED
  BY <1>1, <1>5, <1>6 DEF Unused

-----------------------------------------------------------------------------
(* How a pledge grows.                                                     *)

\* Everything that b allows is allowed by c; while b allows no data at all, c
\* may count it from any number.
Grows(b, c) ==
  /\ b.syn \subseteq c.syn /\ b.open \subseteq c.open /\ b.joins \subseteq c.joins
  /\ b.acks \subseteq c.acks /\ (b.fin => c.fin) /\ (b.rst => c.rst)
  /\ b.ends \subseteq c.ends
  /\ \/ c.any
     \/ ~b.any /\ b.g <= 0 /\ b.h <= 0
     \/ /\ ~b.any /\ b.I \subseteq c.I
        /\ (c.g = b.g /\ b.h <= c.h) \/ (b.h <= b.g /\ b.g <= c.g)

\* Data in its place stays in its place.
LEMMA GrowsData ==
  ASSUME NEW b, Pledge(b), NEW c, Pledge(c), Grows(b, c), NEW seq \in Word,
         NEW payload \in Seq(Byte), payload # <<>>, DataOK(b, seq, payload)
  PROVE  DataOK(c, seq, payload)
<1>0. Plus(seq, Len(payload)) \in c.ends
  BY DEF DataOK, Grows
<1>1. CASE c.any
  BY <1>0, <1>1 DEF DataOK
<1>2. CASE ~c.any
  <2>1. ~b.any
    BY <1>2 DEF Grows
  <2>2. PICK i \in b.I :
          LET k == Off(i, seq) - 1
          IN  /\ k >= 0
              /\ \/ k + Len(payload) <= b.g /\ \A x \in 1..Len(payload) : payload[x] = k + x
                 \/ b.g < k /\ k + Len(payload) <= b.h
    BY <2>1 DEF DataOK
  <2> DEFINE k == Off(i, seq) - 1
             n == Len(payload)
  <2>3. k \in Int /\ n \in Nat /\ n > 0
    <3>1. i \in Word
      BY DEF Pledge
    <3>2. Off(i, seq) \in Nat
      BY <3>1, OffArith
    <3> QED
      BY <3>2
  <2>4. b.g \in Int /\ b.h \in Int /\ c.g \in Int /\ c.h \in Int
    BY DEF Pledge
  <2>5. /\ k >= 0
        /\ \/ k + n <= b.g /\ \A x \in 1..n : payload[x] = k + x
           \/ b.g < k /\ k + n <= b.h
    BY <2>2
  <2> HIDE DEF k, n
  <2>6. ~(b.g <= 0 /\ b.h <= 0)
    BY <2>3, <2>4, <2>5
  <2>7. i \in c.I /\ ((c.g = b.g /\ b.h <= c.h) \/ (b.h <= b.g /\ b.g <= c.g))
    BY <1>2, <2>1, <2>6 DEF Grows
  <2>8. \/ k + n <= c.g /\ \A x \in 1..n : payload[x] = k + x
        \/ c.g < k /\ k + n <= c.h
    BY <2>3, <2>4, <2>5, <2>7
  <2> QED
    BY <1>0, <2>5, <2>7, <2>8 DEF DataOK, k, n
<1> QED
  BY <1>1, <1>2

\* Packets and timers keep to a pledge that grows.
LEMMA GrowsMail ==
  ASSUME NEW b, Pledge(b), NEW c, Pledge(c), Grows(b, c)
  PROVE  /\ \A d, p : p \in myu_tcp_packet /\ PacketOK(b, d, p) => PacketOK(c, d, p)
         /\ \A s : WellFormed(s) /\ Mail(s, b) => Mail(s, c)
<1>1. ASSUME NEW d, NEW p \in myu_tcp_packet, PacketOK(b, d, p) PROVE PacketOK(c, d, p)
  <2>1. p.payload # <<>> => DataOK(c, p.seq, p.payload)
    BY <1>1, GrowsData DEF PacketOK, myu_tcp_packet
  <2> QED
    BY <1>1, <2>1 DEF PacketOK, Grows
<1>2. ASSUME NEW s, WellFormed(s), Mail(s, b) PROVE Mail(s, c)
  <2>1. ASSUME NEW t \in s.timers PROVE TimerOK(c, t)
    <3>1. t \in RetransmitTimer /\ TimerOK(b, t)
      BY <1>2 DEF WellFormed, Session, Mail
    <3>2. t.payload # <<>> => DataOK(c, t.seq, t.payload)
      BY <3>1, GrowsData DEF TimerOK, RetransmitTimer
    <3> QED
      BY <3>1, <3>2 DEF TimerOK, Grows
  <2>2. ASSUME NEW d \in Addr, NEW x \in 1..Len(s.out[d])
        PROVE  PacketOK(c, d, s.out[d][x]) /\ s.out[d][x].src = s.self
    <3>1. s.out[d][x] \in myu_tcp_packet
      BY <1>2 DEF WellFormed, Session
    <3> QED
      BY <1>1, <1>2, <3>1 DEF Mail
  <2> QED
    BY <2>1, <2>2 DEF Mail
<1> QED
  BY <1>1, <1>2

\* What the position of the last byte sent says about the data in packets: while
\* the session streams, all of it is among the first g bytes, which the
\* application has written; after its FIN, more may lie beyond.
Marks(s, b) ==
  /\ b.i \in b.I /\ b.g \in 0..b.m /\ b.g <= b.A /\ b.h \in 0..(b.m + 1)
  /\ s.alive /\ s.state \in Opening => b.g = 0 /\ b.h = 0
  /\ Streaming(s) => b.g = Top(s, b) /\ b.h = b.g
  /\ Crossing(s) => b.g < Top(s, b) /\ b.h = b.m + 1

\* Where a step may lead.
Moves(r, s, b) ==
  /\ r.alive => s.alive
  /\ r.alive /\ r.state \in Opening => s.state \in Opening
  /\ Streaming(r) => Streaming(s) \/ s.state \in Opening
  /\ Crossing(r) => \/ Crossing(s)
                    \/ /\ s.state = "ESTABLISHED" /\ r.state = "FIN_WAIT_1"
                       /\ Top(s, b) < Top(r, b)
  /\ r.state \in {"ESTABLISHED", "FIN_WAIT_1", "CLOSE_WAIT"} => Advances(r, s, b)

\* A packet leads where a step may.
LEMMA InputGoes ==
  ASSUME NEW r, NEW s, NEW b, NEW packet, NEW acks, ~b.any, Accounts(r, s, b, acks),
         Follows(r, s, packet), s.alive
  PROVE  Moves(r, s, b)
BY DEF Moves, Accounts, Follows, Gone, Kept, Opened, Joined, Accepted, Opening

\* So do the application and the timers.
LEMMA SteadyGoes ==
  ASSUME NEW r, NEW s, NEW b, NEW acks, ~b.any, Accounts(r, s, b, acks), Steady(r, s),
         Closes(r, s, b)
  PROVE  Moves(r, s, b)
<1>1. Streaming(r) => Streaming(s)
  BY DEF Steady, Streaming, Opening
<1>2. Crossing(r) => \/ Crossing(s)
                     \/ /\ s.state = "ESTABLISHED" /\ r.state = "FIN_WAIT_1"
                        /\ Top(s, b) < Top(r, b)
  BY DEF Steady, Crossing, Closes
<1>3. r.alive /\ r.state \in Opening => s.state \in Opening
  BY DEF Steady, Opening
<1> QED
  BY <1>1, <1>2, <1>3 DEF Moves, Accounts, Steady

\* The marks after a step.
MarkG(r, s, b) ==
  IF Streaming(r) THEN Top(r, b)
  ELSE IF s.state = "ESTABLISHED" /\ r.state = "FIN_WAIT_1" THEN Top(r, b) - 1
  ELSE b.g

\* The second mark, beyond which nothing has been sent after the FIN.
MarkH(r, s, b) ==
  IF Streaming(r) THEN Top(r, b)
  ELSE IF s.state = "ESTABLISHED" /\ r.state = "FIN_WAIT_1" THEN b.m + 1
  ELSE b.h

\* They are positions.
LEMMA MarksType ==
  ASSUME NEW s, WellFormed(s), NEW r, WellFormed(r), NEW b, Pledge(b), ~b.any,
         Holds(r, b), Marks(s, b), Moves(r, s, b)
  PROVE  /\ MarkG(r, s, b) \in 0..b.m /\ MarkH(r, s, b) \in 0..(b.m + 1)
         /\ MarkG(r, s, b) >= b.g /\ MarkG(r, s, b) <= b.A
         /\ Streaming(r) \/ (s.state = "ESTABLISHED" /\ r.state = "FIN_WAIT_1") => b.h = b.g
<1>1. /\ b.A \in Nat /\ b.m \in Nat /\ Top(r, b) \in Int
      /\ Top(r, b) = Off(b.i, r.send_next) - 1 /\ Off(b.i, r.send_next) \in Nat
  BY NumberFacts DEF Top
<1>2. /\ Numbered(r, b) /\ Flight(r) /\ b.g \in 0..b.m /\ b.h \in 0..(b.m + 1)
      /\ b.g <= b.A
  BY DEF Holds, Marks
<1>3. CASE Streaming(r)
  <2>1. r.alive
    BY <1>2, <1>3 DEF Flight, Streaming
  <2>2. Top(r, b) \in 0..b.m /\ Top(r, b) <= b.A
    BY <1>1, <1>2, <1>3, <2>1, StreamingNumbers
  <2>3. b.h = b.g /\ b.g <= Top(r, b)
    <3>1. CASE Streaming(s)
      <4>1. Advances(r, s, b) /\ b.g = Top(s, b) /\ b.h = b.g
        BY <1>3, <3>1 DEF Moves, Marks, Streaming
      <4>2. Off(b.i, s.send_next) <= Off(b.i, r.send_next)
        BY <4>1 DEF Advances
      <4>3. Off(b.i, s.send_next) \in Nat /\ Top(s, b) = Off(b.i, s.send_next) - 1
        BY NumberFacts DEF Top
      <4>4. Top(s, b) <= Top(r, b)
        BY <1>1, <4>2, <4>3
      <4> QED
        BY <4>1, <4>4
    <3>2. CASE ~Streaming(s)
      BY <1>3, <2>1, <2>2, <3>2 DEF Moves, Marks
    <3> QED
      BY <3>1, <3>2
  <2> QED
    BY <1>1, <1>3, <2>2, <2>3 DEF MarkG, MarkH
<1>4. CASE ~Streaming(r) /\ s.state = "ESTABLISHED" /\ r.state = "FIN_WAIT_1"
  <2>1. r.alive
    BY <1>2, <1>4 DEF Flight
  <2>2. b.g = Top(s, b) /\ b.h = b.g /\ Top(s, b) < Top(r, b)
    BY <1>4 DEF Marks, Moves, Streaming, Crossing
  <2>3. Off(b.i, r.send_next) <= b.A + 2 /\ b.A <= b.m
    BY <1>2, <1>4, <2>1 DEF Numbered
  <2>4. Top(r, b) - 1 \in 0..b.m /\ Top(r, b) - 1 >= b.g /\ Top(r, b) - 1 <= b.A
    BY <1>1, <1>2, <2>2, <2>3
  <2>5. b.m + 1 \in 0..(b.m + 1)
    BY <1>1
  <2> QED
    BY <1>4, <2>2, <2>4, <2>5 DEF MarkG, MarkH
<1>5. CASE ~Streaming(r) /\ ~(s.state = "ESTABLISHED" /\ r.state = "FIN_WAIT_1")
  BY <1>1, <1>2, <1>5 DEF MarkG, MarkH
<1> QED
  BY <1>3, <1>4, <1>5

\* The pledge with the new marks covers what the step sends and what was sent.
LEMMA MarksStep ==
  ASSUME NEW s, WellFormed(s), NEW r, WellFormed(r), s.alive, NEW b, Pledge(b), ~b.any,
         Holds(r, b), Marks(s, b), Moves(r, s, b), NEW c, ~c.any, c.i = b.i, c.A = b.A,
         c.m = b.m, c.I = b.I, c.g = MarkG(r, s, b), c.h = MarkH(r, s, b)
  PROVE  /\ Marks(r, c) /\ Fits(r, s, c)
         /\ \/ c.g = b.g /\ b.h <= c.h
            \/ b.h <= b.g /\ b.g <= c.g
<1>1. /\ c.g \in 0..b.m /\ c.h \in 0..(b.m + 1) /\ c.g >= b.g /\ c.g <= b.A
      /\ Streaming(r) \/ (s.state = "ESTABLISHED" /\ r.state = "FIN_WAIT_1") => b.h = b.g
  BY MarksType
<1>2. /\ b.m \in Nat /\ Top(r, b) \in Int /\ b.g \in 0..b.m /\ b.h \in 0..(b.m + 1)
      /\ b.g <= b.A
  BY NumberFacts DEF Top, Marks
<1>3. Top(r, c) = Top(r, b) /\ Top(s, c) = Top(s, b) /\ b.i \in b.I
  BY DEF Top, Marks
<1>4. Flight(r)
  BY DEF Holds
<1>5. CASE Streaming(r)
  <2>1. c.g = Top(r, b) /\ c.h = c.g
    BY <1>5 DEF MarkG, MarkH
  <2>2. ~Crossing(r) /\ ~(r.state \in Opening) /\ r.state # "FIN_WAIT_1"
    BY <1>5 DEF Streaming, Crossing, Opening
  <2>3. ~(s.state = "CLOSE_WAIT" /\ s.user_want_to_close)
    BY <1>5 DEF Moves, Streaming, Opening
  <2> QED
    BY <1>1, <1>2, <1>3, <1>5, <2>1, <2>2, <2>3 DEF Marks, Fits
<1>6. CASE ~Streaming(r) /\ s.state = "ESTABLISHED" /\ r.state = "FIN_WAIT_1"
  <2>1. c.g = Top(r, b) - 1 /\ c.h = b.m + 1
    BY <1>6 DEF MarkG, MarkH
  <2> QED
    BY <1>1, <1>2, <1>3, <1>6, <2>1 DEF Marks, Fits, Opening
<1>7. CASE ~Streaming(r) /\ ~(s.state = "ESTABLISHED" /\ r.state = "FIN_WAIT_1")
  <2>1. c.g = b.g /\ c.h = b.h
    BY <1>7 DEF MarkG, MarkH
  <2>2. Crossing(s) => b.g < Top(s, b) /\ b.h = b.m + 1
    BY DEF Marks
  <2>3. Crossing(r) => b.g < Top(r, b) /\ b.h = b.m + 1
    <3> HAVE Crossing(r)
    <3>1. Crossing(s) /\ Advances(r, s, b)
      BY <1>7 DEF Moves, Crossing
    <3>2. Off(b.i, s.send_next) <= Off(b.i, r.send_next)
      BY <3>1 DEF Advances
    <3>3. /\ Off(b.i, s.send_next) \in Nat /\ Off(b.i, r.send_next) \in Nat /\ b.g \in Int
          /\ Top(s, b) = Off(b.i, s.send_next) - 1 /\ Top(r, b) = Off(b.i, r.send_next) - 1
      BY <1>2, NumberFacts DEF Top
    <3>4. Top(s, b) <= Top(r, b)
      BY <3>2, <3>3
    <3>5. b.g < Top(s, b) /\ Top(s, b) \in Int /\ Top(r, b) \in Int /\ b.g \in Int
      BY <2>2, <3>1, <3>3
    <3>6. b.g < Top(r, b)
      BY <3>4, <3>5
    <3> QED
      BY <2>2, <3>1, <3>6
  <2>4. r.alive /\ r.state \in Opening => b.g = 0 /\ b.h = 0
    BY DEF Moves, Marks
  <2>5. Marks(r, c)
    BY <1>2, <1>3, <1>7, <2>1, <2>3, <2>4 DEF Marks
  <2>6. Fits(r, s, c)
    BY <1>3, <1>7, <2>1, <2>2 DEF Fits, Crossing
  <2> QED
    BY <1>2, <2>1, <2>5, <2>6
<1> QED
  BY <1>5, <1>6, <1>7

\* What of a pledge Holds and Marks read.
LEMMA SamePledge ==
  ASSUME NEW s, NEW b, NEW c, c.any = b.any, c.i = b.i, c.A = b.A, c.m = b.m
  PROVE  /\ Holds(s, b) <=> Holds(s, c)
         /\ \A r : Top(r, b) = Top(r, c)
BY DEF Holds, Numbered, Top

-----------------------------------------------------------------------------
(* The packets that a timer still holds.  An acknowledgement that counts   *)
(* names an edge, the number at which one of them begins or the last one   *)
(* ends: so the oldest packet that is not acknowledged keeps its timer.    *)

\* Data packets end at a number in K; nothing else is said of them.
Ending(K) ==
  [any |-> TRUE, i |-> 0, A |-> 0, m |-> 0, I |-> {}, g |-> 0, h |-> 0, ends |-> K,
   syn |-> Word, joins |-> Word, open |-> Addr \cup {DefaultAddr}, acks |-> Word,
   fin |-> TRUE, rst |-> TRUE]

\* More numbers, more packets.
LEMMA EndingMail ==
  ASSUME NEW K, NEW L, K \subseteq L
  PROVE  /\ \A d, p : PacketOK(Ending(K), d, p) => PacketOK(Ending(L), d, p)
         /\ \A s : Mail(s, Ending(K)) => Mail(s, Ending(L))
<1> DEFINE b == Ending(K)
           c == Ending(L)
<1>1. /\ b.any /\ c.any /\ b.ends \subseteq c.ends /\ b.syn = c.syn /\ b.joins = c.joins
      /\ b.open = c.open /\ b.acks = c.acks /\ b.fin = c.fin /\ b.rst = c.rst
  BY DEF Ending
<1> HIDE DEF b, c
<1>2. ASSUME NEW seq, NEW payload, DataOK(b, seq, payload) PROVE DataOK(c, seq, payload)
  BY <1>1, <1>2 DEF DataOK
<1>3. ASSUME NEW d, NEW p, PacketOK(b, d, p) PROVE PacketOK(c, d, p)
  BY <1>1, <1>2, <1>3 DEF PacketOK
<1>4. ASSUME NEW t, TimerOK(b, t) PROVE TimerOK(c, t)
  BY <1>1, <1>2, <1>4 DEF TimerOK
<1>5. ASSUME NEW s, Mail(s, b) PROVE Mail(s, c)
  BY <1>3, <1>4, <1>5 DEF Mail
<1> QED
  BY <1>3, <1>5 DEF b, c

\* The states in which every number sent and not acknowledged is timed.
Live == {"SYN_SENT", "SYN_RECEIVED", "ESTABLISHED"}

\* The edges: what is acknowledged already, what a timer holds and the end.
Edges(s, i) ==
  {x \in Word :
     /\ s.state \in Live
     /\ \/ Off(i, x) <= Off(i, s.send_unack)
        \/ /\ Off(i, x) <= Off(i, s.send_next)
           /\ x = s.send_next \/ \E t \in s.timers : t.seq = x}

\* The oldest packet that is not acknowledged has a timer.
Timed(s) ==
  s.state = "ESTABLISHED" =>
    s.send_unack = s.send_next \/ \E t \in s.timers : t.seq = s.send_unack

\* What a step that takes s to r preserves, for the initial sequence number i.
Cuts(r, s, i) ==
  /\ Edges(s, i) \subseteq Edges(r, i)
  /\ Mail(s, Ending(Edges(s, i))) => Mail(r, Ending(Edges(r, i)))
  /\ Timed(s) => Timed(r)

\* Cuts composes.
LEMMA CutsTrans ==
  ASSUME NEW r, NEW q, NEW s, NEW i, Cuts(q, s, i), Cuts(r, q, i)
  PROVE  Cuts(r, s, i)
BY DEF Cuts

\* The fields that the edges read.
SameTiming(r, s) ==
  /\ r.state = s.state /\ r.send_unack = s.send_unack /\ r.send_next = s.send_next
  /\ r.timers = s.timers

\* What leaves them alone leaves the edges.
LEMMA SameCuts ==
  ASSUME NEW r, NEW s, NEW i, SameTiming(r, s),
         Mail(s, Ending(Edges(s, i))) => Mail(r, Ending(Edges(s, i)))
  PROVE  Cuts(r, s, i)
BY DEF SameTiming, Edges, Timed, Cuts

\* Nothing sent and no timer touched.
LEMMA AsideCuts ==
  ASSUME NEW r, NEW s, NEW i, SameTiming(r, s), r.out = s.out, r.self = s.self
  PROVE  Cuts(r, s, i)
BY SameCuts, LessMail DEF SameTiming

\* What _handle_try_send does to the timers.
LEMMA TrySendPart ==
  ASSUME NEW s, WellFormed(s)
  PROVE  LET r == handle_try_send(s)
         IN  \/ r = s
             \/ \E p \in Seq(Byte) :
                  /\ p # <<>> /\ r = send_payload_packet(s, p, {"ACK"})
                  /\ r.send_next = Plus(s.send_next, Len(p))
                  /\ \A t \in s.timers : t.seq # s.send_next => t \in r.timers
                  /\ \E t \in r.timers : t.seq = s.send_next
<1> DEFINE d == Minus(s.send_next, s.send_unack)
           allowance == Minus(s.send_window_size, d)
           p == peek_range(s.send_buffer, d, allowance)
           timer == [seq |-> s.send_next, flags |-> {"ACK"}, payload |-> p,
                     count |-> 0, dest |-> DefaultAddr]
           r == send_payload_packet(s, p, {"ACK"})
<1>1. handle_try_send(s) \in {s, r}
  BY DEF handle_try_send
<1>2. p \in Seq(Byte)
  <2>1. d \in Word
    BY Numbers, WordArith
  <2>2. d \in Nat
    BY <2>1, WordArith DEF Word
  <2> HIDE DEF d
  <2>3. allowance \in Word
    BY <2>2, Numbers, WordArith
  <2>4. allowance \in Nat
    BY <2>3, WordArith DEF Word
  <2>5. s.send_buffer \in Seq(Byte)
    BY DEF WellFormed, Session
  <2> HIDE DEF allowance
  <2> QED
    BY <2>2, <2>4, <2>5, PeekPart
<1> HIDE DEF p
<1>3. p = <<>> => r = s
  BY DEF send_payload_packet
<1>4. ASSUME p # <<>>
      PROVE  /\ r.send_next = Plus(s.send_next, Len(p))
             /\ r.timers = {t \in s.timers : t.seq # s.send_next} \cup {timer}
  <2>1. r.send_next = Plus(s.send_next, Len(p))
    BY <1>2, <1>4, PayloadMail
  <2>2. r.timers = start_timer(s, timer).timers
    BY <1>4 DEF send_payload_packet, send_packet, start_timer
  <2>3. start_timer(s, timer).timers = {t \in s.timers : t.seq # timer.seq} \cup {timer}
    BY DEF start_timer, WellFormed, Session
  <2> QED
    BY <2>1, <2>2, <2>3
<1>5. timer.seq = s.send_next
  OBVIOUS
<1> HIDE DEF timer, r
<1> QED
  BY <1>1, <1>2, <1>3, <1>4, <1>5 DEF r

\* A new packet begins at an edge and ends at one.
LEMMA TrySendCuts ==
  ASSUME NEW s, WellFormed(s), s.state \in Live, NEW i \in Word,
         Off(i, s.send_next) <= Off(i, handle_try_send(s).send_next)
  PROVE  Cuts(handle_try_send(s), s, i)
<1> DEFINE r == handle_try_send(s)
           E == Edges(s, i)
           F == Edges(r, i)
<1>1. CASE r = s
  BY <1>1 DEF Cuts
<1>2. CASE r # s
  <2>1. PICK p \in Seq(Byte) :
          /\ p # <<>> /\ r = send_payload_packet(s, p, {"ACK"})
          /\ r.send_next = Plus(s.send_next, Len(p))
          /\ \A t \in s.timers : t.seq # s.send_next => t \in r.timers
          /\ \E t \in r.timers : t.seq = s.send_next
    BY <1>2, TrySendPart
  <2>2. WellFormed(r) /\ r.state = s.state /\ r.send_unack = s.send_unack
    BY TrySendType DEF Keeps
  <2>3. /\ s.send_next \in Word /\ r.send_next \in Word /\ s.recv_next \in Word
        /\ s.send_unack \in Word
    BY <2>2, Numbers
  <2> HIDE DEF r
  <2>4. E \subseteq F
    <3> SUFFICES ASSUME NEW x \in E PROVE x \in F
      OBVIOUS
    <3>1. x \in Word /\ Off(i, x) \in Nat /\ Off(i, s.send_next) \in Nat
          /\ Off(i, r.send_next) \in Nat
      BY <2>3, OffArith DEF Edges
    <3>2. CASE Off(i, x) <= Off(i, s.send_unack)
      BY <2>2, <3>1, <3>2 DEF Edges
    <3>3. CASE /\ Off(i, x) <= Off(i, s.send_next)
               /\ x = s.send_next \/ \E t \in s.timers : t.seq = x
      <4>1. Off(i, x) <= Off(i, r.send_next)
        BY <3>1, <3>3 DEF r
      <4>2. \E t \in r.timers : t.seq = x
        BY <2>1, <3>3
      <4> QED
        BY <2>2, <3>1, <4>1, <4>2 DEF Edges
    <3> QED
      BY <3>2, <3>3 DEF Edges
  <2>5. r.send_next \in F
    <3>1. Off(i, r.send_next) \in Nat
      BY <2>3, OffArith
    <3>2. Off(i, r.send_next) <= Off(i, r.send_next)
      BY <3>1
    <3> QED
      BY <2>2, <2>3, <3>2 DEF Edges
  <2>6. Mail(s, Ending(E)) => Mail(r, Ending(F))
    <3> DEFINE b == Ending(F)
    <3>1. b.any /\ b.ends = F /\ b.acks = Word
      BY DEF Ending
    <3>2. Mail(s, Ending(E)) => Mail(s, b)
      BY <2>4, EndingMail
    <3>3. DataOK(b, s.send_next, p)
      BY <2>1, <2>5, <3>1 DEF DataOK
    <3> HIDE DEF b
    <3>4. Mail(s, b) => Mail(r, b)
      BY <2>1, <2>3, <3>1, <3>3, PayloadMail
    <3> QED
      BY <3>2, <3>4 DEF b
  <2>7. Timed(s) => Timed(r)
    BY <2>1, <2>2 DEF Timed
  <2> QED
    BY <2>4, <2>6, <2>7 DEF Cuts, r
<1> QED
  BY <1>1, <1>2

\* An acknowledgement at an edge stops only the timers before it.
LEMMA ReleaseCuts ==
  ASSUME NEW s, WellFormed(s), s.state = "ESTABLISHED", NEW i \in Word,
         Off(i, s.send_unack) <= Off(i, s.send_next),
         NEW ack \in Edges(s, i), AckAcceptable(s, ack)
  PROVE  Cuts(ReleaseAcked(s, ack), s, i)
<1> DEFINE d == drop_timer_up_to(s, Minus(ack, 1))
           r == ReleaseAcked(s, ack)
           E == Edges(s, i)
           F == Edges(r, i)
<1>1. /\ ack \in Word /\ s.send_unack \in Word /\ s.send_next \in Word
      /\ ack \in Nat /\ s.send_unack \in Nat /\ s.send_next \in Nat
      /\ s.send_unack < ack /\ ack <= s.send_next
  BY Numbers, WordArith DEF Edges, AckAcceptable, Word
<1>2. Minus(ack, 1) = ack - 1
  <2>1. 1 \in Word /\ ack >= 1
    BY <1>1, SessionAssumption DEF Word
  <2> QED
    BY <1>1, <2>1, MinusWord
<1>3. /\ r.state = s.state /\ r.send_unack = ack /\ r.send_next = s.send_next
      /\ r.out = s.out /\ r.self = s.self
      /\ r.timers = {t \in s.timers : t.seq >= ack - 1}
  <2>1. /\ d.state = s.state /\ d.send_next = s.send_next /\ d.out = s.out
        /\ d.self = s.self /\ d.timers = {t \in s.timers : t.seq >= ack - 1}
        /\ WellFormed(d)
    <3>1. WellFormed(d)
      BY TimerType
    <3>2. d.timers = {t \in s.timers : t.seq >= ack - 1}
      <4>1. d.timers = {t \in s.timers : t.seq >= Minus(ack, 1)}
        BY DEF drop_timer_up_to, WellFormed, Session
      <4> QED
        BY <1>2, <4>1
    <3>3. /\ d.state = s.state /\ d.send_next = s.send_next /\ d.out = s.out
          /\ d.self = s.self
      BY DEF drop_timer_up_to
    <3> QED
      BY <3>1, <3>2, <3>3
  <2> HIDE DEF d
  <2> QED
    BY <2>1 DEF ReleaseAcked, d, WellFormed, Session
<1> HIDE DEF r
<1>4. /\ Off(i, ack) \in Nat /\ Off(i, s.send_unack) \in Nat /\ Off(i, s.send_next) \in Nat
      /\ Off(i, s.send_unack) < Off(i, ack) /\ Off(i, ack) <= Off(i, s.send_next)
  <2>1. /\ Off(i, ack) \in Nat /\ Off(i, s.send_unack) \in Nat
        /\ Off(i, s.send_next) \in Nat /\ Minus(ack, s.send_unack) \in Nat
    BY <1>1, OffArith
  <2>2. /\ Off(i, ack) = Off(i, s.send_unack) + Minus(ack, s.send_unack)
        /\ Minus(ack, s.send_unack) > 0 /\ Off(i, ack) <= Off(i, s.send_next)
    BY <1>1, OffBetween
  <2> DEFINE x == Off(i, ack)
             u == Off(i, s.send_unack)
             k == Minus(ack, s.send_unack)
  <2> HIDE DEF x, u, k
  <2>3. x \in Nat /\ u \in Nat /\ k \in Nat /\ x = u + k /\ k > 0
    BY <2>1, <2>2 DEF x, u, k
  <2>4. u < x
    BY <2>3
  <2> QED
    BY <2>1, <2>2, <2>4 DEF x, u
<1>5. E \subseteq F
  <2> SUFFICES ASSUME NEW x \in E PROVE x \in F
    OBVIOUS
  <2>1. x \in Word /\ x \in Nat /\ Off(i, x) \in Nat
    <3>1. x \in Word
      BY DEF Edges
    <3> QED
      BY <3>1, OffArith, MinusWord
  <2>2. CASE Off(i, x) <= Off(i, s.send_unack)
    <3>1. Off(i, x) <= Off(i, ack)
      BY <1>4, <2>1, <2>2
    <3> QED
      BY <1>3, <2>1, <3>1 DEF Edges
  <2>3. CASE Off(i, x) <= Off(i, s.send_next) /\ x = s.send_next
    BY <1>3, <2>1, <2>3 DEF Edges
  <2>4. ASSUME Off(i, x) <= Off(i, s.send_next), NEW t \in s.timers, t.seq = x
        PROVE  x \in F
    <3>1. CASE x >= ack - 1
      BY <1>3, <2>1, <2>4, <3>1 DEF Edges
    <3>2. CASE ~(x >= ack - 1)
      <4>1. x < ack
        BY <1>1, <2>1, <3>2
      <4>2. Off(i, ack) = Off(i, x) + Minus(ack, x) /\ Minus(ack, x) > 0
        BY <1>1, <2>1, <2>4, <4>1, OffBetween
      <4>3. Minus(ack, x) \in Nat
        BY <1>1, <2>1, OffArith
      <4>4. Off(i, x) <= Off(i, ack)
        BY <1>4, <2>1, <4>2, <4>3
      <4> QED
        BY <1>3, <2>1, <4>4 DEF Edges
    <3> QED
      BY <3>1, <3>2
  <2> QED
    BY <2>2, <2>3, <2>4 DEF Edges
<1>6. Mail(s, Ending(E)) => Mail(r, Ending(F))
  <2>1. r.timers \subseteq s.timers
    BY <1>3
  <2>2. Mail(s, Ending(E)) => Mail(s, Ending(F))
    BY <1>5, EndingMail
  <2> QED
    BY <1>3, <2>1, <2>2, LessMail
<1>7. Timed(r)
  <2>1. ~(Off(i, ack) <= Off(i, s.send_unack))
    BY <1>4
  <2>2. ack = s.send_next \/ \E t \in s.timers : t.seq = ack
    BY <2>1 DEF Edges
  <2>3. ack >= ack - 1
    BY <1>1
  <2> QED
    BY <1>3, <2>2, <2>3 DEF Timed
<1> QED
  BY <1>5, <1>6, <1>7 DEF Cuts, r

\* So does _handle_ack, whatever it sends then.
LEMMA AckCuts ==
  ASSUME ConnectsClosed,
         NEW s, SessionInv(s), s.alive, s.state = "ESTABLISHED", NEW b, Pledge(b), ~b.any,
         Holds(s, b), NEW packet \in myu_tcp_packet,
         AckAcceptable(s, packet.ack) => packet.ack \in Edges(s, b.i)
  PROVE  Cuts(handle_ack(s, packet), s, b.i)
<1> DEFINE a == ReleaseAcked(s, packet.ack)
<1>0. WellFormed(s) /\ packet.ack \in Word /\ b.i \in Word
  BY DEF SessionInv, myu_tcp_packet, Pledge
<1>1. CASE ~AckAcceptable(s, packet.ack)
  BY <1>1 DEF handle_ack, Cuts
<1>2. CASE AckAcceptable(s, packet.ack)
  <2>1. Off(b.i, s.send_unack) <= Off(b.i, s.send_next)
    BY <1>0, StreamingNumbers DEF Holds, Streaming
  <2>2. Cuts(a, s, b.i)
    BY <1>0, <1>2, <2>1, ReleaseCuts
  <2>3. Holds(a, b) /\ a.state = s.state /\ a.alive = s.alive
    BY <1>0, <1>2, ReleaseCarries
  <2>4. PICK g : /\ handle_ack(s, packet) = handle_try_send(g)
                 /\ WellFormed(g) /\ SameNumbers(g, a) /\ g.timers = a.timers
                 /\ g.out = a.out /\ g.self = a.self /\ g.recv_next = a.recv_next
    BY <1>2, AckPart
  <2> HIDE DEF a
  <2>5. Cuts(g, a, b.i)
    BY <2>4, AsideCuts DEF SameTiming, SameNumbers
  <2>6. Holds(g, b) /\ g.alive /\ g.state = "ESTABLISHED"
    BY <2>3, <2>4, SameHolds DEF SameNumbers
  <2>7. Off(b.i, g.send_next) <= Off(b.i, handle_try_send(g).send_next)
    BY <2>4, <2>6, TrySendCarries DEF Carries, Advances
  <2>8. Cuts(handle_try_send(g), g, b.i)
    BY <1>0, <2>4, <2>6, <2>7, TrySendCuts DEF Live
  <2> QED
    BY <2>2, <2>4, <2>5, <2>8, CutsTrans
<1> QED
  BY <1>1, <1>2

\* The acknowledgement of the SYN stops its timer, and leaves nothing in flight.
LEMMA HandshakeCuts ==
  ASSUME NEW s, WellFormed(s), s.alive, s.state \in {"SYN_SENT", "SYN_RECEIVED"},
         NEW b, Pledge(b), ~b.any, Holds(s, b)
  PROVE  Cuts(handle_try_send(TakeControlAck(s, ExpectedAck(s), "ESTABLISHED")), s, b.i)
<1> DEFINE ack == ExpectedAck(s)
           d == stop_timer(s, Minus(ack, 1))
           t == TakeControlAck(s, ack, "ESTABLISHED")
           E == Edges(s, b.i)
           F == Edges(t, b.i)
<1>1. ack \in Word /\ ack = s.send_next /\ b.i \in Word
  BY Numbers, WordArith DEF ExpectedAck, Holds, Flight, Pledge
<1>2. /\ t.state = "ESTABLISHED" /\ t.send_unack = s.send_next
      /\ t.send_next = s.send_next /\ t.timers \subseteq s.timers
      /\ t.out = s.out /\ t.self = s.self /\ WellFormed(t)
  <2>1. /\ d.send_next = s.send_next /\ d.timers \subseteq s.timers
        /\ d.out = s.out /\ d.self = s.self /\ WellFormed(d)
    BY TimerType DEF stop_timer, WellFormed, Session
  <2>2. t = [d EXCEPT !.send_unack = ack, !.state = "ESTABLISHED"]
    BY DEF TakeControlAck
  <2>3. WellFormed(t)
    BY <1>1, ControlAckType DEF TcpState
  <2> HIDE DEF d, ack
  <2>4. /\ t.state = "ESTABLISHED" /\ t.send_unack = ack /\ t.send_next = d.send_next
        /\ t.timers = d.timers /\ t.out = d.out /\ t.self = d.self
    BY <2>1, <2>2 DEF WellFormed, Session
  <2> QED
    BY <1>1, <2>1, <2>3, <2>4
<1> HIDE DEF t
<1>3. E \subseteq F
  <2> SUFFICES ASSUME NEW x \in E PROVE x \in F
    OBVIOUS
  <2>1. s.send_unack = b.i
    BY DEF Holds, Numbered
  <2>2. x \in Word
    BY DEF Edges
  <2>3. Off(b.i, b.i) = 0 /\ Off(b.i, x) \in Nat /\ Off(b.i, s.send_next) \in Nat
    BY <1>1, <2>2, OffArith
  <2>4. Off(b.i, x) <= Off(b.i, s.send_next)
    BY <2>1, <2>3 DEF Edges
  <2> QED
    BY <1>2, <2>2, <2>4 DEF Edges, Live
<1>4. Mail(s, Ending(E)) => Mail(t, Ending(F))
  BY <1>2, <1>3, EndingMail, LessMail
<1>5. Cuts(t, s, b.i)
  BY <1>2, <1>3, <1>4 DEF Cuts, Timed
<1>6. Off(b.i, t.send_next) <= Off(b.i, handle_try_send(t).send_next)
  BY <1>2, HandshakeCarries DEF Advances, t
<1>7. Cuts(handle_try_send(t), t, b.i)
  BY <1>1, <1>2, <1>6, TrySendCuts DEF Live
<1> QED
  BY <1>5, <1>7, CutsTrans DEF t

\* A SYN begins at the only edge there is.
LEMMA OpenCuts ==
  ASSUME NEW s, s.state \notin Live, NEW a, WellFormed(a), a.timers = s.timers,
         a.out = s.out, a.self = s.self, a.state # "ESTABLISHED",
         NEW flags \in {{"SYN"}, {"SYN", "ACK"}}, NEW i
  PROVE  Cuts(send_control_packet(a, flags), s, i)
<1> DEFINE r == send_control_packet(a, flags)
           b == Ending(Edges(r, i))
<1>1. Edges(s, i) = {}
  BY DEF Edges
<1>2. flags \in SUBSET TcpFlag
  BY DEF TcpFlag
<1>3. r.state # "ESTABLISHED"
  BY <1>2, ControlBeside
<1>4. Mail(s, Ending({})) => Mail(a, b)
  BY EndingMail, LessMail
<1>5. Mail(a, b) => Mail(r, b)
  <2>1. /\ a.send_next \in Word /\ a.recv_next \in Word /\ a.remote \in Addr
        /\ b.syn = Word /\ b.joins = Word /\ b.acks = Word
        /\ b.open = Addr \cup {DefaultAddr}
    BY Numbers DEF Ending, WellFormed, Session
  <2>2. "FIN" \notin flags /\ "RST" \notin flags
    OBVIOUS
  <2> HIDE DEF b
  <2> QED
    BY <1>2, <2>1, <2>2, ControlMail
<1> QED
  BY <1>1, <1>3, <1>4, <1>5 DEF Cuts, Timed

\* A retransmission that does not give up keeps its timer.
LEMMA RetransmitCuts ==
  ASSUME NEW s, WellFormed(s), NEW t \in s.timers, ~(t.count + 1 >= MAX_RETRANSMIT_COUNT),
         NEW i
  PROVE  Cuts(handle_retransmit(s, t), s, i)
<1> DEFINE next == [t EXCEPT !.count = t.count + 1]
           r == handle_retransmit(s, t)
           b == Ending(Edges(s, i))
<1>1. t \in RetransmitTimer /\ next.seq = t.seq
  <2>1. t \in RetransmitTimer
    BY DEF WellFormed, Session
  <2> QED
    BY <2>1 DEF RetransmitTimer
<1>2. r.timers = {u \in s.timers : u.seq # t.seq} \cup {next}
  <2>1. r.timers = start_timer(s, next).timers
    BY DEF handle_retransmit, send_packet, start_timer
  <2>2. start_timer(s, next).timers = {u \in s.timers : u.seq # next.seq} \cup {next}
    BY DEF start_timer, WellFormed, Session
  <2> QED
    BY <1>1, <2>1, <2>2
<1>3. SameNumbers(r, s)
  BY RetransmitCarries
<1> HIDE DEF next
<1>4. ASSUME NEW x PROVE (\E u \in r.timers : u.seq = x) <=> \E u \in s.timers : u.seq = x
  BY <1>1, <1>2
<1>5. Mail(s, b) => Mail(r, b)
  <2>1. s.recv_next \in b.acks
    BY Numbers DEF Ending
  <2> HIDE DEF b
  <2> QED
    BY <2>1, RetransmitCarries
<1> HIDE DEF r
<1>6. Edges(r, i) = Edges(s, i) /\ (Timed(s) => Timed(r))
  BY <1>3, <1>4 DEF Edges, Timed, SameNumbers
<1> QED
  BY <1>5, <1>6 DEF Cuts, r

\* A pure acknowledgement is no data.
LEMMA PureAckCuts ==
  ASSUME NEW s, WellFormed(s), NEW ack \in Word, NEW i
  PROVE  Cuts(send_pure_ack(s, ack), s, i)
<1> DEFINE r == send_pure_ack(s, ack)
           b == Ending(Edges(s, i))
<1>1. SameTiming(r, s)
  BY PureAckBeside DEF SameTiming, SameNumbers
<1>2. ack \in b.acks
  BY DEF Ending
<1> HIDE DEF b
<1>3. Mail(s, b) => Mail(r, b)
  BY <1>2, PureAckMail
<1> HIDE DEF r
<1> QED
  BY <1>1, <1>3, SameCuts DEF r, b

\* SYN_SENT.
LEMMA SynSentCuts ==
  ASSUME NEW s, WellFormed(s), s.alive, s.state = "SYN_SENT", NEW b, Pledge(b), ~b.any,
         Holds(s, b), NEW packet \in myu_tcp_packet,
         "SYN" \in packet.flags => "ACK" \in packet.flags
  PROVE  Cuts(handle_syn_sent(s, packet), s, b.i)
<1> DEFINE n == Plus(packet.seq, 1)
           synced == [s EXCEPT !.recv_next = n]
           acked == send_pure_ack(synced, synced.recv_next)
           r == handle_try_send(TakeControlAck(acked, ExpectedAck(acked), "ESTABLISHED"))
           done == {"SYN", "ACK"} \subseteq packet.flags /\ packet.ack = ExpectedAck(s)
<1>1. n \in Word
  BY WordArith DEF myu_tcp_packet, Word
<1> HIDE DEF n
<1>2. /\ WellFormed(synced) /\ SameNumbers(synced, s) /\ synced.recv_next = n
      /\ synced.timers = s.timers /\ synced.out = s.out /\ synced.self = s.self
  BY <1>1 DEF WellFormed, Session, SameNumbers
<1>3. handle_syn_sent(s, packet)
        = IF done
            THEN handle_try_send(TakeControlAck(send_pure_ack(synced, synced.recv_next),
                                                packet.ack, "ESTABLISHED"))
            ELSE s
  BY DEF handle_syn_sent, Has, n
<1> HIDE DEF synced
<1>4. SameNumbers(acked, synced) /\ WellFormed(acked) /\ Cuts(acked, synced, b.i)
  BY <1>1, <1>2, PureAckBeside, PureAckCuts
<1> HIDE DEF acked
<1>5. SameNumbers(acked, s)
  BY <1>2, <1>4 DEF SameNumbers
<1>6. ExpectedAck(acked) = ExpectedAck(s)
  BY <1>5 DEF ExpectedAck, SameNumbers
<1>7. handle_syn_sent(s, packet) = IF done THEN r ELSE s
  BY <1>3, <1>6 DEF acked
<1>8. Holds(acked, b) /\ acked.alive /\ acked.state = "SYN_SENT"
  BY <1>5, SameHolds DEF SameNumbers
<1>9. Cuts(r, acked, b.i)
  BY <1>4, <1>8, HandshakeCuts
<1>10. Cuts(synced, s, b.i)
  BY <1>2, AsideCuts DEF SameTiming, SameNumbers
<1>11. Cuts(s, s, b.i)
  BY DEF Cuts
<1> HIDE DEF r
<1>12. Cuts(r, s, b.i)
  BY <1>4, <1>9, <1>10, CutsTrans
<1> QED
  BY <1>7, <1>11, <1>12

\* ESTABLISHED: the acknowledgement, if it counts, is at an edge.
LEMMA EstablishedCuts ==
  ASSUME ConnectsClosed,
         NEW s, SessionInv(s), s.alive, s.state = "ESTABLISHED", NEW b, Pledge(b), ~b.any,
         Holds(s, b), NEW packet \in myu_tcp_packet,
         "ACK" \in packet.flags /\ AckAcceptable(s, packet.ack) => packet.ack \in Edges(s, b.i)
  PROVE  LET r == handle_established(s, packet)
         IN  r.state = "ESTABLISHED" => Cuts(r, s, b.i)
<1> DEFINE h == handle_ack(s, packet)
           acked == IF Has(packet, "ACK") THEN handle_try_send(h) ELSE s
           taken == handle_incoming_packet(acked, packet)
           read == CASE packet.payload = <<>> -> acked
                     [] packet.payload # <<>> /\ InOrder(acked, packet) -> on_data_cb(taken)
                     [] OTHER -> taken
           fin == AcceptFin(read, packet, "CLOSE_WAIT")
           last == on_data_cb(fin)
<1>0. WellFormed(s) /\ HasFields(s) /\ s.ooo_map = {} /\ packet.ack \in Word /\ b.i \in Word
  BY SessionHasFields DEF SessionInv, myu_tcp_packet, Pledge
<1>1. handle_established(s, packet) = IF "FIN" \in packet.flags THEN last ELSE read
  BY DEF handle_established, Has
<1>2. WellFormed(acked) /\ acked.ooo_map = {} /\ Cuts(acked, s, b.i)
  <2>1. CASE "ACK" \in packet.flags
    <3>1. Cuts(h, s, b.i)
      BY <2>1, AckCuts
    <3>2. Carries(h, s, b) /\ SessionInv(h) /\ h.state = s.state
      BY <1>0, AckCarries, AckInv
    <3>3. Frame(h, s)
      BY <1>0, AckFrame
    <3> HIDE DEF h
    <3>4. WellFormed(h) /\ Holds(h, b) /\ h.alive /\ h.state = "ESTABLISHED"
      BY <3>2, <3>3 DEF SessionInv, Carries, Frame
    <3> DEFINE q == handle_try_send(h)
    <3>5. Carries(q, h, b) /\ WellFormed(q) /\ Keeps(q, h)
      BY <3>4, TrySendCarries, TrySendType
    <3>6. Off(b.i, h.send_next) <= Off(b.i, q.send_next)
      BY <3>5 DEF Carries, Advances
    <3>7. Cuts(q, h, b.i)
      BY <1>0, <3>4, <3>6, TrySendCuts DEF Live
    <3>8. acked = q
      BY <2>1 DEF Has
    <3> HIDE DEF q, acked
    <3>9. Cuts(q, s, b.i)
      BY <3>1, <3>7, CutsTrans
    <3> QED
      BY <1>0, <3>3, <3>5, <3>8, <3>9 DEF Keeps, Frame
  <2>2. CASE "ACK" \notin packet.flags
    BY <1>0, <2>2 DEF Has, Cuts
  <2> QED
    BY <2>1, <2>2
<1> HIDE DEF acked
<1>3. WellFormed(taken) /\ Cuts(taken, acked, b.i)
  <2> DEFINE e == Ending(Edges(acked, b.i))
  <2>1. /\ SameTiming(taken, acked) /\ WellFormed(taken)
        /\ Mail(acked, e) /\ taken.recv_next \in e.acks => Mail(taken, e)
    BY <1>2, IncomingCarries DEF SameTiming, SameNumbers
  <2>2. taken.recv_next \in e.acks
    BY <2>1, Numbers DEF Ending
  <2> HIDE DEF taken
  <2> QED
    BY <2>1, <2>2, SameCuts
<1> HIDE DEF taken
<1>4. ASSUME NEW q, WellFormed(q)
      PROVE  /\ WellFormed(on_data_cb(q)) /\ Cuts(on_data_cb(q), q, b.i)
             /\ on_data_cb(q).state = q.state
  <2> DEFINE d == on_data_cb(q)
  <2>1. /\ WellFormed(d) /\ SameTiming(d, q) /\ d.out = q.out /\ d.self = q.self
    BY <1>4 DEF on_data_cb, WellFormed, Session, SameTiming
  <2> HIDE DEF d
  <2>2. Cuts(d, q, b.i) /\ d.state = q.state
    BY <2>1, AsideCuts DEF SameTiming
  <2> QED
    BY <2>1, <2>2 DEF d
<1>5. Cuts(acked, acked, b.i)
  BY DEF Cuts
<1>6. Cuts(on_data_cb(taken), acked, b.i)
  BY <1>3, <1>4, CutsTrans
<1>7. WellFormed(read) /\ Cuts(read, acked, b.i)
  BY <1>2, <1>3, <1>4, <1>5, <1>6
<1> HIDE DEF read
<1>8. Cuts(read, s, b.i)
  BY <1>2, <1>7, CutsTrans
<1>9. last.state = "CLOSE_WAIT"
  <2>1. WellFormed(fin) /\ fin.state = "CLOSE_WAIT"
    BY <1>7, FinType DEF TcpState
  <2> QED
    BY <1>4, <2>1
<1> QED
  BY <1>1, <1>8, <1>9

\* LISTEN.
LEMMA ListenCuts ==
  ASSUME NEW s, WellFormed(s), s.state = "LISTEN", NEW packet \in myu_tcp_packet,
         NEW iss \in Word, NEW i
  PROVE  Cuts(handle_listen(s, packet, iss), s, i)
<1> DEFINE n == Plus(packet.seq, 1)
           a == [s EXCEPT !.send_next = iss, !.send_unack = iss,
                          !.recv_next = n, !.state = "SYN_RECEIVED"]
           r == send_control_packet(a, {"SYN", "ACK"})
<1>1. n \in Word
  BY WordArith DEF myu_tcp_packet, Word
<1>2. handle_listen(s, packet, iss) = IF "SYN" \in packet.flags THEN r ELSE s
  BY DEF handle_listen, Has
<1> HIDE DEF n
<1>3. /\ WellFormed(a) /\ a.self = s.self /\ a.state = "SYN_RECEIVED"
      /\ a.timers = s.timers /\ a.out = s.out
  BY <1>1 DEF WellFormed, Session, TcpState
<1> HIDE DEF a
<1>4. Cuts(r, s, i)
  BY <1>3, OpenCuts DEF Live
<1>5. Cuts(s, s, i)
  BY DEF Cuts
<1> QED
  BY <1>2, <1>4, <1>5

\* A session that lives on after a packet has no packet without a timer.
LEMMA InputCuts ==
  ASSUME ConnectsClosed,
         NEW s, SessionInv(s), s.alive, s.state \in Live \cup {"LISTEN"},
         NEW b, Pledge(b), ~b.any, Holds(s, b),
         NEW packet \in myu_tcp_packet, NEW iss \in Word,
         s.state = "SYN_SENT" /\ "SYN" \in packet.flags => "ACK" \in packet.flags,
         s.state = "ESTABLISHED" /\ "ACK" \in packet.flags /\ AckAcceptable(s, packet.ack)
           => packet.ack \in Edges(s, b.i)
  PROVE  LET r == input(s, packet, iss)
         IN  r.alive /\ r.state \in Live \cup {"LISTEN"} => Cuts(r, s, b.i)
<1> DEFINE p == [s EXCEPT !.peer_usable_window_size = packet.win]
           d == DispatchOnState(p, packet, iss)
           q == stop_all_timers(s)
<1>0. WellFormed(s)
  BY DEF SessionInv
<1>1. \/ input(s, packet, iss) = s
      \/ input(s, packet, iss) = on_closed_cb(q)
      \/ input(s, packet, iss) = d
  BY DEF input, Has, handle_reset
<1>2. Cuts(s, s, b.i)
  BY DEF Cuts
<1>3. ~on_closed_cb(q).alive
  BY <1>0, TimerType, EraseCarries
<1>4. /\ WellFormed(p) /\ Same(p, s) /\ p.timers = s.timers /\ p.msl_timer = s.msl_timer
      /\ SameNumbers(p, s) /\ p.out = s.out /\ p.remote = s.remote
  BY <1>0 DEF myu_tcp_packet, WellFormed, Session, Same, SameNumbers
<1> HIDE DEF p
<1>5. SessionInv(p) /\ p.self = s.self
  BY <1>4, AsideInv
<1>6. Cuts(p, s, b.i) /\ Edges(p, b.i) = Edges(s, b.i)
  BY <1>4, <1>5, AsideCuts DEF SameTiming, SameNumbers, Edges
<1>7. Holds(p, b) /\ p.alive /\ p.state = s.state
  BY <1>4, SameHolds DEF SameNumbers
<1>8. AckAcceptable(p, packet.ack) <=> AckAcceptable(s, packet.ack)
  BY <1>4 DEF SameNumbers, AckAcceptable
<1>9. ASSUME d.state \in Live \cup {"LISTEN"} PROVE Cuts(d, p, b.i)
  <2>1. CASE p.state = "LISTEN"
    BY <1>4, <2>1, ListenCuts DEF DispatchOnState
  <2>2. CASE p.state = "SYN_SENT"
    BY <1>4, <1>7, <2>2, SynSentCuts DEF DispatchOnState
  <2>3. CASE p.state = "SYN_RECEIVED"
    <3> DEFINE t == handle_try_send(TakeControlAck(p, ExpectedAck(p), "ESTABLISHED"))
    <3>1. d \in {p, t}
      BY <2>3 DEF DispatchOnState, handle_syn_received
    <3>2. Cuts(t, p, b.i)
      BY <1>4, <1>7, <2>3, HandshakeCuts
    <3>3. Cuts(p, p, b.i)
      BY DEF Cuts
    <3> QED
      BY <3>1, <3>2, <3>3
  <2>4. CASE p.state = "ESTABLISHED"
    <3>1. d = handle_established(p, packet)
      BY <2>4 DEF DispatchOnState
    <3>2. d.state \in {"ESTABLISHED", "CLOSE_WAIT"}
      BY <1>5, <2>4, <3>1, EstablishedMoves, SessionHasFields DEF SessionInv
    <3>3. d.state = "ESTABLISHED" => Cuts(d, p, b.i)
      BY <1>5, <1>6, <1>7, <1>8, <2>4, <3>1, EstablishedCuts
    <3> QED
      BY <1>9, <3>2, <3>3 DEF Live
  <2> QED
    BY <1>7, <2>1, <2>2, <2>3, <2>4 DEF Live
<1> HIDE DEF d
<1> QED
  BY <1>1, <1>2, <1>3, <1>6, <1>9, CutsTrans

\* connect().
LEMMA ConnectCuts ==
  ASSUME NEW s, WellFormed(s), s.state = "CLOSED", NEW iss \in Word, NEW i
  PROVE  Cuts(connect(s, iss), s, i)
<1> DEFINE a == [s EXCEPT !.state = "SYN_SENT", !.send_next = iss, !.send_unack = iss]
<1>1. connect(s, iss) = send_control_packet(a, {"SYN"})
  BY DEF connect
<1>2. /\ WellFormed(a) /\ a.self = s.self /\ a.state = "SYN_SENT"
      /\ a.timers = s.timers /\ a.out = s.out
  BY DEF WellFormed, Session, TcpState
<1> HIDE DEF a
<1>3. Cuts(send_control_packet(a, {"SYN"}), s, i)
  BY <1>2, OpenCuts DEF Live
<1> QED
  BY <1>1, <1>3

\* send().
LEMMA SendCuts ==
  ASSUME NEW s, WellFormed(s), s.state \in Live, NEW data \in Seq(Byte), NEW i \in Word,
         Off(i, s.send_next) <= Off(i, send(s, data).send_next)
  PROVE  Cuts(send(s, data), s, i)
<1> DEFINE w == s.send_buffer \o Writable(s, data)
           q == [s EXCEPT !.send_buffer = w]
           r == handle_try_send(q)
<1>1. CASE data = <<>>
  BY <1>1 DEF send, Cuts
<1>2. CASE data # <<>>
  <2>1. send(s, data) = r
    BY <1>2 DEF send, push_batch
  <2>2. w \in Seq(Byte) /\ Len(w) <= BufferCapacity
    BY WritableType
  <2> HIDE DEF w
  <2>3. /\ WellFormed(q) /\ SameTiming(q, s) /\ q.out = s.out /\ q.self = s.self
        /\ q.send_next = s.send_next
    BY <2>2 DEF WellFormed, Session, SameTiming
  <2> HIDE DEF q
  <2>4. Cuts(q, s, i)
    BY <2>3, AsideCuts
  <2>5. Cuts(r, q, i)
    BY <2>1, <2>3, TrySendCuts DEF SameTiming
  <2> QED
    BY <2>1, <2>4, <2>5, CutsTrans
<1> QED
  BY <1>1, <1>2

\* recv() reads.
LEMMA RecvCuts ==
  ASSUME NEW s, WellFormed(s), s.state # "CLOSE_WAIT", NEW n, NEW i
  PROVE  Cuts(recv(s, n), s, i)
<1> DEFINE rest == [s EXCEPT !.recv_buffer = pop_front(s.recv_buffer, n)]
<1>1. recv(s, n) = rest
  BY DEF recv
<1>2. SameTiming(rest, s) /\ rest.out = s.out /\ rest.self = s.self
  BY DEF SameTiming, WellFormed, Session
<1> HIDE DEF rest
<1> QED
  BY <1>1, <1>2, AsideCuts

====
