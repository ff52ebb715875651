------------------------- MODULE TcpConnectionProofs -------------------------
(***************************************************************************)
(* Safety of the connection for every number of bytes, every choice of     *)
(* initial sequence numbers, every fault budget and every size of the      *)
(* words and buffers.                                                      *)
(*                                                                         *)
(* TypeOK, FastRetransmitUnreachable, ClosedIsQuiet, ReassemblyUnreachable *)
(* and NoLostWakeup follow from IInv, which adds to TypeOK the invariant   *)
(* of each session (TcpSessionProofs).  Every handler preserves it on its  *)
(* own: what the network does to datagrams never matters, since a datagram *)
(* that has been lost, corrupted, repeated or overtaken is still one.      *)
(*                                                                         *)
(* InflightIsBuffered and StreamPrefix relate what one stack has put into  *)
(* its datagrams to what the other takes out of them.  A pledge says what  *)
(* the packets of a stack may contain; the sessions, their timers and the  *)
(* network keep it (Acts), and from it follows what is read (Streams).     *)
(***************************************************************************)
EXTENDS TcpConnection, TcpSessionStream

IInv == TypeOK /\ \A e \in Addr : SessionInv(sess[e])

\* The part of the invariant that Commit establishes.
SessionsOK ==
  /\ sess \in [Addr -> Session]
  /\ \A e \in Addr : /\ SessionInv(sess[e])
                     /\ sess[e].self = e /\ sess[e].out = NothingSent

NetOK == net \in [Addr -> Seq(myu_tcp_packet)]

\* The histories and the counters.
RestOK ==
  /\ accepted \in [Addr -> Nat]
  /\ delivered \in [Addr -> Seq(Byte)]
  /\ abandoned \in [Addr -> BOOLEAN]
  /\ opens \in [Addr -> Nat]
  /\ budget \in [Fault -> Nat]

\* The invariant is the conjunction of its three parts.
LEMMA Parts == IInv <=> SessionsOK /\ NetOK /\ RestOK
BY DEF IInv, TypeOK, SessionsOK, NetOK, RestOK, SessionInv, WellFormed

\* A stack has exactly one peer.
LEMMA PeerType == ASSUME NEW e \in Addr PROVE Peer(e) \in Addr
BY ConnectionAssumption DEF Peer

\* Nothing sent is the empty sequence for each destination.
LEMMA NothingSentType == NothingSent \in [Addr -> Seq(myu_tcp_packet)]
<1> DEFINE S == Seq(myu_tcp_packet)
<1>1. <<>> \in S
  OBVIOUS
<1> HIDE DEF S
<1> QED
  BY <1>1 DEF NothingSent

\* A session that satisfies its invariant, committed, leaves sessions and
\* network well formed.
LEMMA CommitInv ==
  ASSUME NEW e \in Addr, NEW s, SessionInv(s), s.self = e,
         NEW rest \in [Addr -> Seq(myu_tcp_packet)], SessionsOK, Commit(e, s, rest)
  PROVE  SessionsOK' /\ NetOK'
<1> DEFINE q == [s EXCEPT !.out = NothingSent]
           S == Seq(myu_tcp_packet)
<1>1. sess' = [sess EXCEPT ![e] = q] /\ net' = [d \in Addr |-> rest[d] \o s.out[d]]
  BY DEF Commit
<1>2. q \in Session /\ SessionInv(q) /\ q.self = e /\ q.out = NothingSent
  <2>1. ASSUME NEW o \in [Addr -> S]
        PROVE  LET r == [s EXCEPT !.out = o]
               IN  r \in Session /\ SessionInv(r) /\ r.self = e /\ r.out = o
    BY DEF SessionInv, WellFormed, Session, DupInv, Quiet
  <2> QED
    BY <2>1, NothingSentType
<1>3. s.out \in [Addr -> S]
  BY DEF SessionInv, WellFormed, Session
<1>4. \A d \in Addr : rest[d] \o s.out[d] \in S
  BY <1>3, ConcatProperties
<1>5. NetOK'
  <2> HIDE DEF S
  <2> QED
    BY <1>1, <1>4 DEF NetOK, S
<1> HIDE DEF q
<1>6. SessionsOK'
  BY <1>1, <1>2 DEF SessionsOK
<1> QED
  BY <1>5, <1>6

\* The initial state: new sessions, empty queues.
LEMMA InitInv == Init => IInv
<1> SUFFICES ASSUME Init PROVE SessionsOK /\ NetOK /\ RestOK
  BY Parts
<1>1. SessionsOK
  <2>1. PICK i \in [Addr -> InitialSendSeq] :
          sess = [e \in Addr |-> IF e \in Connectors THEN NewSession(e, Peer(e), i[e])
                                                     ELSE NoSession(e)]
    BY DEF Init
  <2>2. ASSUME NEW e \in Addr
        PROVE  LET n == NewSession(e, Peer(e), i[e])
               IN  n \in Session /\ SessionInv(n) /\ n.self = e /\ n.out = NothingSent
    <3>1. i[e] \in Word
      BY ConnectionAssumption
    <3> QED
      BY <3>1, PeerType, NewSessionInv DEF SessionInv, WellFormed, NewSession
  <2>3. ASSUME NEW e \in Addr
        PROVE  LET n == NoSession(e)
               IN  n \in Session /\ SessionInv(n) /\ n.self = e /\ n.out = NothingSent
    <3> DEFINE n == NewSession(e, Peer(e), 0)
    <3>1. SessionInv(n) /\ n.self = e /\ n.out = NothingSent
      BY WordArith, PeerType, NewSessionInv DEF NewSession
    <3>2. NoSession(e) = [n EXCEPT !.alive = FALSE]
      BY DEF NoSession
    <3> HIDE DEF n
    <3> QED
      BY <3>1, <3>2 DEF SessionInv, WellFormed, Session, DupInv, Quiet
  <2> QED
    BY <2>1, <2>2, <2>3 DEF SessionsOK
<1>2. NetOK
  BY NothingSentType DEF Init, NetOK, NothingSent
<1>3. RestOK
  <2>1. <<>> \in Seq(Byte)
    OBVIOUS
  <2>2. delivered \in [Addr -> Seq(Byte)]
    BY <2>1 DEF Init
  <2>3. budget \in [Fault -> Nat]
    BY ConnectionAssumption DEF Init, Fault
  <2> QED
    BY <2>2, <2>3 DEF Init, RestOK
<1> QED
  BY <1>1, <1>2, <1>3

\* Spending from a budget leaves a budget.
LEMMA SpendType ==
  ASSUME RestOK, NEW fault \in Fault, Spend(fault)
  PROVE  budget' \in [Fault -> Nat]
BY DEF RestOK, Spend

\* The application's calls.
LEMMA ApplicationInv ==
  ASSUME SessionsOK, NetOK, RestOK, NEW e \in Addr, Application(e)
  PROVE  SessionsOK' /\ NetOK' /\ RestOK'
<1>1. CASE Connect(e)
  <2>1. PICK iss \in ISS[e] : Commit(e, connect(sess[e], iss), net)
    BY <1>1 DEF Connect
  <2>2. /\ iss \in Word /\ SessionInv(sess[e]) /\ sess[e].self = e
        /\ sess[e].state \in ConnectStates
    BY <1>1, ConnectionAssumption DEF Connect, SessionsOK
  <2>3. SessionInv(connect(sess[e], iss)) /\ connect(sess[e], iss).self = e
    BY <2>2, ConnectInv
  <2>4. SessionsOK' /\ NetOK'
    BY <2>1, <2>3, CommitInv DEF NetOK
  <2>5. RestOK'
    BY <1>1 DEF Connect, RestOK
  <2> QED
    BY <2>4, <2>5
<1>2. CASE Send(e)
  <2> DEFINE Data(n) == [i \in 1..n |-> accepted[e] + i]
  <2>1. PICK n \in ChunkSizes :
          /\ Commit(e, send(sess[e], Data(n)), net)
          /\ accepted' = [accepted EXCEPT ![e] = @ + Len(Writable(sess[e], Data(n)))]
    BY <1>2 DEF Send
  <2>2. Data(n) \in Seq(Byte)
    <3>1. n \in Nat /\ accepted[e] \in Nat
      BY ConnectionAssumption DEF RestOK
    <3>2. \A i \in 1..n : accepted[e] + i \in Byte
      BY <3>1 DEF Byte
    <3> QED
      BY <3>1, <3>2
  <2>3. SessionInv(sess[e]) /\ sess[e].self = e /\ WellFormed(sess[e])
    BY DEF SessionsOK, SessionInv
  <2> HIDE DEF Data
  <2>4. SessionInv(send(sess[e], Data(n))) /\ send(sess[e], Data(n)).self = e
    BY <2>2, <2>3, SendInv
  <2>5. SessionsOK' /\ NetOK'
    BY <2>1, <2>4, CommitInv DEF NetOK
  <2>6. Len(Writable(sess[e], Data(n))) \in Nat
    BY <2>2, <2>3, WritableType
  <2>7. RestOK'
    BY <1>2, <2>1, <2>6 DEF Send, RestOK
  <2> QED
    BY <2>5, <2>7
<1>3. CASE Recv(e)
  <2>1. PICK n \in RecvSizes :
          /\ delivered' = [delivered EXCEPT ![e] = @ \o Readable(sess[e], n)]
          /\ Commit(e, recv(sess[e], n), net)
    BY <1>3 DEF Recv
  <2>2. n \in Nat /\ SessionInv(sess[e]) /\ sess[e].self = e
    BY ConnectionAssumption DEF SessionsOK
  <2>3. /\ SessionInv(recv(sess[e], n)) /\ recv(sess[e], n).self = e
        /\ Readable(sess[e], n) \in Seq(Byte)
    BY <2>2, RecvInv
  <2>4. SessionsOK' /\ NetOK'
    BY <2>1, <2>3, CommitInv DEF NetOK
  <2>5. delivered[e] \o Readable(sess[e], n) \in Seq(Byte)
    BY <2>3, ConcatProperties DEF RestOK
  <2>6. RestOK'
    BY <1>3, <2>1, <2>5 DEF Recv, RestOK
  <2> QED
    BY <2>4, <2>6
<1>4. CASE Close(e)
  <2>1. SessionInv(sess[e]) /\ sess[e].self = e
    BY DEF SessionsOK
  <2>2. SessionInv(close(sess[e])) /\ close(sess[e]).self = e
    BY <2>1, CloseInv
  <2>3. SessionsOK' /\ NetOK'
    BY <1>4, <2>2, CommitInv DEF Close, NetOK
  <2>4. RestOK'
    BY <1>4 DEF Close, RestOK
  <2> QED
    BY <2>3, <2>4
<1> QED
  BY <1>1, <1>2, <1>3, <1>4 DEF Application

\* The idle handle and the timers.
LEMMA CallbackInv ==
  ASSUME SessionsOK, NetOK, RestOK, NEW e \in Addr,
         Dispatch(e) \/ Timeout(e) \/ MslTimeout(e)
  PROVE  SessionsOK' /\ NetOK' /\ RestOK'
<1>0. SessionInv(sess[e]) /\ sess[e].self = e /\ WellFormed(sess[e])
  BY DEF SessionsOK, SessionInv
<1>1. CASE Dispatch(e)
  <2> DEFINE s == [sess[e] EXCEPT !.is_in_ready_queue = FALSE]
  <2>1. SessionInv(s) /\ s.self = e
    <3>1. /\ WellFormed(s) /\ Same(s, sess[e])
          /\ s.timers = sess[e].timers /\ s.msl_timer = sess[e].msl_timer
      BY <1>0, FieldType
    <3> HIDE DEF s
    <3> QED
      BY <1>0, <3>1, AsideInv
  <2>2. /\ \/ Commit(e, read_all(s), net) /\ delivered' = [delivered EXCEPT ![e] = @ \o s.recv_buffer]
           \/ Commit(e, s, net) /\ delivered' = delivered
        /\ UNCHANGED <<accepted, abandoned, opens, budget>>
    BY <1>1 DEF Dispatch
  <2> HIDE DEF s
  <2>3. s.recv_buffer \in Seq(Byte) /\ Len(s.recv_buffer) \in Nat
    BY <2>1 DEF SessionInv, WellFormed, Session
  <2>4. SessionInv(read_all(s)) /\ read_all(s).self = e
    BY <2>1, <2>3, RecvInv DEF read_all
  <2>5. SessionsOK' /\ NetOK'
    BY <2>1, <2>2, <2>4, CommitInv DEF NetOK
  <2>6. delivered[e] \o s.recv_buffer \in Seq(Byte)
    BY <2>3, ConcatProperties DEF RestOK
  <2>7. RestOK'
    BY <2>2, <2>6 DEF RestOK
  <2> QED
    BY <2>5, <2>7
<1>2. CASE Timeout(e)
  <2>1. PICK t \in sess[e].timers :
          /\ Commit(e, handle_retransmit(sess[e], t), net)
          /\ abandoned' = [abandoned EXCEPT ![e] = @ \/ t.count + 1 >= MAX_RETRANSMIT_COUNT]
          /\ Expires(~NetworkIdle \/ \E u \in sess[e].timers : u.count < t.count)
    BY <1>2 DEF Timeout
  <2> DEFINE r == handle_retransmit(sess[e], t)
  <2>2. SessionInv(r) /\ r.self = e
    <3>1. WellFormed(r) /\ Same(r, sess[e])
      BY <1>0, RetransmitType, KeepsSame
    <3>2. sess[e].state \notin {"CLOSED", "LISTEN"}
      BY <1>0, <2>1 DEF SessionInv, Quiet
    <3> HIDE DEF r
    <3> QED
      BY <1>0, <3>1, <3>2, SameInv DEF Same
  <2>3. SessionsOK' /\ NetOK'
    BY <2>1, <2>2, CommitInv DEF NetOK
  <2>4. budget' \in [Fault -> Nat]
    BY <2>1, SpendType DEF Expires, Fault, RestOK
  <2>5. abandoned' \in [Addr -> BOOLEAN]
    <3>1. ASSUME NEW b \in BOOLEAN PROVE [abandoned EXCEPT ![e] = b] \in [Addr -> BOOLEAN]
      BY DEF RestOK
    <3>2. (abandoned[e] \/ t.count + 1 >= MAX_RETRANSMIT_COUNT) \in BOOLEAN
      BY Zenon
    <3> QED
      BY <2>1, <3>1, <3>2, Zenon
  <2>6. RestOK'
    BY <1>2, <2>4, <2>5 DEF Timeout, RestOK
  <2> QED
    BY <2>3, <2>6
<1>3. CASE MslTimeout(e)
  <2>1. SessionInv(handle_2msl_timeout(sess[e])) /\ handle_2msl_timeout(sess[e]).self = e
    BY <1>0, EraseInv
  <2>2. SessionsOK' /\ NetOK'
    BY <1>3, <2>1, CommitInv DEF MslTimeout, NetOK
  <2>3. budget' \in [Fault -> Nat]
    BY <1>3, SpendType DEF MslTimeout, Expires, Fault, RestOK
  <2>4. RestOK'
    BY <1>3, <2>3 DEF MslTimeout, RestOK
  <2> QED
    BY <2>2, <2>4
<1> QED
  BY <1>1, <1>2, <1>3

\* A datagram is taken from the network and handled.
LEMMA DeliverInv ==
  ASSUME SessionsOK, NetOK, RestOK, NEW e \in Addr, Deliver(e)
  PROVE  SessionsOK' /\ NetOK' /\ RestOK'
<1> DEFINE S == Seq(myu_tcp_packet)
           packet == Head(net[e])
           rest == [net EXCEPT ![e] = Tail(@)]
<1>1. net[e] \in S /\ net[e] # <<>>
  BY DEF Deliver, NetOK
<1>2. packet \in myu_tcp_packet /\ rest \in [Addr -> S]
  <2>1. packet \in myu_tcp_packet /\ Tail(net[e]) \in S
    BY <1>1, HeadTailProperties
  <2> HIDE DEF S, packet
  <2> QED
    BY <2>1 DEF NetOK, S
<1>3. /\ \/ ToSession(e, packet, rest)
         \/ ToNobody(e, packet, rest)
         \/ ToNewSession(e, packet, rest)
         \/ Refuse(e, packet, rest)
      /\ budget' = budget
  BY DEF Deliver
<1>4. SessionInv(sess[e]) /\ sess[e].self = e /\ ISS[e] \subseteq Word
  BY ConnectionAssumption DEF SessionsOK
<1> HIDE DEF packet, rest
<1>5. CASE ToSession(e, packet, rest)
  <2>1. PICK iss \in ISS[e] : Commit(e, input(sess[e], packet, iss), rest)
    BY <1>5 DEF ToSession
  <2>2. /\ SessionInv(input(sess[e], packet, iss))
        /\ input(sess[e], packet, iss).self = e
    BY <1>2, <1>4, InputInv
  <2>3. SessionsOK' /\ NetOK'
    BY <1>2, <2>1, <2>2, CommitInv
  <2>4. RestOK'
    BY <1>3, <1>5 DEF ToSession, RestOK
  <2> QED
    BY <2>3, <2>4
<1>6. CASE ToNobody(e, packet, rest)
  BY <1>2, <1>3, <1>6 DEF ToNobody, SessionsOK, NetOK, RestOK
<1>7. CASE ToNewSession(e, packet, rest)
  <2>1. PICK iss \in ISS[e], initial \in InitialSendSeq :
          Commit(e, input(listen(NewSession(e, packet.src, initial)), packet, iss), rest)
    BY <1>7 DEF ToNewSession
  <2> DEFINE n == NewSession(e, packet.src, initial)
             s == listen(n)
             r == input(s, packet, iss)
  <2>2. packet.src \in Addr /\ initial \in Word /\ iss \in Word
    BY <1>2, <1>4, ConnectionAssumption DEF myu_tcp_packet
  <2>3. SessionInv(n) /\ n.self = e
    BY <2>2, NewSessionInv
  <2> HIDE DEF n
  <2>4. SessionInv(s) /\ s.self = e
    BY <2>3, ListenCallInv
  <2> HIDE DEF s
  <2>5. SessionInv(r) /\ r.self = e
    BY <1>2, <2>2, <2>4, InputInv
  <2>6. Commit(e, r, rest)
    BY <2>1 DEF s, n
  <2> HIDE DEF r
  <2>7. SessionsOK' /\ NetOK'
    BY <1>2, <2>5, <2>6, CommitInv
  <2>8. <<>> \in Seq(Byte)
    OBVIOUS
  <2>9. RestOK'
    BY <1>3, <1>7, <2>8 DEF ToNewSession, RestOK
  <2> QED
    BY <2>7, <2>9
<1>8. CASE Refuse(e, packet, rest)
  <2>1. Reset(e) \in myu_tcp_packet
    BY WordArith DEF Reset, myu_tcp_packet, TcpFlag
  <2>2. packet.src \in Addr
    BY <1>2 DEF myu_tcp_packet
  <2>3. Append(rest[packet.src], Reset(e)) \in S
    BY <1>2, <2>1, <2>2, AppendProperties
  <2>4. NetOK'
    <3> HIDE DEF S
    <3>1. net' = [rest EXCEPT ![packet.src] = Append(rest[packet.src], Reset(e))]
      BY <1>8 DEF Refuse
    <3>2. net' \in [Addr -> S]
      BY <1>2, <2>3, <3>1
    <3> QED
      BY <3>2 DEF NetOK, S
  <2> QED
    BY <1>3, <1>8, <2>4 DEF Refuse, SessionsOK, RestOK
<1> QED
  BY <1>3, <1>5, <1>6, <1>7, <1>8

\* A queue without one of its elements is a queue.
LEMMA WithoutType ==
  ASSUME NEW q \in Seq(myu_tcp_packet), NEW i \in 1..Len(q)
  PROVE  Without(q, i) \in Seq(myu_tcp_packet) /\ q[i] \in myu_tcp_packet
<1>1. /\ i - 1 \in Nat /\ i - 1 <= Len(q) /\ i + 1 \in Nat \ {0}
      /\ \A j \in 1..(i - 1) : q[j] \in myu_tcp_packet
      /\ \A j \in (i + 1)..Len(q) : q[j] \in myu_tcp_packet
  OBVIOUS
<1>2. /\ SubSeq(q, 1, i - 1) \in Seq(myu_tcp_packet)
      /\ SubSeq(q, i + 1, Len(q)) \in Seq(myu_tcp_packet)
  BY <1>1, SubSeqProperties
<1> QED
  BY <1>2, ConcatProperties DEF Without

\* UDP's faults keep datagrams datagrams.
LEMMA UdpInv ==
  ASSUME SessionsOK, NetOK, RestOK, NEW e \in Addr, Udp(e)
  PROVE  SessionsOK' /\ NetOK' /\ RestOK'
<1> DEFINE S == Seq(myu_tcp_packet)
<1>1. net \in [Addr -> S] /\ net[e] \in S
  BY DEF NetOK
<1>2. ASSUME NEW q \in S PROVE [net EXCEPT ![e] = q] \in [Addr -> S]
  <2> HIDE DEF S
  <2> QED
    BY <1>1, <1>2
<1>3. ASSUME NEW i \in 1..Len(net[e])
      PROVE  /\ Without(net[e], i) \in S /\ Append(net[e], net[e][i]) \in S
             /\ Append(Without(net[e], i), net[e][i]) \in S
             /\ [net[e] EXCEPT ![i].valid = FALSE] \in S
  <2>1. Without(net[e], i) \in S /\ net[e][i] \in myu_tcp_packet
    BY <1>1, WithoutType
  <2>2. Append(net[e], net[e][i]) \in S /\ Append(Without(net[e], i), net[e][i]) \in S
    BY <1>1, <2>1, AppendProperties
  <2>3. [net[e][i] EXCEPT !.valid = FALSE] \in myu_tcp_packet
    BY <2>1 DEF myu_tcp_packet
  <2>4. [net[e] EXCEPT ![i].valid = FALSE]
          = [net[e] EXCEPT ![i] = [net[e][i] EXCEPT !.valid = FALSE]]
    OBVIOUS
  <2>5. ASSUME NEW p \in myu_tcp_packet PROVE [net[e] EXCEPT ![i] = p] \in S
    BY <1>1
  <2> QED
    BY <2>1, <2>2, <2>3, <2>4, <2>5
<1>4. NetOK'
  <2>1. \E q \in S : net' = [net EXCEPT ![e] = q]
    <3>1. CASE Lose(e)
      <4>1. PICK i \in 1..Len(net[e]) : net' = [net EXCEPT ![e] = Without(net[e], i)]
        BY <3>1 DEF Lose
      <4> QED
        BY <1>3, <4>1
    <3>2. CASE Corrupt(e)
      <4>1. PICK i \in 1..Len(net[e]) :
              net' = [net EXCEPT ![e] = [net[e] EXCEPT ![i].valid = FALSE]]
        BY <3>2 DEF Corrupt
      <4> QED
        BY <1>3, <4>1
    <3>3. CASE Duplicate(e)
      <4>1. PICK i \in 1..Len(net[e]) :
              net' = [net EXCEPT ![e] = Append(net[e], net[e][i])]
        BY <3>3 DEF Duplicate
      <4> QED
        BY <1>3, <4>1
    <3>4. CASE Reorder(e)
      <4>1. PICK i \in 1..(Len(net[e]) - 1) :
              net' = [net EXCEPT ![e] = Append(Without(net[e], i), net[e][i])]
        BY <3>4 DEF Reorder
      <4>2. i \in 1..Len(net[e])
        BY <1>1, LenProperties
      <4> QED
        BY <1>3, <4>1, <4>2
    <3> QED
      BY <3>1, <3>2, <3>3, <3>4 DEF Udp
  <2> QED
    BY <1>2, <2>1 DEF NetOK
<1>5. SessionsOK'
  BY DEF Udp, Lose, Corrupt, Duplicate, Reorder, SessionsOK
<1>6. RestOK'
  <2>1. \E f \in Fault : Spend(f)
    BY DEF Udp, Lose, Corrupt, Duplicate, Reorder, Fault
  <2>2. budget' \in [Fault -> Nat]
    BY <2>1, SpendType
  <2> QED
    BY <2>2 DEF Udp, Lose, Corrupt, Duplicate, Reorder, RestOK
<1> QED
  BY <1>4, <1>5, <1>6

-----------------------------------------------------------------------------
\* Every step preserves the invariant.
LEMMA StepInv == IInv /\ [Next]_vars => IInv'
<1> SUFFICES ASSUME SessionsOK, NetOK, RestOK, [Next]_vars
             PROVE  SessionsOK' /\ NetOK' /\ RestOK'
  <2>1. (SessionsOK /\ NetOK /\ RestOK)' => IInv'
    BY DEF IInv, TypeOK, SessionsOK, NetOK, RestOK, SessionInv, WellFormed
  <2> QED
    BY <2>1, Parts
<1>1. CASE Next
  BY <1>1, ApplicationInv, CallbackInv, DeliverInv, UdpInv DEF Next, EventLoop
<1>2. CASE UNCHANGED vars
  BY <1>2 DEF vars, SessionsOK, NetOK, RestOK
<1> QED
  BY <1>1, <1>2

\* In every reachable state the types hold, and no buffer holds more than its
\* RingQueue: push_batch is only called with what fits.
THEOREM TypeCorrect == Spec => []TypeOK
<1>1. IInv => TypeOK
  BY DEF IInv
<1> QED
  BY <1>1, InitInv, StepInv, PTL DEF Spec

\* Of an application that connects closed sessions only the counter of duplicate
\* acknowledgements never exceeds 1, so the branch of _handle_ack that retransmits
\* after three duplicates is dead code, for every network and every sequence number.
\* README.md:11 and tcb.cpp:168-169 describe a branch that runs.
THEOREM NoFastRetransmit ==
  ASSUME ConnectsClosed PROVE Spec => []FastRetransmitUnreachable
<1>1. IInv => FastRetransmitUnreachable
  <2>1. ASSUME IInv, NEW e \in Addr PROVE sess[e].dup_ack_count <= 1
    <3>1. sess[e].dup_ack_count \in {0, 1}
      BY <2>1 DEF IInv, SessionsOK, SessionInv, DupInv, DupCounts
    <3> QED
      BY <3>1
  <2> QED
    BY <2>1 DEF FastRetransmitUnreachable
<1> QED
  BY <1>1, InitInv, StepInv, PTL DEF Spec

\* ooo_map_ is empty in every reachable state, for every network and every
\* sequence number: the branch of _handle_incoming_packet that keeps data ahead
\* of a gap, and the loop that drains it, are dead code.
THEOREM NoReassembly == Spec => []ReassemblyUnreachable
<1>1. IInv => ReassemblyUnreachable
  BY DEF IInv, ReassemblyUnreachable, SessionInv
<1> QED
  BY <1>1, InitInv, StepInv, PTL DEF Spec

\* No timer runs in a session that is closed or listening, so none of its own
\* timers calls it back.
THEOREM QuietWhenClosed == Spec => []ClosedIsQuiet
<1>1. IInv => ClosedIsQuiet
  BY DEF IInv, ClosedIsQuiet, SessionInv, Quiet
<1> QED
  BY <1>1, InitInv, StepInv, PTL DEF Spec

-----------------------------------------------------------------------------
(* No wake-up is lost.                                                     *)

\* It needs more than NoLostWakeup says (see Awake), for sessions whose
\* application reads when it is woken.
WakeInv == \A e \in Readers : Awake(sess[e])

\* What a handler makes of the session is what the step makes of it.
LEMMA CommitAwake ==
  ASSUME SessionsOK, WakeInv, NEW e \in Addr, NEW s, SessionInv(s),
         e \in Readers => Awake(s), NEW rest, Commit(e, s, rest)
  PROVE  WakeInv'
<1> DEFINE q == [s EXCEPT !.out = NothingSent]
<1>1. sess' = [sess EXCEPT ![e] = q]
  BY DEF Commit
<1>2. e \in Readers => Awake(q)
  BY SentSame DEF Frame, Awake
<1> HIDE DEF q
<1> QED
  BY <1>1, <1>2, ConnectionAssumption DEF WakeInv, SessionsOK

\* Nothing has been received at the start.
LEMMA WakeInit == Init => WakeInv
BY ConnectionAssumption, NewSessionAwake DEF Init, NoSession, NewSession, WakeInv, Awake

\* One step per action; those of the network touch no session.
LEMMA WakeStep == IInv /\ WakeInv /\ [Next]_vars => WakeInv'
<1> SUFFICES ASSUME SessionsOK, NetOK, RestOK, WakeInv, [Next]_vars PROVE WakeInv'
  BY Parts
<1>1. CASE UNCHANGED vars
  BY <1>1 DEF vars, WakeInv
<1>2. ASSUME NEW e \in Addr, Application(e) \/ EventLoop(e) \/ Udp(e)
      PROVE  WakeInv'
  <2> DEFINE s == sess[e]
  <2>0. /\ SessionInv(s) /\ s.self = e /\ HasFields(s) /\ ISS[e] \subseteq Word
        /\ e \in Readers => Awake(s)
    BY ConnectionAssumption, SessionHasFields DEF SessionsOK, WakeInv
  <2>1. CASE Connect(e)
    <3>1. PICK iss \in ISS[e] : Commit(e, connect(s, iss), net)
      BY <2>1 DEF Connect
    <3>2. SessionInv(connect(s, iss)) /\ (e \in Readers => Awake(connect(s, iss)))
      BY <2>0, <2>1, ConnectInv, OthersAwake DEF Connect
    <3> QED
      BY <3>1, <3>2, CommitAwake
  <2>2. CASE Send(e)
    <3> DEFINE Data(n) == [i \in 1..n |-> accepted[e] + i]
    <3>1. PICK n \in ChunkSizes : Commit(e, send(s, Data(n)), net)
      BY <2>2 DEF Send
    <3>2. Data(n) \in Seq(Byte)
      <4>1. n \in Nat /\ accepted[e] \in Nat
        BY ConnectionAssumption DEF RestOK
      <4> QED
        BY <4>1 DEF Byte
    <3> HIDE DEF Data
    <3>3. SessionInv(send(s, Data(n))) /\ (e \in Readers => Awake(send(s, Data(n))))
      BY <2>0, <3>2, SendInv, OthersAwake
    <3> QED
      BY <3>1, <3>3, CommitAwake
  <2>3. CASE Recv(e)
    <3>1. PICK n \in RecvSizes : Commit(e, recv(s, n), net)
      BY <2>3 DEF Recv
    <3>2. n \in Nat
      BY ConnectionAssumption
    <3>3. SessionInv(recv(s, n)) /\ (e \in Readers => Awake(recv(s, n)))
      BY <2>0, <3>2, RecvInv, RecvAwake
    <3> QED
      BY <3>1, <3>3, CommitAwake
  <2>4. CASE Close(e)
    <3>1. Commit(e, close(s), net)
      BY <2>4 DEF Close
    <3>2. SessionInv(close(s)) /\ (e \in Readers => Awake(close(s)))
      BY <2>0, CloseInv, OthersAwake
    <3> QED
      BY <3>1, <3>2, CommitAwake
  <2>5. CASE Dispatch(e)
    <3> DEFINE q == [s EXCEPT !.is_in_ready_queue = FALSE]
    <3>1. SessionInv(q)
      <4>1. /\ WellFormed(q) /\ Same(q, s)
            /\ q.timers = s.timers /\ q.msl_timer = s.msl_timer
        BY <2>0, FieldType DEF SessionInv
      <4> HIDE DEF q
      <4> QED
        BY <2>0, <4>1, AsideInv
    <3>2. \/ e \in Readers /\ Commit(e, read_all(q), net)
          \/ e \notin Readers /\ Commit(e, q, net)
      BY <2>5 DEF Dispatch
    <3>3. e \in Readers => Awake(read_all(q))
      BY <2>0, ReadAllAwake
    <3> HIDE DEF q
    <3>4. SessionInv(read_all(q))
      <4>1. Len(q.recv_buffer) \in Nat
        BY <3>1 DEF SessionInv, WellFormed, Session
      <4> QED
        BY <3>1, <4>1, RecvInv DEF read_all
    <3> QED
      BY <3>1, <3>2, <3>3, <3>4, CommitAwake
  <2>6. CASE Timeout(e)
    <3>1. PICK t \in s.timers : Commit(e, handle_retransmit(s, t), net)
      BY <2>6 DEF Timeout
    <3> DEFINE r == handle_retransmit(s, t)
    <3>2. WellFormed(r) /\ Same(r, s) /\ s.state \notin {"CLOSED", "LISTEN"}
      BY <2>0, <3>1, RetransmitType, KeepsSame DEF SessionInv, Quiet
    <3>3. e \in Readers => Awake(r)
      BY <2>0, OthersAwake
    <3> HIDE DEF r
    <3>4. SessionInv(r)
      BY <2>0, <3>2, SameInv
    <3> QED
      BY <3>1, <3>3, <3>4, CommitAwake DEF r
  <2>7. CASE MslTimeout(e)
    <3>1. Commit(e, handle_2msl_timeout(s), net)
      BY <2>7 DEF MslTimeout
    <3>2. /\ SessionInv(handle_2msl_timeout(s))
          /\ e \in Readers => Awake(handle_2msl_timeout(s))
      BY <2>0, EraseInv, OthersAwake
    <3> QED
      BY <3>1, <3>2, CommitAwake
  <2>8. CASE Deliver(e)
    <3> DEFINE packet == Head(net[e])
               rest == [net EXCEPT ![e] = Tail(@)]
    <3>1. packet \in myu_tcp_packet
      <4>1. net[e] \in Seq(myu_tcp_packet) /\ net[e] # <<>>
        BY <2>8 DEF Deliver, NetOK
      <4> QED
        BY <4>1, HeadTailProperties
    <3>2. \/ ToSession(e, packet, rest)
          \/ ToNewSession(e, packet, rest)
          \/ sess' = sess
      BY <2>8 DEF Deliver, ToNobody, Refuse
    <3> HIDE DEF packet, rest
    <3>3. CASE ToSession(e, packet, rest)
      <4>1. PICK iss \in ISS[e] : Commit(e, input(s, packet, iss), rest)
        BY <3>3 DEF ToSession
      <4>2. /\ SessionInv(input(s, packet, iss))
            /\ e \in Readers => Awake(input(s, packet, iss))
        BY <2>0, <3>1, InputInv, InputAwake
      <4> QED
        BY <4>1, <4>2, CommitAwake
    <3>4. CASE ToNewSession(e, packet, rest)
      <4>1. PICK iss \in ISS[e], initial \in InitialSendSeq :
              Commit(e, input(listen(NewSession(e, packet.src, initial)), packet, iss), rest)
        BY <3>4 DEF ToNewSession
      <4> DEFINE n == NewSession(e, packet.src, initial)
                 l == listen(n)
      <4>2. packet.src \in Addr /\ initial \in Word /\ iss \in Word
        BY <2>0, <3>1, ConnectionAssumption DEF myu_tcp_packet
      <4>3. SessionInv(n) /\ HasFields(n) /\ Awake(n)
        BY <4>2, NewSessionInv, NewSessionAwake, SessionHasFields
      <4> HIDE DEF n
      <4>4. SessionInv(l) /\ Awake(l)
        BY <4>3, ListenCallInv, OthersAwake
      <4> HIDE DEF l
      <4>5. SessionInv(input(l, packet, iss)) /\ Awake(input(l, packet, iss))
        BY <3>1, <4>2, <4>4, InputInv, InputAwake
      <4> QED
        BY <4>1, <4>5, CommitAwake DEF l, n
    <3>5. CASE sess' = sess
      BY <3>5 DEF WakeInv
    <3> QED
      BY <3>2, <3>3, <3>4, <3>5
  <2>9. CASE Udp(e)
    BY <2>9 DEF Udp, Lose, Corrupt, Duplicate, Reorder, WakeInv
  <2> QED
    BY <1>2, <2>1, <2>2, <2>3, <2>4, <2>5, <2>6, <2>7, <2>8, <2>9
    DEF Application, EventLoop
<1> QED
  BY <1>1, <1>2 DEF Next

\* No wake-up is lost, for every network, every size of buffers and every way in
\* which both applications call: on_data_cb_ is called whenever data or the end
\* of the stream has been taken, and what the application leaves unread keeps
\* its place in the queue.
THEOREM WakeupsArrive == Spec => []NoLostWakeup
<1>1. WakeInv => NoLostWakeup
  BY DEF WakeInv, NoLostWakeup, Awake
<1> QED
  BY <1>1, InitInv, StepInv, WakeInit, WakeStep, PTL DEF Spec

-----------------------------------------------------------------------------
(* What a step makes of the sessions and of the datagrams.                 *)

\* The datagrams in n that come from e keep to the pledge b.
NetOf(n, e, b) ==
  \A d \in Addr : \A x \in 1..Len(n[d]) : n[d][x].src = e => PacketOK(b, d, n[d][x])

\* Every datagram in rest is in the network.
NetPart(rest) ==
  \A d \in Addr : \A x \in 1..Len(rest[d]) : \E y \in 1..Len(net[d]) : rest[d][x] = net[d][y]

\* The session of e becomes r, and what it has sent joins datagrams that were in
\* the network.
Commits(e, r) ==
  /\ SessionInv(r) /\ r.self = e
  /\ \E rest \in [Addr -> Seq(myu_tcp_packet)] : NetPart(rest) /\ Commit(e, r, rest)

\* What this means for the pledges.
Committed(e, r) ==
  /\ sess' = [sess EXCEPT ![e] = [r EXCEPT !.out = NothingSent]]
  /\ \A b : Mail(r, b) /\ NetOf(net, e, b) => NetOf(net', e, b)
  /\ \A d \in Addr \ {e} : \A b : NetOf(net, d, b) => NetOf(net', d, b)

\* What of a session a commit leaves as it is.
LEMMA OutKept ==
  ASSUME NEW r, WellFormed(r)
  PROVE  LET q == [r EXCEPT !.out = NothingSent]
         IN  /\ SameNumbers(q, r) /\ q.recv_next = r.recv_next /\ q.remote = r.remote
             /\ q.recv_buffer = r.recv_buffer /\ q.self = r.self
             /\ \A b : (Holds(r, b) <=> Holds(q, b)) /\ (Marks(r, b) <=> Marks(q, b))
             /\ \A b : Mail(r, b) => Mail(q, b)
<1> DEFINE q == [r EXCEPT !.out = NothingSent]
<1>1. /\ SameNumbers(q, r) /\ q.recv_next = r.recv_next /\ q.remote = r.remote
      /\ q.recv_buffer = r.recv_buffer /\ q.self = r.self
      /\ q.timers = r.timers /\ q.out = NothingSent
  BY DEF WellFormed, Session, SameNumbers
<1> HIDE DEF q
<1>2. \A b : (Holds(r, b) <=> Holds(q, b)) /\ Top(q, b) = Top(r, b)
             /\ (Streaming(q) <=> Streaming(r))
  BY <1>1, SameHolds
<1>3. \A b : Marks(r, b) <=> Marks(q, b)
  BY <1>1, <1>2 DEF Marks, SameNumbers, Crossing
<1>4. \A b : Mail(r, b) => Mail(q, b)
  BY <1>1 DEF Mail, NothingSent
<1> QED
  BY <1>1, <1>2, <1>3, <1>4 DEF q

\* A commit, in these terms.
LEMMA CommitSent ==
  ASSUME NEW e \in Addr, NEW r, Commits(e, r), NEW a, Mail(r, a)
  PROVE  Committed(e, r)
<1>0. PICK rest \in [Addr -> Seq(myu_tcp_packet)] : NetPart(rest) /\ Commit(e, r, rest)
  BY DEF Commits
<1>1. /\ sess' = [sess EXCEPT ![e] = [r EXCEPT !.out = NothingSent]]
      /\ net' = [d \in Addr |-> rest[d] \o r.out[d]]
  BY <1>0 DEF Commit
<1>2. ASSUME NEW d \in Addr, NEW x \in 1..Len(net'[d])
      PROVE  \/ \E y \in 1..Len(net[d]) : net'[d][x] = net[d][y]
             \/ \E y \in 1..Len(r.out[d]) : net'[d][x] = r.out[d][y]
  <2>1. rest[d] \in Seq(myu_tcp_packet) /\ r.out[d] \in Seq(myu_tcp_packet)
    BY DEF Commits, SessionInv, WellFormed, Session
  <2>2. net'[d] = rest[d] \o r.out[d]
    BY <1>1
  <2>3. /\ Len(net'[d]) = Len(rest[d]) + Len(r.out[d])
        /\ net'[d][x] = IF x <= Len(rest[d]) THEN rest[d][x] ELSE r.out[d][x - Len(rest[d])]
    BY <1>2, <2>1, <2>2, ConcatProperties
  <2>4. Len(rest[d]) \in Nat /\ Len(r.out[d]) \in Nat
    BY <2>1, LenProperties
  <2>5. CASE x <= Len(rest[d])
    <3>1. x \in 1..Len(rest[d])
      BY <2>3, <2>4, <2>5
    <3> QED
      BY <1>0, <2>3, <2>5, <3>1 DEF NetPart
  <2>6. CASE ~(x <= Len(rest[d]))
    <3>1. x - Len(rest[d]) \in 1..Len(r.out[d])
      BY <2>3, <2>4, <2>6
    <3> QED
      BY <2>3, <2>6, <3>1
  <2> QED
    BY <2>5, <2>6
<1>3. ASSUME NEW b, Mail(r, b), NetOf(net, e, b)
      PROVE  NetOf(net', e, b)
  <2>1. ASSUME NEW d \in Addr, NEW x \in 1..Len(net'[d]), net'[d][x].src = e
        PROVE  PacketOK(b, d, net'[d][x])
    <3>1. CASE \E y \in 1..Len(net[d]) : net'[d][x] = net[d][y]
      BY <1>3, <2>1, <3>1 DEF NetOf
    <3>2. CASE \E y \in 1..Len(r.out[d]) : net'[d][x] = r.out[d][y]
      BY <1>3, <2>1, <3>2 DEF Mail, Commits
    <3> QED
      BY <1>2, <3>1, <3>2
  <2> QED
    BY <2>1 DEF NetOf
<1>4. ASSUME NEW f \in Addr \ {e}, NEW b, NetOf(net, f, b)
      PROVE  NetOf(net', f, b)
  <2>1. ASSUME NEW d \in Addr, NEW x \in 1..Len(net'[d]), net'[d][x].src = f
        PROVE  PacketOK(b, d, net'[d][x])
    <3>1. CASE \E y \in 1..Len(net[d]) : net'[d][x] = net[d][y]
      BY <1>4, <2>1, <3>1 DEF NetOf
    <3>2. CASE \E y \in 1..Len(r.out[d]) : net'[d][x] = r.out[d][y]
      BY <2>1, <3>2 DEF Mail, Commits
    <3> QED
      BY <1>2, <3>1, <3>2
  <2> QED
    BY <2>1 DEF NetOf
<1> QED
  BY <1>1, <1>3, <1>4 DEF Committed

\* The bytes that send() is called with.
Data(e, n) == [i \in 1..n |-> accepted[e] + i]

\* They are bytes, in their positions.
LEMMA DataType ==
  ASSUME RestOK, NEW e \in Addr, NEW n \in ChunkSizes
  PROVE  /\ Data(e, n) \in Seq(Byte) /\ Data(e, n) # <<>> /\ Len(Data(e, n)) = n
         /\ \A x \in 1..Len(Data(e, n)) : Data(e, n)[x] = accepted[e] + x
         /\ n \in Nat \ {0} /\ accepted[e] \in Nat
<1>1. n \in Nat \ {0} /\ accepted[e] \in Nat
  BY ConnectionAssumption DEF RestOK
<1>2. \A i \in 1..n : accepted[e] + i \in Byte
  BY <1>1 DEF Byte
<1>3. Data(e, n) \in Seq(Byte) /\ Len(Data(e, n)) = n
  BY <1>1, <1>2 DEF Data
<1>4. Data(e, n) # <<>>
  BY <1>1, <1>3
<1> QED
  BY <1>1, <1>3, <1>4 DEF Data

\* What a call of the application, the idle handle or a timer makes of the
\* session of e.
Called(e, r) ==
  LET s == sess[e]
      q == [s EXCEPT !.is_in_ready_queue = FALSE]
  IN  \/ \E n \in ChunkSizes :
           /\ accepted[e] + n <= MaxBytes[e] /\ r = send(s, Data(e, n))
           /\ accepted' = [accepted EXCEPT ![e] = @ + Len(Writable(s, Data(e, n)))]
           /\ delivered' = delivered
      \/ \E n \in Nat :
           /\ r = recv(s, n) \/ r = recv(q, n)
           /\ delivered' = [delivered EXCEPT ![e] = @ \o Readable(s, n)]
           /\ accepted' = accepted
      \/ /\ \/ r = close(s) \/ r = q
            \/ \E t \in s.timers :
                 /\ r = handle_retransmit(s, t)
                 /\ t.count + 1 >= MAX_RETRANSMIT_COUNT => abandoned'[e]
         /\ accepted' = accepted /\ delivered' = delivered

\* A call writes at most as much as there is room for.
LEMMA CallWrites ==
  ASSUME SessionsOK, RestOK, NEW e \in Addr, NEW r, Called(e, r)
  PROVE  /\ \E n \in 0..BufferCapacity : accepted' = [accepted EXCEPT ![e] = @ + n]
         /\ accepted[e] <= accepted'[e] /\ accepted'[e] \in Nat
<1> DEFINE s == sess[e]
<1>1. accepted \in [Addr -> Nat] /\ SessionInv(s) /\ BufferCapacity \in Nat
  BY SessionAssumption DEF RestOK, SessionsOK
<1>2. \E n \in 0..BufferCapacity : accepted' = [accepted EXCEPT ![e] = @ + n]
  <2>1. CASE accepted' = accepted
    <3>1. accepted' = [accepted EXCEPT ![e] = @ + 0] /\ 0 \in 0..BufferCapacity
      BY <1>1, <2>1
    <3> QED
      BY <3>1
  <2>2. ASSUME NEW n \in ChunkSizes,
               accepted' = [accepted EXCEPT ![e] = @ + Len(Writable(s, Data(e, n)))]
        PROVE  \E k \in 0..BufferCapacity : accepted' = [accepted EXCEPT ![e] = @ + k]
    <3>1. Data(e, n) \in Seq(Byte)
      BY DataType
    <3> DEFINE w == Writable(s, Data(e, n))
    <3>2. /\ w \in Seq(Byte) /\ s.send_buffer \in Seq(Byte)
          /\ Len(s.send_buffer \o w) <= BufferCapacity
      BY <1>1, <3>1, WritableType DEF SessionInv, WellFormed, Session
    <3> HIDE DEF w
    <3>3. Len(s.send_buffer \o w) = Len(s.send_buffer) + Len(w)
      BY <3>2, ConcatProperties
    <3>4. Len(w) \in Nat /\ Len(s.send_buffer) \in Nat
      BY <3>2, LenProperties
    <3> DEFINE l == Len(w)
               k == Len(s.send_buffer)
    <3>5. l \in Nat /\ k \in Nat /\ k + l <= BufferCapacity
      BY <3>2, <3>3, <3>4
    <3> HIDE DEF l, k
    <3>6. l \in 0..BufferCapacity
      BY <1>1, <3>5
    <3> QED
      BY <2>2, <3>6 DEF l, w
  <2> QED
    BY <2>1, <2>2 DEF Called
<1>3. PICK n \in 0..BufferCapacity : accepted' = [accepted EXCEPT ![e] = @ + n]
  BY <1>2
<1>4. accepted'[e] = accepted[e] + n /\ accepted[e] \in Nat /\ n \in Nat
  BY <1>1, <1>3
<1>5. \A x, y, z \in Nat : x = y + z => y <= x
  OBVIOUS
<1>6. accepted'[e] \in Nat
  BY <1>4
<1> QED
  BY <1>2, <1>4, <1>5, <1>6

\* A session that leaves the ready queue is otherwise the same.
LEMMA QueueAside ==
  ASSUME NEW s, SessionInv(s)
  PROVE  LET q == [s EXCEPT !.is_in_ready_queue = FALSE]
         IN  /\ SessionInv(q) /\ SameNumbers(q, s) /\ q.timers = s.timers /\ q.out = s.out
             /\ q.self = s.self /\ q.remote = s.remote /\ q.recv_next = s.recv_next
             /\ q.recv_buffer = s.recv_buffer
<1> DEFINE q == [s EXCEPT !.is_in_ready_queue = FALSE]
<1>1. s \in Session /\ WellFormed(s)
  BY DEF SessionInv, WellFormed
<1>2. /\ WellFormed(q) /\ Same(q, s)
      /\ q.timers = s.timers /\ q.msl_timer = s.msl_timer
  BY <1>1, FieldType
<1>3. /\ SameNumbers(q, s) /\ q.out = s.out
      /\ q.self = s.self /\ q.remote = s.remote /\ q.recv_next = s.recv_next
      /\ q.recv_buffer = s.recv_buffer
  BY <1>1 DEF Session, SameNumbers
<1> HIDE DEF q
<1>4. SessionInv(q)
  BY <1>1, <1>2, AsideInv
<1> QED
  BY <1>2, <1>3, <1>4 DEF q

\* The calls of the application, the idle handle and the timers.
Calls(e) == Send(e) \/ Recv(e) \/ Close(e) \/ Dispatch(e) \/ Timeout(e)

\* Each of them commits a session as Called describes it.
LEMMA CallsCommit ==
  ASSUME SessionsOK, NetOK, RestOK, NEW e \in Addr, Calls(e)
  PROVE  \E r : /\ Called(e, r) /\ Commit(e, r, net) /\ SessionInv(r) /\ r.self = e
                /\ sess[e].alive \/ sess[e].state # "CLOSED"
<1> DEFINE s == sess[e]
           q == [s EXCEPT !.is_in_ready_queue = FALSE]
<1>0. SessionInv(s) /\ s.self = e /\ WellFormed(s)
  BY DEF SessionsOK, SessionInv
<1>1. CASE Send(e)
  <2>1. PICK n \in ChunkSizes :
          /\ accepted[e] + n <= MaxBytes[e] /\ Commit(e, send(s, Data(e, n)), net)
          /\ accepted' = [accepted EXCEPT ![e] = @ + Len(Writable(s, Data(e, n)))]
    BY <1>1 DEF Send, Data
  <2>2. SessionInv(send(s, Data(e, n))) /\ send(s, Data(e, n)).self = e
    BY <1>0, DataType, SendInv
  <2>3. delivered' = delivered /\ s.alive
    BY <1>1 DEF Send
  <2>4. Called(e, send(s, Data(e, n)))
    BY <2>1, <2>3 DEF Called
  <2> QED
    BY <2>1, <2>2, <2>3, <2>4
<1>2. CASE Recv(e)
  <2>1. PICK n \in RecvSizes :
          /\ delivered' = [delivered EXCEPT ![e] = @ \o Readable(s, n)]
          /\ Commit(e, recv(s, n), net)
    BY <1>2 DEF Recv
  <2>2. n \in Nat /\ accepted' = accepted /\ s.alive
    BY <1>2, ConnectionAssumption DEF Recv
  <2>3. SessionInv(recv(s, n)) /\ recv(s, n).self = e
    BY <1>0, <2>2, RecvInv
  <2>4. Called(e, recv(s, n))
    BY <2>1, <2>2 DEF Called
  <2> QED
    BY <2>1, <2>2, <2>3, <2>4
<1>3. CASE Close(e)
  <2>1. SessionInv(close(s)) /\ close(s).self = e
    BY <1>0, CloseInv
  <2>2. Called(e, close(s)) /\ s.alive /\ Commit(e, close(s), net)
    BY <1>3 DEF Close, Called
  <2> QED
    BY <2>1, <2>2
<1>4. CASE Dispatch(e)
  <2>0. s.recv_buffer \in Seq(Byte)
    BY <1>0 DEF WellFormed, Session
  <2>1. SessionInv(q) /\ q.self = e /\ q.recv_buffer = s.recv_buffer
    BY <1>0, QueueAside
  <2>2. /\ \/ Commit(e, read_all(q), net) /\ delivered' = [delivered EXCEPT ![e] = @ \o q.recv_buffer]
           \/ Commit(e, q, net) /\ delivered' = delivered
        /\ accepted' = accepted /\ s.alive
    BY <1>4 DEF Dispatch
  <2> DEFINE n == Len(s.recv_buffer)
  <2>3. n \in Nat /\ Readable(s, n) = s.recv_buffer
    BY <1>0, <2>0, ReadPart, LenProperties
  <2>4. read_all(q) = recv(q, n)
    BY <2>1 DEF read_all
  <2>5. SessionInv(recv(q, n)) /\ recv(q, n).self = e
    BY <2>1, <2>3, RecvInv
  <2>6. CASE Commit(e, read_all(q), net) /\ delivered' = [delivered EXCEPT ![e] = @ \o q.recv_buffer]
    <3>1. Called(e, recv(q, n))
      BY <2>1, <2>2, <2>3, <2>6 DEF Called
    <3> QED
      BY <2>2, <2>4, <2>5, <2>6, <3>1
  <2>7. CASE Commit(e, q, net) /\ delivered' = delivered
    <3>1. Called(e, q)
      BY <2>2, <2>7 DEF Called
    <3> QED
      BY <2>1, <2>2, <2>7, <3>1
  <2> QED
    BY <2>2, <2>6, <2>7
<1>5. CASE Timeout(e)
  <2>1. PICK t \in s.timers :
          /\ Commit(e, handle_retransmit(s, t), net)
          /\ abandoned' = [abandoned EXCEPT ![e] = @ \/ t.count + 1 >= MAX_RETRANSMIT_COUNT]
    BY <1>5 DEF Timeout
  <2> DEFINE r == handle_retransmit(s, t)
  <2>2. SessionInv(r) /\ r.self = e
    <3>1. WellFormed(r) /\ Same(r, s)
      BY <1>0, RetransmitType, KeepsSame
    <3>2. s.state \notin {"CLOSED", "LISTEN"}
      BY <1>0, <2>1 DEF SessionInv, Quiet
    <3> HIDE DEF r
    <3> QED
      BY <1>0, <3>1, <3>2, SameInv DEF Same
  <2>3. /\ accepted' = accepted /\ delivered' = delivered
        /\ t.count + 1 >= MAX_RETRANSMIT_COUNT => abandoned'[e]
    BY <1>5, <2>1 DEF Timeout, RestOK
  <2>4. Called(e, r)
    BY <2>1, <2>3 DEF Called
  <2> HIDE DEF r
  <2>5. s.state # "CLOSED"
    BY <1>0, <2>1 DEF SessionInv, Quiet
  <2> QED
    BY <2>1, <2>2, <2>4, <2>5 DEF r
<1> QED
  BY <1>1, <1>2, <1>3, <1>4, <1>5 DEF Calls

-----------------------------------------------------------------------------
(* How each step treats the pledges.                                       *)

\* close() leaves ESTABLISHED and CLOSE_WAIT, and gives up a handshake.
LEMMA CloseState ==
  ASSUME NEW s, SessionInv(s)
  PROVE  /\ s.state \in {"ESTABLISHED", "CLOSE_WAIT"} =>
              close(s).state \in {"FIN_WAIT_1", "LAST_ACK"}
         /\ s.state \in {"SYN_SENT", "SYN_RECEIVED"} => close(s).state = "CLOSED"
<1>1. HasFields(s)
  BY SessionHasFields
<1>2. CASE s.state = "ESTABLISHED"
  <2> DEFINE f == [stop_all_timers(handle_try_send(s)) EXCEPT !.state = "FIN_WAIT_1"]
  <2>1. HasFields(handle_try_send(s))
    BY <1>1, TrySendFrame DEF Frame
  <2>2. HasFields(f) /\ f.state = "FIN_WAIT_1"
    BY <2>1 DEF stop_all_timers, HasFields, Watched
  <2> HIDE DEF f
  <2>3. HasFields(send_control_packet(f, {"FIN"})) /\ send_control_packet(f, {"FIN"}).state = "FIN_WAIT_1"
    BY <2>2, ControlFrame DEF Frame
  <2>4. close(s) = [send_control_packet(f, {"FIN"}) EXCEPT !.user_want_to_close = TRUE]
    BY <1>2 DEF close, f
  <2>5. close(s).state = "FIN_WAIT_1"
    BY <2>3, <2>4 DEF HasFields, Watched
  <2> QED
    BY <1>2, <2>5
<1>3. CASE s.state = "CLOSE_WAIT"
  <2> DEFINE f == [s EXCEPT !.state = "LAST_ACK"]
  <2>1. HasFields(f) /\ f.state = "LAST_ACK"
    BY <1>1 DEF HasFields, Watched
  <2> HIDE DEF f
  <2>2. /\ HasFields(send_control_packet(f, {"FIN", "ACK"}))
        /\ send_control_packet(f, {"FIN", "ACK"}).state = "LAST_ACK"
    BY <2>1, ControlFrame DEF Frame
  <2>3. close(s) = [send_control_packet(f, {"FIN", "ACK"}) EXCEPT !.user_want_to_close = TRUE]
    BY <1>3 DEF close, f
  <2>4. close(s).state = "LAST_ACK"
    BY <2>2, <2>3 DEF HasFields, Watched
  <2> QED
    BY <1>3, <2>4
<1>4. CASE s.state \in {"SYN_SENT", "SYN_RECEIVED"}
  <2> DEFINE f == send_control_packet(s, {"RST"})
  <2>1. HasFields(f)
    BY <1>1, ControlFrame DEF Frame
  <2>2. close(s) = [stop_all_timers(f) EXCEPT !.state = "CLOSED"]
    BY <1>4 DEF close
  <2> HIDE DEF f
  <2>3. close(s).state = "CLOSED"
    BY <2>1, <2>2 DEF stop_all_timers, HasFields, Watched
  <2> QED
    BY <1>4, <2>3
<1> QED
  BY <1>2, <1>3, <1>4

\* Joining sequences is associative.
LEMMA ConcatAssoc ==
  ASSUME NEW x \in Seq(Byte), NEW y \in Seq(Byte), NEW z \in Seq(Byte)
  PROVE  (x \o y) \o z = x \o (y \o z)
OBVIOUS

\* A pledge that allows everything.
Anything(open) ==
  [any |-> TRUE, i |-> 0, A |-> 0, m |-> 0, I |-> {}, g |-> 0, h |-> 0, ends |-> Word,
   syn |-> Word, joins |-> Word, open |-> open, acks |-> Word, fin |-> TRUE, rst |-> TRUE]

\* It is a pledge.
LEMMA AnythingType ==
  ASSUME NEW e \in Addr, NEW O
  PROVE  Pledge(Anything(O)) /\ Anything(O).any = TRUE /\ Anything(O).fin = TRUE
         /\ Anything(O).rst = TRUE /\ Anything(O).open = O
         /\ Anything(O).syn = Word /\ Anything(O).joins = Word /\ Anything(O).acks = Word
<1>1. 0 \in Word /\ 0 + 2 < SeqMod
  BY SessionAssumption DEF Word
<1> QED
  BY <1>1 DEF Anything, Pledge

\* A call carries a pledge on; what the application has received stays the same.
LEMMA CalledCarries ==
  ASSUME SessionsOK, RestOK, NEW e \in Addr, NEW r, Called(e, r), sess[e].alive,
         NEW b, Pledge(b), Holds(sess[e], b), b.any \/ b.A = accepted[e],
         NEW c, Pledge(c), c.any = b.any, c.i = b.i, c.m = b.m,
         c.any \/ (c.A = accepted'[e] /\ c.m = MaxBytes[e]),
         r.state \notin Opening \cup {"ESTABLISHED"} => c.fin,
         sess[e].state \in {"SYN_SENT", "SYN_RECEIVED"} /\ r.state = "CLOSED" => c.rst
  PROVE  /\ Accounts(r, sess[e], c, {sess[e].recv_next}) /\ Steady(r, sess[e])
         /\ Closes(r, sess[e], c)
         /\ delivered'[e] \o r.recv_buffer = Received(e)
<1> DEFINE s == sess[e]
           q == [s EXCEPT !.is_in_ready_queue = FALSE]
<1>0. SessionInv(s) /\ WellFormed(s) /\ s.alive /\ s \in Session
  BY DEF SessionsOK, SessionInv, WellFormed
<1>1. /\ SessionInv(q) /\ SameNumbers(q, s) /\ q.timers = s.timers /\ q.out = s.out
      /\ q.self = s.self /\ q.remote = s.remote /\ q.recv_next = s.recv_next
      /\ q.recv_buffer = s.recv_buffer
  BY <1>0, QueueAside
<1>2. delivered[e] \in Seq(Byte) /\ s.recv_buffer \in Seq(Byte) /\ accepted[e] \in Nat
  BY <1>0 DEF RestOK, Session
<1> HIDE DEF q
<1>3. CASE \E n \in ChunkSizes :
           /\ accepted[e] + n <= MaxBytes[e] /\ r = send(s, Data(e, n))
           /\ accepted' = [accepted EXCEPT ![e] = @ + Len(Writable(s, Data(e, n)))]
           /\ delivered' = delivered
  <2>1. PICK n \in ChunkSizes :
           /\ accepted[e] + n <= MaxBytes[e] /\ r = send(s, Data(e, n))
           /\ accepted' = [accepted EXCEPT ![e] = @ + Len(Writable(s, Data(e, n)))]
           /\ delivered' = delivered
    BY <1>3
  <2>2. /\ Data(e, n) \in Seq(Byte) /\ Data(e, n) # <<>> /\ Len(Data(e, n)) = n
        /\ \A x \in 1..Len(Data(e, n)) : Data(e, n)[x] = accepted[e] + x
        /\ n \in Nat
    BY DataType
  <2> DEFINE k == Len(Writable(s, Data(e, n)))
  <2>3. k \in Nat /\ k <= n
    BY <1>0, <2>2, WritablePart, LenProperties
  <2>4. accepted'[e] = accepted[e] + k
    BY <2>1 DEF RestOK
  <2>5. MaxBytes[e] \in Nat
    BY ConnectionAssumption
  <2> HIDE DEF k
  <2>6. accepted[e] + k <= MaxBytes[e]
    BY <1>2, <2>1, <2>2, <2>3, <2>5
  <2>7. ~b.any => /\ \A x \in 1..Len(Data(e, n)) : Data(e, n)[x] = b.A + x
                  /\ c.A = b.A + Len(Writable(s, Data(e, n))) /\ c.A <= c.m
    BY <2>2, <2>4, <2>6 DEF k
  <2>8. /\ Accounts(r, s, c, {s.recv_next}) /\ Steady(r, s) /\ r.state = s.state
        /\ r.recv_buffer = s.recv_buffer
    BY <1>0, <2>1, <2>2, <2>7, SendCarries
  <2> QED
    BY <2>1, <2>8 DEF Closes, Received
<1>4. CASE accepted' = accepted
  <2>1. c.any \/ c.A = b.A
    BY <1>4
  <2>2. Holds(s, c) /\ Holds(q, c)
    <3>1. Holds(s, c)
      <4>1. CASE c.any
        BY <4>1 DEF Holds
      <4>2. CASE ~c.any
        BY <2>1, <4>2, SamePledge
      <4> QED
        BY <4>1, <4>2
    <3> QED
      BY <1>1, <3>1, AsideAccounts
  <2>3. CASE \E n \in Nat :
           /\ r = recv(s, n) \/ r = recv(q, n)
           /\ delivered' = [delivered EXCEPT ![e] = @ \o Readable(s, n)]
    <3>1. PICK n \in Nat :
           /\ r = recv(s, n) \/ r = recv(q, n)
           /\ delivered' = [delivered EXCEPT ![e] = @ \o Readable(s, n)]
      BY <2>3
    <3>2. PICK p \in {s, q} : r = recv(p, n)
      BY <3>1
    <3>3. SessionInv(p) /\ p.alive /\ Holds(p, c) /\ p.recv_buffer = s.recv_buffer /\ p.state = s.state
      BY <1>0, <1>1, <2>2, <3>2 DEF SameNumbers
    <3>4. Steady(r, p)
      <4>1. Pledge(Anything({})) /\ Anything({}).fin = TRUE /\ Anything({}).any = TRUE
        BY AnythingType
      <4>2. Holds(p, Anything({}))
        BY <3>3, <4>1 DEF Holds
      <4> QED
        BY <3>2, <3>3, <4>1, <4>2, RecvCarries
    <3>5. p.state = "CLOSE_WAIT" => c.fin
      BY <3>4 DEF Steady, Opening
    <3>6. /\ Accounts(r, p, c, {p.recv_next})
          /\ r.recv_buffer = pop_front(p.recv_buffer, n)
          /\ p.state # "CLOSE_WAIT" => r.state = p.state
      BY <3>2, <3>3, <3>5, RecvCarries
    <3>7. p.recv_next = s.recv_next
      BY <1>1, <3>2
    <3>8. Accounts(r, s, c, {s.recv_next}) /\ Steady(r, s)
      BY <1>1, <3>2, <3>4, <3>6, <3>7, AsideAccounts
    <3>9. Closes(r, s, c)
      BY <3>3, <3>6 DEF Closes
    <3>10. delivered'[e] \o r.recv_buffer = Received(e)
      <4>1. /\ Readable(s, n) \in Seq(Byte) /\ pop_front(s.recv_buffer, n) \in Seq(Byte)
            /\ Readable(s, n) \o pop_front(s.recv_buffer, n) = s.recv_buffer
        BY <1>0, ReadPart
      <4>2. delivered'[e] = delivered[e] \o Readable(s, n)
        BY <3>1 DEF RestOK
      <4>3. r.recv_buffer = pop_front(s.recv_buffer, n)
        BY <3>3, <3>6
      <4> DEFINE d == delivered[e]
                 w == Readable(s, n)
                 z == pop_front(s.recv_buffer, n)
      <4>4. d \in Seq(Byte) /\ w \in Seq(Byte) /\ z \in Seq(Byte)
        BY <1>2, <4>1
      <4>5. delivered'[e] \o r.recv_buffer = (d \o w) \o z
        BY <4>2, <4>3
      <4>6. d \o (w \o z) = Received(e)
        BY <4>1 DEF Received
      <4> HIDE DEF d, w, z
      <4>7. (d \o w) \o z = d \o (w \o z)
        BY <4>4, ConcatAssoc
      <4> QED
        BY <4>5, <4>6, <4>7
    <3> QED
      BY <3>8, <3>9, <3>10
  <2>4. CASE r = close(s) /\ delivered' = delivered
    <3>1. s.state \in {"ESTABLISHED", "CLOSE_WAIT"} => c.fin
      BY <1>0, <2>4, CloseState DEF Opening
    <3>2. s.state \in {"SYN_SENT", "SYN_RECEIVED"} => c.rst
      BY <1>0, <2>4, CloseState
    <3>3. /\ Accounts(r, s, c, {s.recv_next}) /\ Steady(r, s)
          /\ r.recv_buffer = s.recv_buffer /\ Closes(r, s, c)
      BY <1>0, <2>2, <2>4, <3>1, <3>2, CloseCarries
    <3> QED
      BY <2>4, <3>3 DEF Received
  <2>5. CASE r = q /\ delivered' = delivered
    <3>1. Accounts(s, s, c, {s.recv_next}) /\ Steady(s, s)
      BY <1>0, <2>2, StayAccounts
    <3>2. WellFormed(q)
      BY <1>1 DEF SessionInv
    <3>3. Accounts(q, q, c, {s.recv_next}) /\ Steady(q, q)
      BY <2>2, <3>2, StayAccounts
    <3>4. Accounts(q, s, c, {s.recv_next}) /\ Steady(q, s)
      BY <1>1, <3>3, AsideAccounts
    <3>5. q.state = s.state
      BY <1>1 DEF SameNumbers
    <3> QED
      BY <1>1, <2>5, <3>4, <3>5 DEF Closes, Received
  <2>6. CASE (\E t \in s.timers : r = handle_retransmit(s, t)) /\ delivered' = delivered
    <3>1. PICK t \in s.timers : r = handle_retransmit(s, t)
      BY <2>6
    <3>2. /\ SameNumbers(r, s) /\ r.recv_next = s.recv_next
          /\ r.recv_buffer = s.recv_buffer /\ r.remote = s.remote
          /\ s.recv_next \in c.acks => (Mail(s, c) => Mail(r, c))
      BY <1>0, <3>1, RetransmitCarries
    <3>3. Holds(r, c)
      BY <2>2, <3>2, SameHolds
    <3>4. Advances(r, s, c)
      <4>1. Off(c.i, s.send_next) \in Nat
        BY <1>0, NumberFacts
      <4> QED
        BY <3>2, <4>1 DEF Advances, SameNumbers
    <3>5. Accounts(r, s, c, {s.recv_next}) /\ Steady(r, s) /\ Closes(r, s, c)
      BY <3>2, <3>3, <3>4 DEF Accounts, Steady, Closes, SameNumbers
    <3> QED
      BY <2>6, <3>2, <3>5 DEF Received
  <2> QED
    BY <1>3, <2>3, <2>4, <2>5, <2>6 DEF Called, q
<1> QED
  BY <1>3, <1>4 DEF Called

-----------------------------------------------------------------------------
(* The steps of the system.                                                *)

\* Nothing happens to the sessions; datagrams get lost, damaged, repeated or
\* overtaken, and a RST may join them.
Idle ==
  /\ sess' = sess /\ accepted' = accepted /\ delivered' = delivered /\ opens' = opens
  /\ \A d \in Addr : \A b : NetOf(net, d, b) => NetOf(net', d, b)

\* Nothing is taken by send() or read by the application.
Unread == accepted' = accepted /\ delivered' = delivered

\* The packet is in the network, on its way to e.
Arrives(e, packet) ==
  packet \in myu_tcp_packet /\ \E x \in 1..Len(net[e]) : packet = net[e][x]

\* connect() makes r of the session of e.
Opens(e, r) ==
  /\ e \in Connectors /\ sess[e].alive /\ sess[e].state = "CLOSED"
  /\ opens[e] < MaxOpens /\ opens' = [opens EXCEPT ![e] = @ + 1] /\ Unread
  /\ \E iss \in ISS[e] : r = connect(sess[e], iss)

\* A call, the idle handle or a timer does.
Uses(e, r) ==
  Called(e, r) /\ (sess[e].alive \/ sess[e].state # "CLOSED") /\ opens' = opens

\* The 2MSL timer does.
Ends(e, r) ==
  sess[e].msl_timer /\ r = handle_2msl_timeout(sess[e]) /\ Unread /\ opens' = opens

\* A packet for the session of e does.
Takes(e, r, packet) ==
  /\ Arrives(e, packet) /\ HasSessionFor(e, packet) /\ Unread /\ opens' = opens
  /\ e \in Connectors => opens[e] > 0
  /\ \E iss \in ISS[e] : r = input(sess[e], packet, iss)

\* A SYN makes r of a new session of e.
Begins(e, r, packet) ==
  /\ Arrives(e, packet) /\ packet.flags = {"SYN"} /\ e \in Listeners
  /\ ~HasSessionFor(e, packet) /\ opens' = opens
  /\ accepted' = [accepted EXCEPT ![e] = 0] /\ delivered' = [delivered EXCEPT ![e] = <<>>]
  /\ \E iss \in ISS[e], initial \in InitialSendSeq :
       r = input(listen(NewSession(e, packet.src, initial)), packet, iss)

\* One of these steps of e makes the session r, and r is committed.
Acts(e, r) ==
  /\ Commits(e, r)
  /\ \/ Opens(e, r) \/ Uses(e, r) \/ Ends(e, r)
     \/ \E packet : Takes(e, r, packet) \/ Begins(e, r, packet)

\* The network as it is, and without its first datagram for e.
LEMMA NetParts ==
  ASSUME NetOK, NEW e \in Addr
  PROVE  /\ net \in [Addr -> Seq(myu_tcp_packet)] /\ NetPart(net)
         /\ net[e] # <<>> =>
              LET rest == [net EXCEPT ![e] = Tail(@)]
              IN  /\ rest \in [Addr -> Seq(myu_tcp_packet)] /\ NetPart(rest)
                  /\ Arrives(e, Head(net[e]))
<1> DEFINE S == Seq(myu_tcp_packet)
           rest == [net EXCEPT ![e] = Tail(@)]
<1>1. net \in [Addr -> S] /\ net[e] \in S
  BY DEF NetOK
<1>2. NetPart(net)
  BY DEF NetPart
<1>3. ASSUME net[e] # <<>>
      PROVE  rest \in [Addr -> S] /\ NetPart(rest) /\ Arrives(e, Head(net[e]))
  <2>1. /\ Head(net[e]) \in myu_tcp_packet /\ Tail(net[e]) \in S
        /\ Head(net[e]) = net[e][1] /\ Len(net[e]) \in Nat \ {0}
        /\ Len(Tail(net[e])) = Len(net[e]) - 1
        /\ \A x \in 1..Len(Tail(net[e])) : Tail(net[e])[x] = net[e][x + 1]
    BY <1>1, <1>3, HeadTailProperties, LenProperties, EmptySeq
  <2>2. Arrives(e, Head(net[e]))
    BY <2>1 DEF Arrives
  <2>3. rest \in [Addr -> S]
    <3> HIDE DEF S
    <3> QED
      BY <1>1, <2>1
  <2>4. NetPart(rest)
    <3>1. ASSUME NEW d \in Addr, NEW x \in 1..Len(rest[d])
          PROVE  \E y \in 1..Len(net[d]) : rest[d][x] = net[d][y]
      <4>1. CASE d = e
        <5>1. rest[d] = Tail(net[e])
          BY <1>1, <4>1
        <5> HIDE DEF rest
        <5>2. x \in 1..Len(Tail(net[e])) /\ x + 1 \in 1..Len(net[e])
          BY <2>1, <3>1, <5>1
        <5> QED
          BY <2>1, <4>1, <5>1, <5>2
      <4>2. CASE d # e
        BY <1>1, <3>1, <4>2
      <4> QED
        BY <4>1, <4>2
    <3> HIDE DEF rest
    <3> QED
      BY <3>1 DEF NetPart
  <2> QED
    BY <2>2, <2>3, <2>4
<1> QED
  BY <1>1, <1>2, <1>3

\* A datagram that was in the network, but for its checksum, keeps to the pledge.
LEMMA FaultKeeps ==
  ASSUME \A d \in Addr : \A x \in 1..Len(net'[d]) :
           \/ \E y \in 1..Len(net[d]) : net'[d][x] = net[d][y]
           \/ \E y \in 1..Len(net[d]) : net'[d][x] = [net[d][y] EXCEPT !.valid = FALSE]
                                      /\ net[d][y] \in myu_tcp_packet
           \/ \E f \in Addr : net'[d][x] = Reset(f)
  PROVE  \A d \in Addr : \A b : NetOf(net, d, b) => NetOf(net', d, b)
<1>1. ASSUME NEW f \in Addr, NEW b, NetOf(net, f, b),
             NEW d \in Addr, NEW x \in 1..Len(net'[d]), net'[d][x].src = f
      PROVE  PacketOK(b, d, net'[d][x])
  <2>1. CASE \E y \in 1..Len(net[d]) : net'[d][x] = net[d][y]
    BY <1>1, <2>1 DEF NetOf
  <2>2. CASE \E y \in 1..Len(net[d]) : /\ net'[d][x] = [net[d][y] EXCEPT !.valid = FALSE]
                                       /\ net[d][y] \in myu_tcp_packet
    <3>1. PICK y \in 1..Len(net[d]) : /\ net'[d][x] = [net[d][y] EXCEPT !.valid = FALSE]
                                       /\ net[d][y] \in myu_tcp_packet
      BY <2>2
    <3> DEFINE p == net[d][y]
               q == net'[d][x]
    <3>2. /\ q.src = p.src /\ q.flags = p.flags /\ q.seq = p.seq /\ q.ack = p.ack
          /\ q.payload = p.payload /\ q.valid = FALSE
      BY <3>1 DEF myu_tcp_packet
    <3>3. PacketOK(b, d, p)
      BY <1>1, <3>2 DEF NetOf
    <3> HIDE DEF p, q
    <3>4. PacketOK(b, d, q)
      BY <3>2, <3>3 DEF PacketOK
    <3> QED
      BY <3>4 DEF q
  <2>3. CASE \E h \in Addr : net'[d][x] = Reset(h)
    <3>1. PICK h \in Addr : net'[d][x] = Reset(h)
      BY <2>3
    <3> DEFINE q == net'[d][x]
    <3>2. q.flags = {"RST"} /\ q.payload = <<>> /\ q.valid = FALSE
      BY <3>1 DEF Reset
    <3> HIDE DEF q
    <3>3. PacketOK(b, d, q)
      BY <3>2 DEF PacketOK
    <3> QED
      BY <3>3 DEF q
  <2> QED
    BY <2>1, <2>2, <2>3
<1> QED
  BY <1>1 DEF NetOf

\* The datagrams in w are some of those in q, with or without a valid checksum.
PartOf(w, q) ==
  \A x \in 1..Len(w) : \E y \in 1..Len(q) : w[x] \in {q[y], [q[y] EXCEPT !.valid = FALSE]}

\* What a queue is made of after a fault.
LEMMA FaultParts ==
  ASSUME NEW q \in Seq(myu_tcp_packet), NEW i \in 1..Len(q)
  PROVE  /\ PartOf(Without(q, i), q) /\ PartOf(Append(q, q[i]), q)
         /\ PartOf(Append(Without(q, i), q[i]), q)
         /\ PartOf([q EXCEPT ![i].valid = FALSE], q)
<1> DEFINE a == SubSeq(q, 1, i - 1)
           c == SubSeq(q, i + 1, Len(q))
           w == Without(q, i)
           n == Len(q)
<1>1. n \in Nat /\ i \in 1..n /\ w = a \o c
  BY LenProperties DEF Without
<1>2. /\ a \in Seq(myu_tcp_packet) /\ Len(a) = i - 1
      /\ \A x \in 1..(i - 1) : a[x] = q[x]
  <2>1. \A j \in 1..(i - 1) : q[j] \in myu_tcp_packet
    OBVIOUS
  <2> QED
    BY <1>1, <2>1, SubSeqProperties
<1>3. /\ c \in Seq(myu_tcp_packet) /\ Len(c) = n - i
      /\ \A x \in 1..(n - i) : c[x] = q[i + x]
  <2>1. \A j \in (i + 1)..n : q[j] \in myu_tcp_packet
    OBVIOUS
  <2>2. c \in Seq(myu_tcp_packet) /\ Len(c) = n - i
    BY <1>1, <2>1, SubSeqProperties
  <2>3. ASSUME NEW x \in 1..(n - i) PROVE c[x] = q[i + x]
    <3>1. x \in 1..(n - (i + 1) + 1) /\ (i + 1) + x - 1 = i + x
      BY <1>1, <2>3
    <3>2. c[x] = q[(i + 1) + x - 1]
      BY <1>1, <2>1, <2>2, <2>3, <3>1, SubSeqProperties
    <3> QED
      BY <3>1, <3>2
  <2> QED
    BY <2>2, <2>3
<1> HIDE DEF a, c
<1>4. /\ Len(w) = n - 1 /\ w \in Seq(myu_tcp_packet)
      /\ \A x \in 1..(n - 1) : w[x] = IF x <= i - 1 THEN q[x] ELSE q[x + 1]
  <2>0. w \in Seq(myu_tcp_packet) /\ Len(w) = Len(a) + Len(c)
    BY <1>1, <1>2, <1>3, ConcatProperties
  <2>1. w \in Seq(myu_tcp_packet) /\ Len(w) = n - 1
    <3> HIDE DEF w, n
    <3> QED
      BY <1>1, <1>2, <1>3, <2>0
  <2>2. ASSUME NEW x \in 1..(n - 1)
        PROVE  w[x] = IF x <= i - 1 THEN q[x] ELSE q[x + 1]
    <3>0. x \in 1..(Len(a) + Len(c))
      BY <1>1, <1>2, <1>3, <2>2
    <3>1. w[x] = IF x <= i - 1 THEN a[x] ELSE c[x - (i - 1)]
      <4>1. /\ a \in Seq(myu_tcp_packet) /\ c \in Seq(myu_tcp_packet)
            /\ w = a \o c /\ Len(a) = i - 1
        BY <1>1, <1>2, <1>3
      <4> HIDE DEF w, n
      <4>2. w[x] = IF x <= Len(a) THEN a[x] ELSE c[x - Len(a)]
        BY <3>0, <4>1, ConcatProperties
      <4> QED
        BY <4>1, <4>2
    <3>2. CASE x <= i - 1
      BY <1>2, <2>2, <3>1, <3>2
    <3>3. CASE ~(x <= i - 1)
      <4>1. x - (i - 1) \in 1..(n - i) /\ i + (x - (i - 1)) = x + 1
        BY <1>1, <2>2, <3>3
      <4> QED
        BY <1>3, <3>1, <3>3, <4>1
    <3> QED
      BY <3>2, <3>3
  <2> QED
    BY <2>1, <2>2
<1> HIDE DEF w
<1>5. \A x \in 1..Len(w) : \E y \in 1..n : w[x] = q[y]
  <2> SUFFICES ASSUME NEW x \in 1..Len(w) PROVE \E y \in 1..n : w[x] = q[y]
    OBVIOUS
  <2>1. x \in 1..n /\ x + 1 \in 1..n /\ x \in 1..(n - 1)
    BY <1>1, <1>4
  <2> QED
    BY <1>4, <2>1
<1>6. ASSUME NEW p \in Seq(myu_tcp_packet), \A x \in 1..Len(p) : \E y \in 1..n : p[x] = q[y]
      PROVE  \A x \in 1..Len(Append(p, q[i])) : \E y \in 1..n : Append(p, q[i])[x] = q[y]
  <2>0. q[i] \in myu_tcp_packet
    OBVIOUS
  <2>1. /\ Len(Append(p, q[i])) = Len(p) + 1 /\ Len(p) \in Nat
        /\ \A x \in 1..Len(p) : Append(p, q[i])[x] = p[x]
        /\ Append(p, q[i])[Len(p) + 1] = q[i]
    BY <1>6, <2>0, AppendProperties, LenProperties
  <2> SUFFICES ASSUME NEW x \in 1..Len(Append(p, q[i]))
               PROVE  \E y \in 1..n : Append(p, q[i])[x] = q[y]
    OBVIOUS
  <2>2. CASE x = Len(p) + 1
    BY <1>1, <2>1, <2>2
  <2>3. CASE x # Len(p) + 1
    <3>1. x \in 1..Len(p)
      BY <2>1, <2>3
    <3> QED
      BY <1>6, <2>1, <3>1
  <2> QED
    BY <2>2, <2>3
<1>7. \A x \in 1..Len(Append(q, q[i])) : \E y \in 1..n : Append(q, q[i])[x] = q[y]
  BY <1>6
<1>8. \A x \in 1..Len(Append(w, q[i])) : \E y \in 1..n : Append(w, q[i])[x] = q[y]
  BY <1>4, <1>5, <1>6
<1>9. LET v == [q EXCEPT ![i].valid = FALSE]
      IN  \A x \in 1..Len(v) :
            \E y \in 1..n : v[x] \in {q[y], [q[y] EXCEPT !.valid = FALSE]}
  <2> DEFINE p == [q[i] EXCEPT !.valid = FALSE]
             v == [q EXCEPT ![i] = p]
  <2>1. v = [q EXCEPT ![i].valid = FALSE]
    OBVIOUS
  <2>2. Len(v) = n
    OBVIOUS
  <2>3. \A x \in 1..n : v[x] \in {q[x], [q[x] EXCEPT !.valid = FALSE]}
    <3> HIDE DEF p
    <3>1. \A x \in 1..n : v[x] = IF x = i THEN p ELSE q[x]
      OBVIOUS
    <3> QED
      BY <3>1 DEF p
  <2> HIDE DEF v
  <2>4. \A x \in 1..Len(v) :
            \E y \in 1..n : v[x] \in {q[y], [q[y] EXCEPT !.valid = FALSE]}
    BY <2>2, <2>3
  <2> QED
    BY <2>1, <2>4
<1>10. PartOf(w, q)
  BY <1>5 DEF PartOf
<1>11. PartOf(Append(q, q[i]), q)
  BY <1>7 DEF PartOf
<1>12. PartOf(Append(w, q[i]), q)
  BY <1>8 DEF PartOf
<1>13. PartOf([q EXCEPT ![i].valid = FALSE], q)
  BY <1>9 DEF PartOf
<1> QED
  BY <1>10, <1>11, <1>12, <1>13 DEF w

\* UDP's faults.
LEMMA UdpIdle ==
  ASSUME SessionsOK, NetOK, RestOK, NEW e \in Addr, Udp(e)
  PROVE  Idle
<1> DEFINE q == net[e]
<1>1. net \in [Addr -> Seq(myu_tcp_packet)] /\ q \in Seq(myu_tcp_packet)
  BY DEF NetOK
<1>2. sess' = sess /\ accepted' = accepted /\ delivered' = delivered /\ opens' = opens
  BY DEF Udp, Lose, Corrupt, Duplicate, Reorder
<1>3. \E w : net' = [net EXCEPT ![e] = w] /\ PartOf(w, q)
  <2>1. CASE Lose(e)
    <3>1. PICK i \in 1..Len(q) : net' = [net EXCEPT ![e] = Without(q, i)]
      BY <2>1 DEF Lose
    <3>2. PartOf(Without(q, i), q)
      BY <1>1, FaultParts
    <3> QED
      BY <3>1, <3>2
  <2>2. CASE Corrupt(e)
    <3>1. PICK i \in 1..Len(q) : net' = [net EXCEPT ![e] = [q EXCEPT ![i].valid = FALSE]]
      BY <2>2 DEF Corrupt
    <3>2. PartOf([q EXCEPT ![i].valid = FALSE], q)
      BY <1>1, FaultParts
    <3> QED
      BY <3>1, <3>2
  <2>3. CASE Duplicate(e)
    <3>1. PICK i \in 1..Len(q) : net' = [net EXCEPT ![e] = Append(q, q[i])]
      BY <2>3 DEF Duplicate
    <3>2. PartOf(Append(q, q[i]), q)
      BY <1>1, FaultParts
    <3> QED
      BY <3>1, <3>2
  <2>4. CASE Reorder(e)
    <3>1. PICK i \in 1..(Len(q) - 1) : net' = [net EXCEPT ![e] = Append(Without(q, i), q[i])]
      BY <2>4 DEF Reorder
    <3>2. i \in 1..Len(q)
      BY <1>1, LenProperties
    <3>3. PartOf(Append(Without(q, i), q[i]), q)
      BY <1>1, <3>2, FaultParts
    <3> QED
      BY <3>1, <3>3
  <2> QED
    BY <2>1, <2>2, <2>3, <2>4 DEF Udp
<1>4. PICK w : net' = [net EXCEPT ![e] = w] /\ PartOf(w, q)
  BY <1>3
<1>5. ASSUME NEW d \in Addr, NEW x \in 1..Len(net'[d])
      PROVE  \/ \E y \in 1..Len(net[d]) : net'[d][x] = net[d][y]
             \/ \E y \in 1..Len(net[d]) : /\ net'[d][x] = [net[d][y] EXCEPT !.valid = FALSE]
                                          /\ net[d][y] \in myu_tcp_packet
  <2>1. CASE d = e
    <3>1. net'[d] = w /\ net[d] = q
      BY <1>1, <1>4, <2>1
    <3>2. PICK y \in 1..Len(q) : w[x] \in {q[y], [q[y] EXCEPT !.valid = FALSE]}
      BY <1>4, <1>5, <3>1 DEF PartOf
    <3>3. q[y] \in myu_tcp_packet
      BY <1>1
    <3> HIDE DEF q
    <3> QED
      BY <3>1, <3>2, <3>3
  <2>2. CASE d # e
    <3>1. net'[d] = net[d]
      BY <1>1, <1>4, <2>2
    <3> QED
      BY <1>5, <3>1
  <2> QED
    BY <2>1, <2>2
<1>6. \A d \in Addr : \A b : NetOf(net, d, b) => NetOf(net', d, b)
  BY <1>5, FaultKeeps
<1> QED
  BY <1>2, <1>6 DEF Idle

\* Every step is of one of these kinds.
LEMMA StepKinds ==
  ASSUME SessionsOK, NetOK, RestOK, ClientServer, [Next]_vars
  PROVE  Idle \/ \E e \in Addr : \E r : Acts(e, r)
<1>1. CASE UNCHANGED vars
  BY <1>1 DEF vars, Idle
<1>2. CASE Next
  <2>1. PICK e \in Addr : Application(e) \/ EventLoop(e) \/ Udp(e)
    BY <1>2 DEF Next
  <2>2. SessionInv(sess[e]) /\ sess[e].self = e
    BY DEF SessionsOK
  <2>3. net \in [Addr -> Seq(myu_tcp_packet)] /\ NetPart(net)
    BY NetParts
  <2>4. ISS[e] \subseteq Word
    BY ConnectionAssumption
  <2>5. CASE Connect(e)
    <3>1. PICK iss \in ISS[e] : Commit(e, connect(sess[e], iss), net)
      BY <2>5 DEF Connect
    <3> DEFINE r == connect(sess[e], iss)
    <3>2. SessionInv(r) /\ r.self = e
      BY <2>2, <2>4, <2>5, ConnectInv DEF Connect
    <3>5. sess[e].state = "CLOSED"
      BY <2>5 DEF Connect, ClientServer, ConnectsClosed
    <3>3. Opens(e, r)
      BY <2>5, <3>5 DEF Connect, Opens, Unread
    <3> HIDE DEF r
    <3>4. Commits(e, r)
      BY <2>3, <3>1, <3>2 DEF Commits, r
    <3> QED
      BY <3>3, <3>4 DEF Acts
  <2>6. CASE Calls(e)
    <3>1. PICK r : /\ Called(e, r) /\ Commit(e, r, net) /\ SessionInv(r) /\ r.self = e
                   /\ sess[e].alive \/ sess[e].state # "CLOSED"
      BY <2>6, CallsCommit
    <3>2. opens' = opens
      BY <2>6 DEF Calls, Send, Recv, Close, Dispatch, Timeout
    <3>3. Commits(e, r)
      BY <2>3, <3>1 DEF Commits
    <3> QED
      BY <3>1, <3>2, <3>3 DEF Acts, Uses
  <2>7. CASE MslTimeout(e)
    <3> DEFINE r == handle_2msl_timeout(sess[e])
    <3>1. SessionInv(r) /\ r.self = e
      BY <2>2, EraseInv
    <3>2. Commit(e, r, net) /\ Ends(e, r)
      BY <2>7 DEF MslTimeout, Ends, Unread
    <3> HIDE DEF r
    <3>3. Commits(e, r)
      BY <2>3, <3>1, <3>2 DEF Commits
    <3> QED
      BY <3>2, <3>3 DEF Acts
  <2>8. CASE Deliver(e)
    <3> DEFINE packet == Head(net[e])
               rest == [net EXCEPT ![e] = Tail(@)]
    <3>1. net[e] # <<>>
      BY <2>8 DEF Deliver
    <3>2. rest \in [Addr -> Seq(myu_tcp_packet)] /\ NetPart(rest) /\ Arrives(e, packet)
      BY <3>1, NetParts
    <3>3. \/ ToSession(e, packet, rest) \/ ToNobody(e, packet, rest)
          \/ ToNewSession(e, packet, rest) \/ Refuse(e, packet, rest)
      BY <2>8 DEF Deliver
    <3> HIDE DEF packet, rest
    <3>4. packet \in myu_tcp_packet /\ packet.src \in Addr
      BY <3>2 DEF Arrives, myu_tcp_packet
    <3>5. CASE ToSession(e, packet, rest)
      <4>1. PICK iss \in ISS[e] : Commit(e, input(sess[e], packet, iss), rest)
        BY <3>5 DEF ToSession
      <4> DEFINE r == input(sess[e], packet, iss)
      <4>2. SessionInv(r) /\ r.self = e
        BY <2>2, <2>4, <3>4, InputInv
      <4>3. Takes(e, r, packet)
        BY <3>2, <3>5 DEF ToSession, Takes, Unread
      <4> HIDE DEF r
      <4>4. Commits(e, r)
        BY <3>2, <4>1, <4>2 DEF Commits, r
      <4> QED
        BY <4>3, <4>4 DEF Acts
    <3>6. CASE ToNewSession(e, packet, rest)
      <4>1. PICK iss \in ISS[e], initial \in InitialSendSeq :
              Commit(e, input(listen(NewSession(e, packet.src, initial)), packet, iss), rest)
        BY <3>6 DEF ToNewSession
      <4> DEFINE n == NewSession(e, packet.src, initial)
                 s == listen(n)
                 r == input(s, packet, iss)
      <4>2. initial \in Word /\ iss \in Word
        BY <2>4, ConnectionAssumption
      <4>3. SessionInv(n) /\ n.self = e
        BY <3>4, <4>2, NewSessionInv
      <4>4. SessionInv(s) /\ s.self = e
        <5> HIDE DEF n
        <5> QED
          BY <4>3, ListenCallInv
      <4>5. SessionInv(r) /\ r.self = e
        <5> HIDE DEF s
        <5> QED
          BY <3>4, <4>2, <4>4, InputInv
      <4>6. Begins(e, r, packet)
        <5>1. packet.flags = {"SYN"} /\ e \in Listeners /\ ~HasSessionFor(e, packet)
          BY <3>6 DEF ToNewSession
        <5>2. /\ opens' = opens
              /\ accepted' = [accepted EXCEPT ![e] = 0]
              /\ delivered' = [delivered EXCEPT ![e] = <<>>]
          BY <3>6 DEF ToNewSession
        <5> QED
          BY <3>2, <5>1, <5>2 DEF Begins
      <4>7. Commit(e, r, rest)
        BY <4>1
      <4> HIDE DEF r
      <4>8. Commits(e, r)
        BY <3>2, <4>5, <4>7 DEF Commits
      <4> QED
        BY <4>6, <4>8 DEF Acts
    <3>7. CASE ToNobody(e, packet, rest)
      <4>1. \A d \in Addr : \A b : NetOf(net, d, b) => NetOf(net', d, b)
        BY <3>2, <3>7, FaultKeeps DEF ToNobody, NetPart
      <4> QED
        BY <3>7, <4>1 DEF ToNobody, Idle
    <3>8. CASE Refuse(e, packet, rest)
      <4> DEFINE f == packet.src
      <4>1. net' = [rest EXCEPT ![f] = Append(rest[f], Reset(e))]
        BY <3>8 DEF Refuse
      <4>2. Reset(e) \in myu_tcp_packet
        BY WordArith DEF Reset, myu_tcp_packet, TcpFlag
      <4>3. ASSUME NEW d \in Addr, NEW x \in 1..Len(net'[d])
            PROVE  (\E y \in 1..Len(net[d]) : net'[d][x] = net[d][y]) \/ net'[d][x] = Reset(e)
        <5>1. CASE d = f
          <6>1. rest[f] \in Seq(myu_tcp_packet)
            BY <3>2, <3>4
          <6>2. net'[d] = Append(rest[f], Reset(e))
            BY <3>2, <3>4, <4>1, <5>1
          <6>3. /\ Len(Append(rest[f], Reset(e))) = Len(rest[f]) + 1 /\ Len(rest[f]) \in Nat
                /\ \A y \in 1..Len(rest[f]) : Append(rest[f], Reset(e))[y] = rest[f][y]
                /\ Append(rest[f], Reset(e))[Len(rest[f]) + 1] = Reset(e)
            BY <4>2, <6>1, AppendProperties, LenProperties
          <6>4. CASE x = Len(rest[f]) + 1
            BY <6>2, <6>3, <6>4
          <6>5. CASE x # Len(rest[f]) + 1
            <7>1. x \in 1..Len(rest[f])
              BY <4>3, <6>2, <6>3, <6>5
            <7>2. \E y \in 1..Len(net[f]) : rest[f][x] = net[f][y]
              BY <3>2, <3>4, <7>1 DEF NetPart
            <7>3. net'[d][x] = rest[f][x]
              BY <6>2, <6>3, <7>1
            <7> QED
              BY <5>1, <7>2, <7>3
          <6> QED
            BY <6>4, <6>5
        <5>2. CASE d # f
          <6>1. net'[d] = rest[d]
            BY <3>2, <4>1, <5>2
          <6> QED
            BY <3>2, <4>3, <6>1 DEF NetPart
        <5> QED
          BY <5>1, <5>2
      <4>4. \A d \in Addr : \A b : NetOf(net, d, b) => NetOf(net', d, b)
        BY <4>3, FaultKeeps
      <4> QED
        BY <3>8, <4>4 DEF Refuse, Idle
    <3> QED
      BY <3>3, <3>5, <3>6, <3>7, <3>8
  <2>9. CASE Dispatch(e) \/ Timeout(e) \/ Send(e) \/ Recv(e) \/ Close(e)
    BY <2>6, <2>9 DEF Calls
  <2>10. CASE Udp(e)
    BY <2>10, UdpIdle
  <2> QED
    BY <2>1, <2>5, <2>7, <2>8, <2>9, <2>10 DEF Application, EventLoop
<1> QED
  BY <1>1, <1>2

\* A stack keeps to the pledge b.
Bound(e, b) == Holds(sess[e], b) /\ Mail(sess[e], b) /\ NetOf(net, e, b)

\* The stack that acts keeps to a pledge that has grown, the others to theirs.
LEMMA ActsBound ==
  ASSUME SessionsOK, NetOK, NEW e \in Addr, NEW r, Commits(e, r),
         NEW b, Pledge(b), Bound(e, b), NEW c, Pledge(c), Grows(b, c),
         Holds(r, c), Mail(r, c)
  PROVE  /\ Bound(e, c)'
         /\ sess' = [sess EXCEPT ![e] = [r EXCEPT !.out = NothingSent]]
         /\ \A d \in Addr \ {e} : \A a : Bound(d, a) => Bound(d, a)'
<1>1. Committed(e, r)
  BY CommitSent
<1>2. WellFormed(r)
  BY DEF Commits, SessionInv
<1>3. sess'[e] = [r EXCEPT !.out = NothingSent]
  BY <1>1 DEF Committed, SessionsOK
<1>4. Holds(sess'[e], c) /\ Mail(sess'[e], c)
  BY <1>2, <1>3, OutKept
<1>5. NetOf(net, e, c)
  <2>1. ASSUME NEW d \in Addr, NEW x \in 1..Len(net[d]), net[d][x].src = e
        PROVE  PacketOK(c, d, net[d][x])
    <3>1. net[d][x] \in myu_tcp_packet
      BY DEF NetOK
    <3>2. PacketOK(b, d, net[d][x])
      BY <2>1 DEF Bound, NetOf
    <3> QED
      BY <3>1, <3>2, GrowsMail
  <2> QED
    BY <2>1 DEF NetOf
<1>6. NetOf(net', e, c)
  BY <1>1, <1>5 DEF Committed
<1>7. ASSUME NEW d \in Addr \ {e}, NEW a, Bound(d, a)
      PROVE  Bound(d, a)'
  <2>1. sess'[d] = sess[d]
    BY <1>1 DEF Committed, SessionsOK
  <2>2. NetOf(net', d, a)
    BY <1>1, <1>7 DEF Committed, Bound
  <2> QED
    BY <1>7, <2>1, <2>2 DEF Bound
<1> QED
  BY <1>1, <1>4, <1>6, <1>7 DEF Committed, Bound

-----------------------------------------------------------------------------
(* A client and a server: what is in flight is in the buffer.              *)

\* Where a stack sends its SYN.
Opener(e) == IF e \in Connectors THEN {Peer(e)} ELSE {}

\* Each session talks to the other stack, and has the states of its role.
Placed(e, s) ==
  /\ s.remote = Peer(e)
  /\ e \in Connectors => s.state \notin {"LISTEN", "SYN_RECEIVED"}
  /\ e \notin Connectors => s.state # "SYN_SENT"

\* Whatever a stack sends, its SYN goes from the client to the server.
Basic == \A e \in Addr : Bound(e, Anything(Opener(e))) /\ Placed(e, sess[e])

\* The two stacks are each other's peers.
LEMMA PeerFacts ==
  ASSUME NEW e \in Addr
  PROVE  /\ Peer(e) \in Addr /\ Peer(e) # e /\ Peer(Peer(e)) = e
         /\ \A d \in Addr : d = e \/ d = Peer(e)
<1>1. PICK a \in Addr, b \in Addr : a # b /\ Addr = {a, b}
  BY ConnectionAssumption
<1>2. \E p \in Addr : p # e
  BY <1>1
<1>3. Peer(e) \in Addr /\ Peer(e) # e
  BY <1>2 DEF Peer
<1>4. \E p \in Addr : p # Peer(e)
  BY <1>3
<1>5. Peer(Peer(e)) \in Addr /\ Peer(Peer(e)) # Peer(e)
  BY <1>4 DEF Peer
<1> QED
  BY <1>1, <1>3, <1>5

\* A packet that arrives keeps to the pledge of its source.
LEMMA ArrivesOK ==
  ASSUME NEW e \in Addr, NEW packet, Arrives(e, packet), NEW b, Bound(packet.src, b)
  PROVE  PacketOK(b, e, packet)
BY DEF Arrives, Bound, NetOf

\* A SYN comes from the client and goes to the server.
LEMMA SynArrives ==
  ASSUME Basic, NEW e \in Addr, NEW packet, Arrives(e, packet),
         "SYN" \in packet.flags, "ACK" \notin packet.flags
  PROVE  packet.src \in Connectors /\ packet.src = Peer(e)
<1> DEFINE f == packet.src
<1>1. f \in Addr
  BY DEF Arrives, myu_tcp_packet
<1>2. Bound(f, Anything(Opener(f)))
  BY <1>1 DEF Basic
<1>3. PacketOK(Anything(Opener(f)), e, packet)
  BY <1>2, ArrivesOK
<1>4. e \in Opener(f)
  BY <1>1, <1>3, AnythingType DEF PacketOK
<1> QED
  BY <1>1, <1>4, PeerFacts DEF Opener

\* input() under a pledge.
LEMMA TakesCarries ==
  ASSUME SessionsOK, Basic, ClientServer, NEW e \in Addr, NEW r, NEW packet,
         Takes(e, r, packet), NEW iss \in ISS[e], r = input(sess[e], packet, iss),
         NEW b, Pledge(b), Holds(sess[e], b), sess[e].state = "CLOSE_WAIT" => b.fin,
         sess[e].state = "LISTEN" /\ r.state # "LISTEN"
           => iss \in b.joins /\ (b.any \/ iss = b.i)
  PROVE  /\ Accounts(r, sess[e], b, Acks(r, sess[e], packet))
         /\ Follows(r, sess[e], packet)
<1>1. SessionInv(sess[e]) /\ sess[e].alive /\ packet \in myu_tcp_packet /\ iss \in Word
  BY ConnectionAssumption DEF SessionsOK, Takes, HasSessionFor, Arrives
<1>2. sess[e].state = "SYN_SENT" => "SYN" \notin packet.flags \/ "ACK" \in packet.flags
  <2> SUFFICES ASSUME sess[e].state = "SYN_SENT", "SYN" \in packet.flags, "ACK" \notin packet.flags
               PROVE  FALSE
    OBVIOUS
  <2>1. e \in Connectors
    BY DEF Basic, Placed
  <2>2. Peer(e) \in Connectors
    BY SynArrives DEF Takes
  <2> QED
    BY <2>1, <2>2, PeerFacts DEF ClientServer
<1> QED
  BY <1>1, <1>2, InputCarries DEF ClientServer

\* A server's new session under a pledge.
LEMMA BeginsCarries ==
  ASSUME SessionsOK, Basic, ClientServer, NEW e \in Addr, NEW r, NEW packet,
         Begins(e, r, packet), NEW iss \in ISS[e], NEW initial \in InitialSendSeq,
         r = input(listen(NewSession(e, packet.src, initial)), packet, iss),
         NEW b, Pledge(b), b.any \/ b.A = 0,
         r.state # "LISTEN" => iss \in b.joins /\ (b.any \/ iss = b.i)
  PROVE  LET s == listen(NewSession(e, packet.src, initial))
         IN  /\ Accounts(r, s, b, Acks(r, s, packet)) /\ Follows(r, s, packet)
             /\ Mail(s, b) /\ s.recv_buffer = <<>> /\ s.remote = Peer(e)
             /\ SessionInv(s) /\ s.alive /\ s.state = "LISTEN"
<1> DEFINE n == NewSession(e, packet.src, initial)
           s == listen(n)
<1>1. /\ packet \in myu_tcp_packet /\ packet.src \in Addr /\ iss \in Word /\ initial \in Word
      /\ packet.flags = {"SYN"}
  BY ConnectionAssumption DEF Begins, Arrives, myu_tcp_packet
<1>2. packet.src = Peer(e)
  BY <1>1, SynArrives DEF Begins
<1>3. n.alive /\ n.state = "CLOSED" /\ s = [n EXCEPT !.state = "LISTEN"]
  BY DEF NewSession, listen
<1>4. s.alive /\ s.state = "LISTEN"
  BY <1>3 DEF NewSession
<1>5. Holds(s, b) /\ Mail(s, b) /\ s.recv_buffer = <<>> /\ s.remote = packet.src
  <2>1. Unused(s, packet.src, b)
    BY <1>1, FreshCarries
  <2> HIDE DEF s
  <2> QED
    BY <2>1 DEF Unused
<1>6. SessionInv(n)
  BY <1>1, NewSessionInv
<1> HIDE DEF n
<1>7. SessionInv(s)
  BY <1>6, ListenCallInv
<1>8. r = input(s, packet, iss)
  BY DEF n
<1> HIDE DEF s
<1>9. Accounts(r, s, b, Acks(r, s, packet)) /\ Follows(r, s, packet)
  BY <1>1, <1>4, <1>5, <1>7, <1>8, InputCarries DEF ClientServer
<1> QED
  BY <1>2, <1>4, <1>5, <1>7, <1>9 DEF s, n

\* An erased session under a pledge.
LEMMA EndsCarries ==
  ASSUME SessionsOK, NEW e \in Addr, NEW r, Ends(e, r), NEW b
  PROVE  /\ Holds(r, b) /\ r.state = "CLOSED" /\ r.alive = FALSE
         /\ r.recv_buffer = <<>> /\ r.remote = sess[e].remote
         /\ Mail(sess[e], b) => Mail(r, b)
<1> DEFINE q == [sess[e] EXCEPT !.state = "CLOSED"]
<1>1. WellFormed(sess[e]) /\ sess[e] \in Session
  BY DEF SessionsOK, SessionInv
<1>2. /\ WellFormed(q) /\ q.timers = sess[e].timers /\ q.out = sess[e].out
      /\ q.self = sess[e].self /\ q.remote = sess[e].remote
  BY <1>1 DEF WellFormed, Session, TcpState
<1>3. r = on_closed_cb(q)
  BY DEF Ends, handle_2msl_timeout
<1> HIDE DEF q
<1>4. Mail(sess[e], b) => Mail(q, b)
  BY <1>2, LessMail
<1> QED
  BY <1>2, <1>3, <1>4, EraseCarries

\* Whatever a stack does, its SYN goes from the client to the server.
LEMMA ActsBasic ==
  ASSUME SessionsOK, NetOK, RestOK, ClientServer, Basic, NEW e \in Addr, NEW r, Acts(e, r)
  PROVE  /\ Holds(r, Anything(Opener(e))) /\ Mail(r, Anything(Opener(e))) /\ Placed(e, r)
         /\ Committed(e, r)
<1> DEFINE s == sess[e]
           B == Anything(Opener(e))
<1>1. /\ Pledge(B) /\ B.any = TRUE /\ B.fin = TRUE /\ B.rst = TRUE /\ B.open = Opener(e)
      /\ B.syn = Word /\ B.joins = Word /\ B.acks = Word
  BY AnythingType
<1>2. /\ Holds(s, B) /\ Mail(s, B) /\ NetOf(net, e, B) /\ Placed(e, s) /\ Bound(e, B)
  BY DEF Basic, Bound
<1>3. /\ SessionInv(s) /\ WellFormed(s) /\ s.recv_next \in Word
      /\ SessionInv(r) /\ WellFormed(r) /\ r.recv_next \in Word
  BY DEF SessionsOK, Acts, Commits, SessionInv, WellFormed, Session
<1>4. ISS[e] \subseteq Word
  BY ConnectionAssumption
<1> HIDE DEF B, s
<1>5. Holds(r, B) /\ Mail(r, B) /\ Placed(e, r)
  <2>1. CASE Opens(e, r)
    <3>1. PICK iss \in ISS[e] : r = connect(s, iss)
      BY <2>1 DEF Opens, s
    <3>2. s.alive /\ s.state = "CLOSED" /\ e \in Connectors
      BY <2>1 DEF Opens, s
    <3>3. s.remote \in B.open
      BY <1>1, <1>2, <3>2 DEF Placed, Opener
    <3>4. /\ Holds(r, B) /\ r.state = "SYN_SENT" /\ r.remote = s.remote
          /\ iss \in B.syn /\ s.remote \in B.open /\ Mail(s, B) => Mail(r, B)
      BY <1>1, <1>2, <1>3, <1>4, <3>1, <3>2, ConnectCarries
    <3> QED
      BY <1>1, <1>2, <1>4, <3>2, <3>3, <3>4 DEF Placed
  <2>2. CASE Uses(e, r)
    <3>1. s.alive
      BY <1>2, <2>2 DEF Holds, Flight, Uses, s
    <3>2. Accounts(r, s, B, {s.recv_next}) /\ Steady(r, s)
      BY <1>1, <1>2, <2>2, <3>1, CalledCarries DEF Uses, s
    <3> QED
      BY <1>1, <1>2, <1>3, <3>2 DEF Accounts, Fits, Steady, Placed
  <2>3. CASE Ends(e, r)
    BY <1>2, <2>3, EndsCarries DEF Placed, s
  <2>4. ASSUME NEW packet, Takes(e, r, packet)
        PROVE  Holds(r, B) /\ Mail(r, B) /\ Placed(e, r)
    <3>1. PICK iss \in ISS[e] : r = input(s, packet, iss)
      BY <2>4 DEF Takes, s
    <3>2. Accounts(r, s, B, Acks(r, s, packet)) /\ Follows(r, s, packet)
      BY <1>1, <1>2, <1>4, <2>4, <3>1, TakesCarries DEF s
    <3>3. Acks(r, s, packet) \subseteq B.acks
      BY <1>1, <1>3 DEF Acks
    <3>4. Holds(r, B) /\ Mail(r, B)
      BY <1>1, <1>2, <3>2, <3>3 DEF Accounts, Fits
    <3>5. r.remote = s.remote
      BY <3>2 DEF Follows
    <3>6. /\ r.state \in {"LISTEN", "SYN_RECEIVED"} => s.state \in {"LISTEN", "SYN_RECEIVED"}
          /\ r.state = "SYN_SENT" => s.state = "SYN_SENT"
      BY <3>2 DEF Follows, Gone, Kept, Opened, Joined, Accepted, Opening
    <3> QED
      BY <1>2, <3>4, <3>5, <3>6 DEF Placed
  <2>5. ASSUME NEW packet, Begins(e, r, packet)
        PROVE  Holds(r, B) /\ Mail(r, B) /\ Placed(e, r)
    <3>1. PICK iss \in ISS[e], initial \in InitialSendSeq :
            r = input(listen(NewSession(e, packet.src, initial)), packet, iss)
      BY <2>5 DEF Begins
    <3> DEFINE l == listen(NewSession(e, packet.src, initial))
    <3>2. /\ Accounts(r, l, B, Acks(r, l, packet)) /\ Follows(r, l, packet)
          /\ Mail(l, B) /\ l.remote = Peer(e) /\ SessionInv(l) /\ l.state = "LISTEN"
      BY <1>1, <1>4, <2>5, <3>1, BeginsCarries
    <3> HIDE DEF l
    <3>3. l.recv_next \in Word
      BY <3>2 DEF SessionInv, WellFormed, Session
    <3>4. Acks(r, l, packet) \subseteq B.acks
      BY <1>1, <1>3, <3>3 DEF Acks
    <3>5. Holds(r, B) /\ Mail(r, B)
      BY <1>1, <3>2, <3>4 DEF Accounts, Fits
    <3>6. r.remote = l.remote
      BY <3>2 DEF Follows
    <3>7. r.state # "SYN_SENT"
      BY <3>2 DEF Follows, Gone, Kept, Opened, Joined, Accepted, Opening
    <3>8. e \notin Connectors
      BY <2>5 DEF Begins, Listeners
    <3> QED
      BY <3>2, <3>5, <3>6, <3>7, <3>8 DEF Placed
  <2> QED
    BY <1>2, <2>1, <2>2, <2>3, <2>4, <2>5 DEF Acts
<1>6. Committed(e, r)
  BY <1>5, CommitSent DEF Acts
<1> QED
  BY <1>5, <1>6 DEF B

\* Every step keeps to the pledges that allow everything.
LEMMA BasicStep ==
  ASSUME SessionsOK, NetOK, RestOK, ClientServer, Basic, [Next]_vars
  PROVE  Basic'
<1>1. CASE Idle
  <2>1. ASSUME NEW e \in Addr PROVE Bound(e, Anything(Opener(e)))' /\ Placed(e, sess[e])'
    <3>1. Bound(e, Anything(Opener(e))) /\ Placed(e, sess[e])
      BY DEF Basic
    <3>2. NetOf(net', e, Anything(Opener(e)))
      BY <1>1, <3>1 DEF Idle, Bound
    <3>3. sess' = sess
      BY <1>1 DEF Idle
    <3> QED
      BY <3>1, <3>2, <3>3 DEF Bound, Placed
  <2> QED
    BY <2>1 DEF Basic
<1>2. ASSUME NEW e \in Addr, NEW r, Acts(e, r)
      PROVE  Basic'
  <2> DEFINE B == Anything(Opener(e))
  <2>1. /\ Pledge(B) /\ B.any = TRUE
    BY AnythingType
  <2>2. Bound(e, B)
    BY DEF Basic
  <2>3. WellFormed(r)
    BY <1>2 DEF Acts, Commits, SessionInv
  <2>5. Holds(r, B) /\ Mail(r, B) /\ Placed(e, r)
    BY <1>2, ActsBasic
  <2> HIDE DEF B
  <2>6. Commits(e, r)
    BY <1>2 DEF Acts
  <2>7. Grows(B, B)
    BY <2>1 DEF Grows
  <2>8. /\ Bound(e, B)'
        /\ sess' = [sess EXCEPT ![e] = [r EXCEPT !.out = NothingSent]]
        /\ \A d \in Addr \ {e} : \A a : Bound(d, a) => Bound(d, a)'
    BY <2>1, <2>2, <2>5, <2>6, <2>7, ActsBound
  <2>9. Placed(e, sess'[e])
    <3>1. sess'[e] = [r EXCEPT !.out = NothingSent]
      BY <2>8 DEF SessionsOK
    <3>2. sess'[e].remote = r.remote /\ sess'[e].state = r.state
      BY <2>3, <3>1, OutKept DEF SameNumbers
    <3> QED
      BY <2>5, <3>2 DEF Placed
  <2>10. ASSUME NEW d \in Addr \ {e} PROVE Bound(d, Anything(Opener(d)))' /\ Placed(d, sess'[d])
    <3>1. Bound(d, Anything(Opener(d))) /\ Placed(d, sess[d])
      BY DEF Basic
    <3>2. sess'[d] = sess[d]
      BY <2>8 DEF SessionsOK
    <3> QED
      BY <2>8, <3>1, <3>2 DEF Placed
  <2> QED
    BY <2>8, <2>9, <2>10 DEF Basic, B
<1> QED
  BY <1>1, <1>2, StepKinds

\* New sessions have sent nothing.
LEMMA BasicInit == Init => Basic
<1> SUFFICES ASSUME Init, NEW e \in Addr
             PROVE  Bound(e, Anything(Opener(e))) /\ Placed(e, sess[e])
  BY DEF Basic
<1> DEFINE B == Anything(Opener(e))
<1>1. PICK i \in [Addr -> InitialSendSeq] :
        sess = [d \in Addr |-> IF d \in Connectors THEN NewSession(d, Peer(d), i[d])
                                                   ELSE NoSession(d)]
  BY DEF Init
<1>2. \E initial : sess[e] \in {NewSession(e, Peer(e), initial),
                                [NewSession(e, Peer(e), initial) EXCEPT !.alive = FALSE]}
  BY <1>1 DEF NoSession
<1>3. Pledge(B) /\ B.any
  BY AnythingType
<1> HIDE DEF B
<1>4. /\ Holds(sess[e], B) /\ Mail(sess[e], B) /\ sess[e].remote = Peer(e)
      /\ sess[e].state = "CLOSED"
  <2>1. PICK initial : sess[e] \in {NewSession(e, Peer(e), initial),
                                [NewSession(e, Peer(e), initial) EXCEPT !.alive = FALSE]}
    BY <1>2
  <2> DEFINE n == NewSession(e, Peer(e), initial)
  <2>2. sess[e].state = "CLOSED"
    BY <2>1 DEF NewSession
  <2>3. Unused(n, Peer(e), B) /\ Unused([n EXCEPT !.alive = FALSE], Peer(e), B)
    BY <1>3, PeerType, FreshCarries
  <2>4. sess[e] \in {n, [n EXCEPT !.alive = FALSE]}
    BY <2>1
  <2> HIDE DEF n
  <2>5. Unused(sess[e], Peer(e), B)
    BY <2>3, <2>4
  <2> QED
    BY <2>2, <2>5 DEF Unused
<1>5. NetOf(net, e, B)
  BY DEF Init, NetOf
<1> QED
  BY <1>4, <1>5 DEF Bound, Placed, B

\* In an established session, send_next_ is no further from send_unack_ than
\* send_buffer_ is long, whatever the peer acknowledges: the offset at which
\* _handle_try_send reads and the number of bytes that _handle_ack releases lie
\* in the buffer.  Hypothesis: one stack connects and the other listens.
THEOREM InflightBuffered == ASSUME ClientServer PROVE Spec => []InflightIsBuffered
<1>1. IInv /\ Basic /\ [Next]_vars => Basic'
  BY BasicStep, Parts
<1>2. Basic => InflightIsBuffered
  BY DEF Basic, Bound, Holds, Flight, Streaming, InflightIsBuffered
<1> QED
  BY <1>1, <1>2, BasicInit, InitInv, StepInv, PTL DEF Spec

-----------------------------------------------------------------------------
(* What a stack receives is its peer's stream.                             *)

\* The session q has received the stream R from a peer whose initial sequence
\* number is in J: a part of the first lim bytes, in its place.
Reads(q, R, J, lim) ==
  /\ \A x \in 1..Len(R) : R[x] = x
  /\ q.alive /\ q.state \in Opening => R = <<>>
  /\ q.alive /\ q.state \in {"SYN_RECEIVED", "ESTABLISHED"} =>
       Len(R) <= lim /\ \E j \in J : Off(j, q.recv_next) = 1 + Len(R)

\* A SYN names the initial sequence number, and data that counts from it is a
\* part of the stream.
Proper(packet, J, lim) ==
  /\ "SYN" \in packet.flags => packet.seq \in J
  /\ \A j \in J, k \in 0..lim :
       packet.payload # <<>> /\ Off(j, packet.seq) = 1 + k =>
         k + Len(packet.payload) <= lim /\ \A x \in 1..Len(packet.payload) : packet.payload[x] = k + x

\* The elements of two sequences that are joined.
LEMMA ConcatFacts ==
  ASSUME NEW x \in Seq(Byte), NEW y \in Seq(Byte)
  PROVE  /\ x \o y \in Seq(Byte) /\ Len(x \o y) = Len(x) + Len(y)
         /\ Len(x) \in Nat /\ Len(y) \in Nat
         /\ \A k \in 1..Len(x) : k \in 1..Len(x \o y) /\ (x \o y)[k] = x[k]
         /\ \A k \in 1..(Len(x) + Len(y)) :
              (x \o y)[k] = IF k <= Len(x) THEN x[k] ELSE y[k - Len(x)]
<1>1. /\ x \o y \in Seq(Byte) /\ Len(x \o y) = Len(x) + Len(y)
      /\ Len(x) \in Nat /\ Len(y) \in Nat
      /\ \A k \in 1..(Len(x) + Len(y)) :
           (x \o y)[k] = IF k <= Len(x) THEN x[k] ELSE y[k - Len(x)]
  BY ConcatProperties, LenProperties
<1>2. ASSUME NEW k \in 1..Len(x) PROVE k \in 1..Len(x \o y) /\ (x \o y)[k] = x[k]
  <2>1. k \in 1..Len(x \o y) /\ k \in 1..(Len(x) + Len(y)) /\ k <= Len(x)
    BY <1>1
  <2> QED
    BY <1>1, <2>1
<1> QED
  BY <1>1, <1>2

\* The number after x.
LEMMA OffNext == ASSUME NEW x \in Word PROVE Off(x, Plus(x, 1)) = 1
<1>1. Off(x, x) = 0 /\ 1 < SeqMod
  BY OffArith, SessionAssumption DEF Word
<1>2. Off(x, x) + 1 < SeqMod => Off(x, Plus(x, 1)) = Off(x, x) + 1
  BY OffArith
<1> QED
  BY <1>1, <1>2

\* The handlers take nothing but the peer's stream.
LEMMA ReadsFollows ==
  ASSUME NEW s, WellFormed(s), s.alive, NEW r, NEW packet \in myu_tcp_packet,
         Follows(r, s, packet), NEW d \in Seq(Byte), NEW J \in SUBSET Word,
         NEW lim \in Nat, lim + 2 < SeqMod, Reads(s, d \o s.recv_buffer, J, lim),
         s.state \in Opening \cup {"ESTABLISHED"} => Proper(packet, J, lim)
  PROVE  Reads(r, d \o r.recv_buffer, J, lim)
<1> DEFINE R == d \o s.recv_buffer
           Q == d \o r.recv_buffer
<1>1. /\ s.recv_buffer \in Seq(Byte) /\ s.recv_next \in Word /\ packet.payload \in Seq(Byte)
      /\ packet.seq \in Word
  BY DEF WellFormed, Session, myu_tcp_packet
<1>2. R \in Seq(Byte) /\ Len(R) \in Nat /\ Len(R) = Len(d) + Len(s.recv_buffer)
      /\ Len(d) \in Nat /\ Len(s.recv_buffer) \in Nat
  BY <1>1, ConcatProperties, LenProperties
<1>3. CASE Gone(r, s, packet)
  <2>1. Q = d /\ r.alive = FALSE
    BY <1>3 DEF Gone
  <2>2. \A x \in 1..Len(d) : x \in 1..Len(R) /\ R[x] = d[x]
    BY <1>1, ConcatFacts
  <2> QED
    BY <2>1, <2>2 DEF Reads
<1>4. CASE Kept(r, s, packet)
  <2>1. Q = R /\ r.alive = s.alive
    BY <1>4 DEF Kept
  <2> HIDE DEF Q, R
  <2>2. r.state \in Opening => s.state \in Opening
    BY <1>4 DEF Kept
  <2>3. r.state \in {"SYN_RECEIVED", "ESTABLISHED"} =>
          s.state \in {"SYN_RECEIVED", "ESTABLISHED"} /\ r.recv_next = s.recv_next
    BY <1>4 DEF Kept, Opening, Late
  <2>4. Reads(s, R, J, lim)
    BY DEF R
  <2>5. Reads(r, Q, J, lim)
    BY <2>1, <2>2, <2>3, <2>4 DEF Reads
  <2> QED
    BY <2>5 DEF Q
<1>5. CASE Opened(r, s, packet) \/ Joined(r, s, packet)
  <2>1. /\ Q = R /\ s.state \in {"LISTEN", "SYN_SENT"} /\ "SYN" \in packet.flags
        /\ r.recv_next = Plus(packet.seq, 1)
    BY <1>5 DEF Opened, Joined
  <2>2. R = <<>> /\ Len(R) = 0
    BY <2>1 DEF Reads, Opening
  <2>3. packet.seq \in J
    BY <2>1 DEF Proper, Opening
  <2>4. Off(packet.seq, Plus(packet.seq, 1)) = 1
    BY <1>1, OffNext
  <2> HIDE DEF Q, R
  <2>5. Reads(r, Q, J, lim)
    BY <2>1, <2>2, <2>3, <2>4 DEF Reads
  <2> QED
    BY <2>5 DEF Q
<1>6. CASE Accepted(r, s, packet)
  <2> DEFINE p == packet.payload
             k == Len(R)
  <2>1. /\ s.state = "ESTABLISHED" /\ p # <<>> /\ packet.seq = s.recv_next
        /\ r.recv_buffer = s.recv_buffer \o p
        /\ \/ r.state = "ESTABLISHED" /\ r.recv_next = Plus(s.recv_next, Len(p))
           \/ r.state = "CLOSE_WAIT"
    BY <1>6 DEF Accepted
  <2>2. k <= lim /\ \E j \in J : Off(j, s.recv_next) = 1 + k
    BY <2>1 DEF Reads
  <2>3. PICK j \in J : Off(j, s.recv_next) = 1 + k
    BY <2>2
  <2>4. k \in 0..lim
    BY <1>2, <2>2
  <2>5. k + Len(p) <= lim /\ \A x \in 1..Len(p) : p[x] = k + x
    BY <2>1, <2>3, <2>4 DEF Proper
  <2>6. Q = R \o p
    <3>1. Q = d \o (s.recv_buffer \o p)
      BY <2>1
    <3> QED
      BY <1>1, <3>1, ConcatAssoc
  <2>7. Len(p) \in Nat
    BY <1>1, LenProperties
  <2>8. /\ Len(Q) = k + Len(p)
        /\ \A x \in 1..(k + Len(p)) : Q[x] = IF x <= k THEN R[x] ELSE p[x - k]
    <3> HIDE DEF R, Q, p
    <3>1. p \in Seq(Byte)
      BY <1>1 DEF p
    <3> QED
      BY <1>2, <2>6, <3>1, ConcatFacts
  <2>9. \A x \in 1..k : R[x] = x
    BY DEF Reads
  <2> HIDE DEF Q, R, k, p
  <2>10. ASSUME NEW x \in 1..Len(Q) PROVE Q[x] = x
    <3>0. k \in Nat
      BY <2>4
    <3>1. CASE x <= k
      <4>1. x \in 1..k /\ x \in 1..(k + Len(p))
        BY <2>7, <2>8, <3>0, <3>1
      <4> QED
        BY <2>8, <2>9, <3>1, <4>1
    <3>2. CASE ~(x <= k)
      <4>1. x - k \in 1..Len(p) /\ x \in 1..(k + Len(p)) /\ k + (x - k) = x
        BY <2>7, <2>8, <3>0, <3>2
      <4> QED
        BY <2>5, <2>8, <3>2, <4>1
    <3> QED
      BY <3>1, <3>2
  <2>11. r.state = "ESTABLISHED" => Off(j, r.recv_next) = 1 + Len(Q)
    <3>1. j \in Word /\ SeqMod \in Nat
      BY SessionAssumption
    <3>2. Off(j, s.recv_next) + Len(p) < SeqMod
      BY <2>3, <2>4, <2>5, <2>7, <3>1
    <3>3. Off(j, Plus(s.recv_next, Len(p))) = Off(j, s.recv_next) + Len(p)
      BY <1>1, <2>7, <3>1, <3>2, OffArith
    <3> QED
      BY <2>1, <2>3, <2>4, <2>7, <2>8, <3>3
  <2>12. Len(Q) <= lim
    BY <2>5, <2>8
  <2>13. r.state \notin Opening
    BY <2>1 DEF Opening
  <2>14. r.state = "ESTABLISHED" \/ r.state = "CLOSE_WAIT"
    BY <2>1
  <2>15. Reads(r, Q, J, lim)
    BY <2>10, <2>11, <2>12, <2>13, <2>14 DEF Reads
  <2> QED
    BY <2>15 DEF Q
<1> QED
  BY <1>3, <1>4, <1>5, <1>6 DEF Follows

\* What the sender may have sent only grows.
LEMMA ReadsMore ==
  ASSUME NEW q, NEW R \in Seq(Byte), NEW J, NEW lim \in Int, NEW more \in Int, lim <= more,
         Reads(q, R, J, lim)
  PROVE  Reads(q, R, J, more)
<1>1. Len(R) \in Nat
  BY LenProperties
<1> QED
  BY <1>1 DEF Reads

\* Every step of a stack takes nothing but its peer's stream.
LEMMA ActsReads ==
  ASSUME SessionsOK, NetOK, RestOK, ClientServer, Basic, NEW e \in Addr, NEW r, Acts(e, r),
         NEW J \in SUBSET Word, NEW lim \in Nat, lim + 2 < SeqMod,
         Reads(sess[e], Received(e), J, lim),
         \A packet : \/ Takes(e, r, packet) /\ sess[e].state \in Opening \cup {"ESTABLISHED"}
                     \/ Begins(e, r, packet)
                     => Proper(packet, J, lim)
  PROVE  Reads(r, delivered'[e] \o r.recv_buffer, J, lim)
<1> DEFINE s == sess[e]
           d == delivered[e]
           B == Anything(Opener(e))
<1>0. /\ Pledge(B) /\ B.any = TRUE /\ B.fin = TRUE /\ B.rst = TRUE
      /\ B.syn = Word /\ B.joins = Word
  BY AnythingType
<1>1. /\ SessionInv(s) /\ WellFormed(s) /\ s.recv_buffer \in Seq(Byte) /\ d \in Seq(Byte)
      /\ Holds(s, B) /\ ISS[e] \subseteq Word
  BY ConnectionAssumption DEF SessionsOK, SessionInv, WellFormed, Session, RestOK, Basic, Bound
<1>2. Reads(s, d \o s.recv_buffer, J, lim)
  BY DEF Received
<1>3. CASE Opens(e, r)
  <2>1. PICK iss \in ISS[e] : r = connect(s, iss)
    BY <1>3 DEF Opens
  <2>2. s.alive /\ s.state = "CLOSED" /\ delivered' = delivered
    BY <1>3 DEF Opens, Unread
  <2> HIDE DEF B, s
  <2>3. r.state = "SYN_SENT" /\ r.recv_buffer = s.recv_buffer
    BY <1>0, <1>1, <2>1, <2>2, ConnectCarries
  <2> QED
    BY <1>2, <2>2, <2>3 DEF Reads, Opening
<1>4. CASE Uses(e, r)
  <2>1. s.alive
    BY <1>1, <1>4 DEF Holds, Flight, Uses
  <2>2. Steady(r, s) /\ delivered'[e] \o r.recv_buffer = Received(e)
    BY <1>0, <1>1, <1>4, <2>1, CalledCarries DEF Uses
  <2> HIDE DEF s
  <2>3. /\ r.alive /\ r.recv_next = s.recv_next
        /\ r.state \in Opening => s.state \in Opening
        /\ r.state \in {"SYN_RECEIVED", "ESTABLISHED"} => r.state = s.state
    BY <2>1, <2>2 DEF Steady, Opening
  <2>4. Reads(s, Received(e), J, lim)
    BY DEF s
  <2> QED
    BY <2>1, <2>2, <2>3, <2>4 DEF Reads
<1>5. CASE Ends(e, r)
  <2>1. r.alive = FALSE /\ r.recv_buffer = <<>> /\ delivered' = delivered
    BY <1>5, EndsCarries DEF Ends, Unread
  <2>2. delivered'[e] \o r.recv_buffer = d
    BY <1>1, <2>1
  <2>3. \A x \in 1..Len(d) : (d \o s.recv_buffer)[x] = d[x] /\ x \in 1..Len(d \o s.recv_buffer)
    BY <1>1, ConcatFacts
  <2> HIDE DEF d, s
  <2> QED
    BY <1>2, <2>1, <2>2, <2>3 DEF Reads
<1>6. ASSUME NEW packet, Takes(e, r, packet)
      PROVE  Reads(r, delivered'[e] \o r.recv_buffer, J, lim)
  <2>1. PICK iss \in ISS[e] : r = input(s, packet, iss)
    BY <1>6 DEF Takes
  <2>2. Follows(r, s, packet)
    BY <1>0, <1>1, <1>6, <2>1, TakesCarries
  <2>3. s.alive /\ packet \in myu_tcp_packet /\ delivered' = delivered
    BY <1>6 DEF Takes, HasSessionFor, Arrives, Unread
  <2>4. s.state \in Opening \cup {"ESTABLISHED"} => Proper(packet, J, lim)
    BY <1>6
  <2> HIDE DEF s, d
  <2>5. Reads(r, d \o r.recv_buffer, J, lim)
    BY <1>1, <1>2, <2>2, <2>3, <2>4, ReadsFollows
  <2> QED
    BY <2>3, <2>5 DEF d
<1>7. ASSUME NEW packet, Begins(e, r, packet)
      PROVE  Reads(r, delivered'[e] \o r.recv_buffer, J, lim)
  <2>1. PICK iss \in ISS[e], initial \in InitialSendSeq :
          r = input(listen(NewSession(e, packet.src, initial)), packet, iss)
    BY <1>7 DEF Begins
  <2> DEFINE l == listen(NewSession(e, packet.src, initial))
  <2>2. /\ Follows(r, l, packet) /\ l.recv_buffer = <<>> /\ SessionInv(l) /\ l.alive
        /\ l.state = "LISTEN"
    BY <1>0, <1>1, <1>7, <2>1, BeginsCarries
  <2>3. packet \in myu_tcp_packet
    BY <1>7 DEF Begins, Arrives
  <2>4. delivered'[e] = <<>>
    BY <1>7 DEF Begins, RestOK
  <2> HIDE DEF l
  <2> DEFINE z == <<>>
  <2>5. z \in Seq(Byte) /\ z \o l.recv_buffer = <<>>
    BY <2>2
  <2>6. Reads(l, z \o l.recv_buffer, J, lim)
    BY <2>2, <2>5 DEF Reads
  <2>7. Proper(packet, J, lim)
    BY <1>7
  <2>8. WellFormed(l)
    BY <2>2 DEF SessionInv
  <2> HIDE DEF z
  <2>9. Reads(r, z \o r.recv_buffer, J, lim)
    BY <2>2, <2>3, <2>5, <2>6, <2>7, <2>8, ReadsFollows
  <2> QED
    BY <2>4, <2>9 DEF z
<1> QED
  BY <1>3, <1>4, <1>5, <1>6, <1>7 DEF Acts

\* Data under a pledge whose numbers are those of the stream is in its place.
LEMMA DataProper ==
  ASSUME StreamAssumption, NEW d \in Addr, NEW e \in Addr, NEW b, Pledge(b), ~b.any,
         b.I \subseteq ISS[d], b.g <= MaxBytes[d], b.h <= MaxBytes[d] + 1,
         NEW packet \in myu_tcp_packet, NEW dest, PacketOK(b, dest, packet),
         "SYN" \in packet.flags => packet.seq \in ISS[e],
         NEW lim \in Nat, lim <= MaxBytes[e], d = e => lim = b.g
  PROVE  Proper(packet, ISS[e], lim)
<1> DEFINE p == packet.payload
           q == packet.seq
           n == Len(p)
           M == MaxBytes[d]
           N == MaxBytes[e]
           G == b.g
           H == b.h
<1>1. /\ M \in Nat /\ N \in Nat /\ p \in Seq(Byte) /\ q \in Word /\ n \in Nat
      /\ G \in Int /\ H \in Int /\ G <= M /\ H <= M + 1
  BY ConnectionAssumption, LenProperties DEF myu_tcp_packet, Pledge
<1>2. ISS[d] \subseteq Word /\ ISS[e] \subseteq Word
  BY ConnectionAssumption
<1>3. ASSUME NEW j \in ISS[e], NEW k \in 0..lim, p # <<>>, Off(j, q) = 1 + k
      PROVE  k + n <= lim /\ \A x \in 1..n : p[x] = k + x
  <2>1. n > 0
    BY <1>1, <1>3, EmptySeq
  <2>2. DataOK(b, q, p)
    BY <1>3 DEF PacketOK
  <2>3. PICK i \in b.I : LET l == Off(i, q) - 1
                         IN  /\ l >= 0
                             /\ \/ l + n <= G /\ \A x \in 1..n : p[x] = l + x
                                \/ G < l /\ l + n <= H
    BY <2>2 DEF DataOK
  <2> DEFINE l == Off(i, q) - 1
  <2>4. i \in ISS[d] /\ i \in Word /\ j \in Word
    BY <1>2
  <2>5. Off(i, q) \in Nat
    BY <1>1, <2>4, OffArith
  <2>6. /\ l >= 0 /\ l \in Int
        /\ \/ l + n <= G /\ \A x \in 1..n : p[x] = l + x
           \/ G < l /\ l + n <= H
    BY <2>3, <2>5
  <2>7. Off(i, q) = l + 1
    BY <2>5
  <2> HIDE DEF l, n, G, H, M, N
  <2>8. Off(i, q) <= M + 1
    BY <1>1, <2>1, <2>6, <2>7
  <2>9. Off(j, q) <= N + 1
    BY <1>1, <1>3 DEF N
  <2>10. d = e /\ i = j
    <3>1. ~(Minus(q, i) > M + 1) /\ ~(Minus(q, j) > N + 1)
      BY <1>1, <2>4, <2>5, <2>8, <2>9, OffArith DEF Off
    <3> QED
      BY <1>1, <2>4, <3>1 DEF StreamAssumption, Apart, M, N
  <2>11. l = k /\ lim = G
    BY <1>3, <2>6, <2>7, <2>10 DEF G
  <2> QED
    BY <1>1, <2>1, <2>6, <2>11
<1> QED
  BY <1>3 DEF Proper

\* The client may still open or use the connection, and has sent no FIN.
YoungSession(s) == s.alive /\ s.state \in {"CLOSED", "SYN_SENT", "ESTABLISHED"}

\* The pledge of the client: its data counts from one number, up to the marks.
ClientPledge(c, i, A, g, h, fin) ==
  [any |-> FALSE, i |-> i, A |-> A, m |-> MaxBytes[c], I |-> {i}, g |-> g, h |-> h,
   ends |-> Word, syn |-> ISS[c], joins |-> {}, open |-> {Peer(c)}, acks |-> Word,
   fin |-> fin, rst |-> TRUE]

\* The pledge of the server while the client is young: the data of each of its
\* sessions is in its place.
ServerPledge(v, i, A) ==
  [any |-> FALSE, i |-> i, A |-> A, m |-> MaxBytes[v], I |-> ISS[v],
   g |-> MaxBytes[v], h |-> MaxBytes[v], syn |-> {}, joins |-> ISS[v], open |-> {},
   acks |-> Word, ends |-> Word, fin |-> TRUE, rst |-> TRUE]

\* They are pledges.
LEMMA PledgeTypes ==
  ASSUME StreamAssumption, NEW e \in Addr, NEW i \in ISS[e], NEW A \in Nat
  PROVE  /\ Pledge(ServerPledge(e, i, A))
         /\ \A g, h \in Int : \A fin : Pledge(ClientPledge(e, i, A, g, h, fin))
<1>1. /\ i \in Word /\ MaxBytes[e] \in Nat /\ MaxBytes[e] + 2 < SeqMod
      /\ ISS[e] \subseteq Word
  BY ConnectionAssumption DEF StreamAssumption
<1> QED
  BY <1>1 DEF Pledge, ServerPledge, ClientPledge

\* Outside a connection nothing is numbered yet.
LEMMA UnnumberedHolds ==
  ASSUME NEW s, s.state \in {"CLOSED", "LISTEN"}, NEW b, NEW c, b.any = c.any,
         b.A = c.A, b.m = c.m, Holds(s, b)
  PROVE  Holds(s, c)
BY DEF Holds, Flight, Numbered, Streaming, Opening

\* The marks of the client, moved on.
LEMMA ClientGrows ==
  ASSUME StreamAssumption, NEW c \in Addr, NEW i \in ISS[c], NEW A \in Nat, NEW A2 \in Nat,
         A <= A2, NEW g \in Int, NEW h \in Int, NEW f, NEW f2, f => f2,
         NEW s, WellFormed(s), s.alive, NEW r, WellFormed(r), NEW acks, acks \subseteq Word,
         Marks(s, ClientPledge(c, i, A, g, h, f)), Mail(s, ClientPledge(c, i, A, g, h, f)),
         \A x, y \in Int : Accounts(r, s, ClientPledge(c, i, A2, x, y, f2), acks),
         Moves(r, s, ClientPledge(c, i, A2, g, h, f2))
  PROVE  \E x, y \in Int :
           LET d == ClientPledge(c, i, A2, x, y, f2)
           IN  /\ Holds(r, d) /\ Mail(r, d) /\ Marks(r, d) /\ g <= x
               /\ Grows(ClientPledge(c, i, A, g, h, f), d)
<1> DEFINE b == ClientPledge(c, i, A, g, h, f)
           a == ClientPledge(c, i, A2, g, h, f2)
           x == MarkG(r, s, a)
           y == MarkH(r, s, a)
           d == ClientPledge(c, i, A2, x, y, f2)
<1>1. Pledge(b) /\ Pledge(a)
  BY PledgeTypes
<1>2. /\ ~a.any /\ a.i = i /\ a.g = g /\ a.h = h /\ a.m = MaxBytes[c] /\ a.I = {i}
      /\ ~b.any /\ b.i = i /\ b.g = g /\ b.h = h /\ b.m = MaxBytes[c] /\ b.I = {i}
      /\ b.syn = ISS[c] /\ b.joins = {} /\ b.open = {Peer(c)} /\ b.acks = Word
      /\ b.fin = f /\ b.rst = TRUE /\ a.A = A2 /\ b.A = A
  BY DEF ClientPledge
<1>3. Holds(r, a)
  BY DEF Accounts
<1>4. Marks(s, a)
  <2>1. Marks(s, b)
    OBVIOUS
  <2>2. Top(s, a) = Top(s, b)
    BY <1>2 DEF Top
  <2> HIDE DEF a, b
  <2>3. g <= A2
    BY <1>2, <2>1 DEF Marks
  <2> QED
    BY <1>2, <2>1, <2>2, <2>3 DEF Marks
<1>5. Moves(r, s, a)
  OBVIOUS
<1> HIDE DEF a
<1>6. /\ x \in 0..a.m /\ y \in 0..(a.m + 1) /\ x >= a.g
  BY <1>1, <1>2, <1>3, <1>4, <1>5, MarksType
<1>7. x \in Int /\ y \in Int /\ g <= x
  <2>1. MaxBytes[c] \in Nat
    BY ConnectionAssumption
  <2> HIDE DEF x, y
  <2> QED
    BY <1>2, <1>6, <2>1
<1>8. /\ ~d.any /\ d.i = i /\ d.g = x /\ d.h = y /\ d.m = MaxBytes[c] /\ d.I = {i}
      /\ d.syn = ISS[c] /\ d.joins = {} /\ d.open = {Peer(c)} /\ d.acks = Word
      /\ d.fin = f2 /\ d.rst = TRUE /\ d.A = A2
  BY DEF ClientPledge
<1>9. Accounts(r, s, d, acks) /\ Pledge(d)
  BY <1>7, PledgeTypes
<1> HIDE DEF d, b
<1>10. /\ Marks(r, d) /\ Fits(r, s, d)
       /\ \/ d.g = a.g /\ a.h <= d.h
          \/ a.h <= a.g /\ a.g <= d.g
  <2>1. d.g = MarkG(r, s, a) /\ d.h = MarkH(r, s, a)
    BY <1>8
  <2>2. ~a.any /\ ~d.any /\ d.i = a.i /\ d.A = a.A /\ d.m = a.m /\ d.I = a.I
    BY <1>2, <1>8
  <2>3. Pledge(a)
    BY <1>1
  <2> HIDE DEF x, y
  <2> QED
    BY <1>3, <1>4, <1>5, <2>1, <2>2, <2>3, MarksStep
<1>11. Grows(b, d)
  BY <1>1, <1>2, <1>8, <1>9, <1>10 DEF Grows, Pledge
<1>12. Mail(s, d)
  <2>1. Mail(s, b)
    BY DEF b
  <2> QED
    BY <1>1, <1>9, <1>11, <2>1, GrowsMail
<1>13. Holds(r, d) /\ Mail(r, d)
  BY <1>8, <1>9, <1>10, <1>12 DEF Accounts
<1> QED
  BY <1>7, <1>10, <1>11, <1>13 DEF d, b

-----------------------------------------------------------------------------
(* What a step makes of the pledges.                                       *)

\* The client opens once more: nothing of its stream has been sent.
LEMMA ClientOpens ==
  ASSUME SessionsOK, RestOK, StreamAssumption, Basic, NEW c \in Addr, NEW r, Opens(c, r),
         NEW i \in ISS[c], NEW g \in Int, NEW h \in Int, NEW f,
         Bound(c, ClientPledge(c, i, accepted[c], g, h, f)),
         Marks(sess[c], ClientPledge(c, i, accepted[c], g, h, f)),
         NEW f2, f => f2
  PROVE  \E j \in ISS[c], x, y \in Int :
           LET d == ClientPledge(c, j, accepted'[c], x, y, f2)
           IN  /\ Holds(r, d) /\ Mail(r, d) /\ Marks(r, d) /\ g <= x
               /\ Grows(ClientPledge(c, i, accepted[c], g, h, f), d)
<1> DEFINE s == sess[c]
           b == ClientPledge(c, i, accepted[c], g, h, f)
<1>1. PICK iss \in ISS[c] : r = connect(s, iss)
  BY DEF Opens
<1> DEFINE d == ClientPledge(c, iss, accepted'[c], 0, 0, f2)
<1>2. /\ s.alive /\ s.state = "CLOSED" /\ c \in Connectors /\ accepted'[c] = accepted[c]
      /\ SessionInv(s) /\ WellFormed(s) /\ s.remote = Peer(c)
      /\ accepted[c] \in Nat /\ iss \in Word /\ MaxBytes[c] \in Nat
  BY ConnectionAssumption DEF Opens, Unread, SessionsOK, SessionInv, RestOK, Basic, Placed
<1>3. /\ ~d.any /\ d.any = b.any /\ d.i = iss /\ d.A = b.A /\ d.m = b.m /\ d.I = {iss} /\ d.g = 0
      /\ d.h = 0 /\ d.syn = ISS[c] /\ b.syn = ISS[c] /\ d.joins = b.joins
      /\ d.open = {Peer(c)} /\ b.open = d.open /\ d.acks = b.acks /\ b.fin = f /\ d.fin = f2
      /\ b.rst = d.rst /\ b.g = g /\ b.h = h /\ ~b.any /\ d.m = MaxBytes[c]
  BY <1>2 DEF ClientPledge
<1>4. Pledge(b) /\ Pledge(d)
  <2>1. 0 \in Int /\ accepted'[c] \in Nat
    BY <1>2
  <2> QED
    BY <1>2, <2>1, PledgeTypes
<1>5. Holds(s, b) /\ Mail(s, b) /\ Marks(s, b)
  BY DEF Bound
<1> HIDE DEF s, b, d
<1>6. g = 0 /\ h = 0
  BY <1>2, <1>3, <1>5 DEF Marks, Opening
<1>7. Grows(b, d)
  BY <1>3, <1>4, <1>6 DEF Grows, Pledge
<1>8. Mail(s, d)
  BY <1>2, <1>4, <1>5, <1>7, GrowsMail
<1>9. Holds(s, d)
  <2>1. b.any = d.any /\ b.A = d.A /\ b.m = d.m /\ s.state \in {"CLOSED", "LISTEN"}
    BY <1>2, <1>3
  <2> QED
    BY <1>5, <2>1, UnnumberedHolds
<1>10. /\ Holds(r, d) /\ r.state = "SYN_SENT"
       /\ iss \in d.syn /\ s.remote \in d.open /\ Mail(s, d) => Mail(r, d)
  BY <1>1, <1>2, <1>3, <1>4, <1>9, ConnectCarries
<1>11. Mail(r, d)
  BY <1>2, <1>3, <1>8, <1>10
<1>12. Marks(r, d)
  <2>1. 0 <= d.A
    BY <1>4 DEF Pledge
  <2> QED
    BY <1>2, <1>3, <1>10, <2>1 DEF Marks, Streaming, Crossing
<1> QED
  BY <1>6, <1>7, <1>10, <1>11, <1>12 DEF b, d

\* An erased client keeps to what it has sent.
LEMMA ClientEnds ==
  ASSUME SessionsOK, RestOK, StreamAssumption, NEW c \in Addr, NEW r, Ends(c, r),
         NEW i \in ISS[c], NEW g \in Int, NEW h \in Int, NEW f,
         Bound(c, ClientPledge(c, i, accepted[c], g, h, f)),
         Marks(sess[c], ClientPledge(c, i, accepted[c], g, h, f)),
         NEW f2, f => f2
  PROVE  LET d == ClientPledge(c, i, accepted'[c], g, h, f2)
         IN  /\ Holds(r, d) /\ Mail(r, d) /\ Marks(r, d)
             /\ Grows(ClientPledge(c, i, accepted[c], g, h, f), d)
<1> DEFINE s == sess[c]
           b == ClientPledge(c, i, accepted[c], g, h, f)
           d == ClientPledge(c, i, accepted'[c], g, h, f2)
<1>1. accepted'[c] = accepted[c] /\ accepted[c] \in Nat /\ WellFormed(s)
  BY DEF Ends, Unread, RestOK, SessionsOK, SessionInv
<1>2. /\ ~d.any /\ d.i = i /\ d.I = {i} /\ d.g = g /\ b.I = d.I /\ b.i = i /\ b.m = d.m
      /\ d.h = h /\ d.syn = b.syn /\ d.joins = b.joins
      /\ b.open = d.open /\ d.acks = b.acks /\ b.fin = f /\ d.fin = f2
      /\ b.rst = d.rst /\ b.g = g /\ b.h = h /\ ~b.any /\ d.A = b.A
  BY <1>1 DEF ClientPledge
<1>3. Pledge(b) /\ Pledge(d)
  BY <1>1, PledgeTypes
<1>4. Mail(s, b) /\ Marks(s, b)
  BY DEF Bound
<1> HIDE DEF b, d
<1>5. Holds(r, d) /\ r.state = "CLOSED" /\ r.alive = FALSE /\ (Mail(s, d) => Mail(r, d))
  BY EndsCarries
<1> HIDE DEF s
<1>6. Grows(b, d)
  BY <1>2, <1>3 DEF Grows, Pledge
<1>7. Mail(s, d)
  BY <1>1, <1>3, <1>4, <1>6, GrowsMail
<1>8. Marks(r, d)
  <2>1. /\ d.i \in d.I /\ d.g \in 0..d.m /\ d.g <= d.A /\ d.h \in 0..(d.m + 1)
    BY <1>2, <1>4 DEF Marks
  <2> QED
    BY <1>5, <2>1 DEF Marks, Streaming, Crossing
<1> QED
  BY <1>5, <1>6, <1>7, <1>8 DEF b, d

\* The client sends, reads or closes, or one of its timers expires.
LEMMA ClientUses ==
  ASSUME SessionsOK, RestOK, StreamAssumption, Basic, NEW c \in Connectors, NEW r, Uses(c, r),
         WellFormed(r), RestOK',
         NEW i \in ISS[c], NEW g \in Int, NEW h \in Int,
         Bound(c, ClientPledge(c, i, accepted[c], g, h, ~YoungSession(sess[c]))),
         Marks(sess[c], ClientPledge(c, i, accepted[c], g, h, ~YoungSession(sess[c])))
  PROVE  /\ YoungSession(r) => YoungSession(sess[c])
         /\ \E x, y \in Int :
              LET d == ClientPledge(c, i, accepted'[c], x, y, ~YoungSession(r))
              IN  /\ Holds(r, d) /\ Mail(r, d) /\ Marks(r, d) /\ g <= x
                  /\ Grows(ClientPledge(c, i, accepted[c], g, h, ~YoungSession(sess[c])), d)
<1> DEFINE s == sess[c]
           f == ~YoungSession(s)
           f2 == ~YoungSession(r)
           b == ClientPledge(c, i, accepted[c], g, h, f)
           D(x, y) == ClientPledge(c, i, accepted'[c], x, y, f2)
<1>1. /\ c \in Addr /\ accepted[c] \in Nat /\ accepted'[c] \in Nat /\ WellFormed(s)
      /\ s.recv_next \in Word
  BY ConnectionAssumption DEF RestOK, SessionsOK, SessionInv, WellFormed, Session
<1>2. /\ Holds(s, b) /\ Mail(s, b) /\ Marks(s, b) /\ Placed(c, s)
  BY <1>1 DEF Bound, Basic
<1>3. /\ ~b.any /\ b.i = i /\ b.m = MaxBytes[c] /\ b.A = accepted[c]
      /\ \A x, y : /\ ~D(x, y).any /\ D(x, y).any = b.any /\ D(x, y).i = i
                   /\ D(x, y).m = MaxBytes[c] /\ D(x, y).A = accepted'[c]
                   /\ D(x, y).fin = f2 /\ D(x, y).rst = TRUE
  BY DEF ClientPledge
<1>4. Pledge(b) /\ \A x, y \in Int : Pledge(D(x, y))
  BY <1>1, PledgeTypes
<1>5. s.alive
  BY <1>2 DEF Holds, Flight, Uses
<1>6. Called(c, r)
  BY DEF Uses
<1> HIDE DEF D, b, s
<1>7. r.state \notin Opening \cup {"ESTABLISHED"} => f2
  BY DEF YoungSession, Opening
<1> HIDE DEF f, f2
<1>8. ASSUME NEW x \in Int, NEW y \in Int
      PROVE  /\ Accounts(r, s, D(x, y), {s.recv_next}) /\ Steady(r, s)
             /\ Closes(r, s, D(x, y))
  <2> DEFINE d == D(x, y)
  <2>1. Pledge(d) /\ ~d.any /\ d.any = b.any /\ d.i = b.i /\ d.m = b.m /\ d.A = accepted'[c]
        /\ d.m = MaxBytes[c] /\ d.rst /\ d.fin = f2
    BY <1>3, <1>4
  <2> HIDE DEF d
  <2>2. Accounts(r, s, d, {s.recv_next}) /\ Steady(r, s) /\ Closes(r, s, d)
    BY <1>1, <1>2, <1>3, <1>4, <1>5, <1>6, <1>7, <2>1, CalledCarries DEF s
  <2> QED
    BY <2>2 DEF d
<1>9. Steady(r, s)
  BY <1>8
<1>10. Moves(r, s, D(g, h))
  BY <1>3, <1>8, SteadyGoes
<1>11. YoungSession(r) => YoungSession(s)
  BY <1>2, <1>9 DEF YoungSession, Steady, Placed
<1>12. f => f2
  BY <1>11 DEF f, f2
<1>13. \A x, y \in Int : Accounts(r, s, ClientPledge(c, i, accepted'[c], x, y, f2), {s.recv_next})
  BY <1>8 DEF D
<1>14. Moves(r, s, ClientPledge(c, i, accepted'[c], g, h, f2))
  BY <1>10 DEF D
<1>15. /\ Marks(s, ClientPledge(c, i, accepted[c], g, h, f))
       /\ Mail(s, ClientPledge(c, i, accepted[c], g, h, f)) /\ accepted[c] <= accepted'[c]
  BY <1>1, <1>2, <1>6, CallWrites DEF b
<1>16. {s.recv_next} \subseteq Word
  BY <1>1
<1>17. \E x, y \in Int :
              LET d == ClientPledge(c, i, accepted'[c], x, y, f2)
              IN  /\ Holds(r, d) /\ Mail(r, d) /\ Marks(r, d) /\ g <= x
                  /\ Grows(ClientPledge(c, i, accepted[c], g, h, f), d)
  BY <1>1, <1>5, <1>12, <1>13, <1>14, <1>15, <1>16, ClientGrows
<1> QED
  BY <1>11, <1>17 DEF f, f2, s

\* A packet reaches the client.
LEMMA ClientTakes ==
  ASSUME SessionsOK, RestOK, StreamAssumption, Basic, NEW c \in Connectors, NEW r, NEW packet,
         Takes(c, r, packet), WellFormed(r), RestOK',
         NEW i \in ISS[c], NEW g \in Int, NEW h \in Int,
         Bound(c, ClientPledge(c, i, accepted[c], g, h, ~YoungSession(sess[c]))),
         Marks(sess[c], ClientPledge(c, i, accepted[c], g, h, ~YoungSession(sess[c])))
  PROVE  /\ YoungSession(r) => YoungSession(sess[c])
         /\ \E x, y \in Int :
              LET d == ClientPledge(c, i, accepted'[c], x, y, ~YoungSession(r))
              IN  /\ Holds(r, d) /\ Mail(r, d) /\ Marks(r, d) /\ g <= x
                  /\ Grows(ClientPledge(c, i, accepted[c], g, h, ~YoungSession(sess[c])), d)
<1> DEFINE s == sess[c]
           f == ~YoungSession(s)
           f2 == ~YoungSession(r)
           b == ClientPledge(c, i, accepted[c], g, h, f)
           D(x, y) == ClientPledge(c, i, accepted'[c], x, y, f2)
           B == Anything(Opener(c))
<1>1. /\ c \in Addr /\ accepted[c] \in Nat /\ accepted' = accepted /\ WellFormed(s)
      /\ s.recv_next \in Word /\ r.recv_next \in Word /\ s.alive
  BY ConnectionAssumption
     DEF RestOK, SessionsOK, SessionInv, WellFormed, Session, Takes, Unread, HasSessionFor
<1>2. /\ Holds(s, b) /\ Mail(s, b) /\ Marks(s, b) /\ Placed(c, s) /\ Holds(s, B)
  BY <1>1 DEF Bound, Basic
<1>3. /\ ~b.any /\ b.i = i /\ b.m = MaxBytes[c] /\ b.A = accepted[c]
      /\ \A x, y : /\ ~D(x, y).any /\ D(x, y).any = b.any /\ D(x, y).i = i
                   /\ D(x, y).m = MaxBytes[c] /\ D(x, y).A = accepted[c]
                   /\ D(x, y).fin = f2
  BY <1>1 DEF ClientPledge
<1>4. Pledge(b) /\ \A x, y \in Int : Pledge(D(x, y))
  BY <1>1, PledgeTypes
<1>5. PICK iss \in ISS[c] : r = input(s, packet, iss)
  BY DEF Takes
<1>6. s.state # "LISTEN"
  BY <1>2 DEF Placed
<1>7. Pledge(B) /\ B.fin = TRUE /\ ClientServer
  BY <1>1, AnythingType DEF StreamAssumption
<1> HIDE DEF B
<1>8. Follows(r, s, packet)
  BY <1>1, <1>2, <1>5, <1>6, <1>7, TakesCarries
<1> HIDE DEF D, b, s
<1>9. YoungSession(r) => YoungSession(s)
  BY <1>2, <1>8 DEF YoungSession, Follows, Gone, Kept, Opened, Joined, Accepted, Placed, Opening
<1>10. s.state = "CLOSE_WAIT" => f
  BY DEF YoungSession
<1>11. f => f2
  BY <1>9
<1> HIDE DEF f, f2
<1> DEFINE acks == Acks(r, s, packet)
<1>12. ASSUME NEW x \in Int, NEW y \in Int
       PROVE  Accounts(r, s, D(x, y), acks)
  <2> DEFINE d == D(x, y)
  <2>1. Pledge(d) /\ d.any = b.any /\ d.i = b.i /\ d.m = b.m /\ d.A = b.A /\ d.fin = f2
    BY <1>3, <1>4
  <2> HIDE DEF d
  <2>2. Holds(s, d)
    BY <1>2, <2>1, SamePledge
  <2>3. s.state = "CLOSE_WAIT" => d.fin
    BY <1>10, <1>11, <2>1
  <2>4. Accounts(r, s, d, acks)
    BY <1>1, <1>5, <1>6, <1>7, <2>1, <2>2, <2>3, TakesCarries DEF s
  <2> QED
    BY <2>4 DEF d
<1>13. acks \subseteq Word
  BY <1>1 DEF Acks
<1> HIDE DEF acks
<1>14. Moves(r, s, D(g, h))
  BY <1>1, <1>3, <1>8, <1>12, InputGoes
<1>15. \A x, y \in Int : Accounts(r, s, ClientPledge(c, i, accepted'[c], x, y, f2), acks)
  BY <1>12 DEF D
<1>16. Moves(r, s, ClientPledge(c, i, accepted'[c], g, h, f2))
  BY <1>14 DEF D
<1>17. Marks(s, ClientPledge(c, i, accepted[c], g, h, f)) /\ Mail(s, ClientPledge(c, i, accepted[c], g, h, f))
  BY <1>2 DEF b
<1>18. accepted'[c] \in Nat /\ accepted[c] <= accepted'[c]
  BY <1>1
<1>19. \E x, y \in Int :
              LET d == ClientPledge(c, i, accepted'[c], x, y, f2)
              IN  /\ Holds(r, d) /\ Mail(r, d) /\ Marks(r, d) /\ g <= x
                  /\ Grows(ClientPledge(c, i, accepted[c], g, h, f), d)
  BY <1>1, <1>11, <1>13, <1>15, <1>16, <1>17, <1>18, ClientGrows
<1> QED
  BY <1>9, <1>19 DEF f, f2, s

\* Whatever the client does, it keeps to a pledge that has grown.
LEMMA ClientActs ==
  ASSUME SessionsOK, RestOK, StreamAssumption, Basic, NEW c \in Connectors, NEW r, Acts(c, r),
         RestOK', NEW i \in ISS[c], NEW g \in Int, NEW h \in Int,
         Bound(c, ClientPledge(c, i, accepted[c], g, h, ~YoungSession(sess[c]))),
         Marks(sess[c], ClientPledge(c, i, accepted[c], g, h, ~YoungSession(sess[c])))
  PROVE  /\ YoungSession(r) => YoungSession(sess[c])
         /\ \E j \in ISS[c], x, y \in Int :
              LET d == ClientPledge(c, j, accepted'[c], x, y, ~YoungSession(r))
              IN  /\ Holds(r, d) /\ Mail(r, d) /\ Marks(r, d) /\ g <= x
                  /\ Grows(ClientPledge(c, i, accepted[c], g, h, ~YoungSession(sess[c])), d)
<1> DEFINE s == sess[c]
           f == ~YoungSession(s)
           f2 == ~YoungSession(r)
           b == ClientPledge(c, i, accepted[c], g, h, f)
<1>1. c \in Addr /\ WellFormed(r) /\ g <= g
  BY ConnectionAssumption DEF Acts, Commits, SessionInv
<1>2. CASE Opens(c, r)
  <2>1. YoungSession(s)
    BY <1>2 DEF Opens, YoungSession
  <2> HIDE DEF f2
  <2>2. f => f2
    BY <2>1
  <2>3. /\ Bound(c, ClientPledge(c, i, accepted[c], g, h, f))
        /\ Marks(s, ClientPledge(c, i, accepted[c], g, h, f))
    OBVIOUS
  <2> HIDE DEF f
  <2>4. \E j \in ISS[c], x, y \in Int :
           LET d == ClientPledge(c, j, accepted'[c], x, y, f2)
           IN  /\ Holds(r, d) /\ Mail(r, d) /\ Marks(r, d) /\ g <= x
               /\ Grows(ClientPledge(c, i, accepted[c], g, h, f), d)
    BY <1>1, <1>2, <2>2, <2>3, ClientOpens
  <2> QED
    BY <2>1, <2>4 DEF f, f2
<1>3. CASE Ends(c, r)
  <2>1. ~YoungSession(r)
    BY <1>3, EndsCarries, <1>1 DEF YoungSession
  <2>2. f => f2
    BY <2>1
  <2> DEFINE d == ClientPledge(c, i, accepted'[c], g, h, f2)
  <2> HIDE DEF f2
  <2>3. Holds(r, d) /\ Mail(r, d) /\ Marks(r, d) /\ Grows(b, d)
    BY <1>1, <1>3, <2>2, ClientEnds
  <2> QED
    BY <1>1, <2>1, <2>3 DEF f2
<1>4. CASE Uses(c, r)
  BY <1>1, <1>4, ClientUses
<1>5. CASE \E packet : Takes(c, r, packet)
  <2>1. PICK packet : Takes(c, r, packet)
    BY <1>5
  <2> QED
    BY <1>1, <2>1, ClientTakes
<1>6. CASE \E packet : Begins(c, r, packet)
  BY <1>6 DEF Begins, Listeners
<1> QED
  BY <1>2, <1>3, <1>4, <1>5, <1>6 DEF Acts

\* A server whose client is young sends every byte at its number.
LEMMA ServerFits ==
  ASSUME NEW r, WellFormed(r), NEW s, s.state \notin Late, NEW b, Pledge(b), ~b.any,
         b.i \in b.I, b.g = b.m, Holds(r, b)
  PROVE  Fits(r, s, b)
<1>1. Flight(r) /\ Numbered(r, b)
  BY DEF Holds
<1>2. Streaming(r) => r.alive
  BY <1>1 DEF Flight, Streaming
<1>3. Streaming(r) => Top(r, b) <= b.g
  <2>1. Streaming(r) => Top(r, b) <= b.A /\ b.A <= b.m
    BY <1>1, <1>2, StreamingNumbers
  <2>2. Top(r, b) \in Int /\ b.A \in Nat /\ b.m \in Nat
    BY NumberFacts DEF Top
  <2> QED
    BY <2>1, <2>2
<1>4. r.state = "FIN_WAIT_1" => Top(r, b) <= b.g + 1
  <2>1. r.state = "FIN_WAIT_1" => Off(b.i, r.send_next) <= b.A + 2 /\ b.A <= b.m
    BY <1>1 DEF Flight, Numbered
  <2>2. Off(b.i, r.send_next) \in Nat /\ b.A \in Nat /\ b.m \in Nat
    BY NumberFacts
  <2> QED
    BY <2>1, <2>2 DEF Top
<1>5. s.state # "CLOSE_WAIT"
  BY DEF Late
<1> QED
  BY <1>3, <1>4, <1>5 DEF Fits

\* So it keeps to its pledge if it accounts for its numbers.
LEMMA ServerKeeps ==
  ASSUME StreamAssumption, NEW v \in Addr, NEW j \in ISS[v], NEW A \in Nat, NEW r, NEW s,
         NEW acks, Accounts(r, s, ServerPledge(v, j, A), acks), acks \subseteq Word,
         WellFormed(r), s.state \notin Late, Mail(s, ServerPledge(v, j, A))
  PROVE  Holds(r, ServerPledge(v, j, A)) /\ Mail(r, ServerPledge(v, j, A))
<1> DEFINE d == ServerPledge(v, j, A)
<1>1. Pledge(d)
  BY PledgeTypes
<1>2. ~d.any /\ d.i \in d.I /\ d.g = d.m /\ d.acks = Word
  BY DEF ServerPledge
<1> HIDE DEF d
<1>3. Holds(r, d)
  BY DEF Accounts, d
<1>4. Fits(r, s, d)
  BY <1>1, <1>2, <1>3, ServerFits
<1>5. Accounts(r, s, d, acks) /\ Mail(s, d)
  BY DEF d
<1>6. Mail(r, d)
  BY <1>2, <1>4, <1>5 DEF Accounts
<1> QED
  BY <1>3, <1>6 DEF d

\* The pledge of the server grows with the bytes that it accepts.
LEMMA ServerGrows ==
  ASSUME StreamAssumption, NEW v \in Addr, NEW i \in ISS[v], NEW A \in Nat,
         NEW j \in ISS[v], NEW A2 \in Nat
  PROVE  /\ Grows(ServerPledge(v, i, A), ServerPledge(v, j, A2))
         /\ \A s : WellFormed(s) /\ Mail(s, ServerPledge(v, i, A)) => Mail(s, ServerPledge(v, j, A2))
<1> DEFINE b == ServerPledge(v, i, A)
           d == ServerPledge(v, j, A2)
<1>1. Pledge(b) /\ Pledge(d)
  BY PledgeTypes
<1>2. Grows(b, d)
  <2>1. MaxBytes[v] \in Nat
    BY ConnectionAssumption
  <2>2. /\ b.syn = d.syn /\ b.open = d.open /\ b.joins = d.joins /\ b.acks = d.acks
        /\ b.fin = d.fin /\ b.rst = d.rst /\ ~b.any /\ b.I = d.I /\ d.g = b.g /\ b.h = d.h
        /\ b.h = MaxBytes[v]
    BY DEF ServerPledge
  <2> HIDE DEF b, d
  <2> QED
    BY <1>1, <2>1, <2>2 DEF Grows, Pledge
<1> HIDE DEF b, d
<1>3. \A s : WellFormed(s) /\ Mail(s, b) => Mail(s, d)
  BY <1>1, <1>2, GrowsMail
<1> QED
  BY <1>2, <1>3 DEF b, d

\* Whatever the server does while its client is young, it keeps to a pledge.
LEMMA ServerActs ==
  ASSUME SessionsOK, RestOK, StreamAssumption, Basic, NEW v \in Listeners, NEW r, Acts(v, r),
         RestOK', NEW i \in ISS[v], Bound(v, ServerPledge(v, i, accepted[v])),
         sess[v].state \notin Late,
         \A packet : Takes(v, r, packet) \/ Begins(v, r, packet) => "FIN" \notin packet.flags
  PROVE  /\ r.state \notin Late
         /\ \E j \in ISS[v] :
              LET d == ServerPledge(v, j, accepted'[v])
              IN  /\ Holds(r, d) /\ Mail(r, d)
                  /\ Grows(ServerPledge(v, i, accepted[v]), d)
<1> DEFINE s == sess[v]
           b == ServerPledge(v, i, accepted[v])
           D(j) == ServerPledge(v, j, accepted'[v])
<1>1. /\ v \in Addr /\ accepted[v] \in Nat /\ accepted'[v] \in Nat /\ WellFormed(s)
      /\ WellFormed(r) /\ s.recv_next \in Word /\ r.recv_next \in Word
      /\ v \notin Connectors
  <2>1. v \in Addr /\ v \notin Connectors
    BY DEF Listeners
  <2>2. accepted[v] \in Nat /\ accepted'[v] \in Nat
    BY <2>1 DEF RestOK
  <2>3. WellFormed(s) /\ WellFormed(r)
    BY <2>1 DEF SessionsOK, SessionInv, Acts, Commits
  <2> QED
    BY <2>1, <2>2, <2>3 DEF WellFormed, Session
<1>2. Holds(s, b) /\ Mail(s, b)
  BY DEF Bound
<1>3. /\ ~b.any /\ b.i = i /\ b.m = MaxBytes[v] /\ b.A = accepted[v]
      /\ \A j : /\ ~D(j).any /\ D(j).any = b.any /\ D(j).i = j /\ D(j).m = MaxBytes[v]
                /\ D(j).A = accepted'[v] /\ D(j).fin = TRUE /\ D(j).rst = TRUE
                /\ D(j).joins = ISS[v]
  BY DEF ServerPledge
<1>4. Pledge(b) /\ \A j \in ISS[v] : Pledge(D(j))
  BY <1>1, PledgeTypes
<1>5. \A j \in ISS[v] : Grows(b, D(j)) /\ (\A q : WellFormed(q) /\ Mail(q, b) => Mail(q, D(j)))
  BY <1>1, ServerGrows
<1> HIDE DEF b
<1>6. ASSUME NEW j \in ISS[v], NEW q, NEW acks, Accounts(r, q, D(j), acks), acks \subseteq Word,
             q.state \notin Late, Mail(q, D(j))
      PROVE  Holds(r, D(j)) /\ Mail(r, D(j))
  BY <1>1, <1>6, ServerKeeps
<1> HIDE DEF D
<1>7. ASSUME r.state \notin Late, NEW j \in ISS[v], Holds(r, D(j)), Mail(r, D(j))
      PROVE  r.state \notin Late /\ \E k \in ISS[v] : Holds(r, D(k)) /\ Mail(r, D(k)) /\ Grows(b, D(k))
  BY <1>5, <1>7
<1>8. ASSUME Uses(v, r)
      PROVE  r.state \notin Late /\ \E k \in ISS[v] : Holds(r, D(k)) /\ Mail(r, D(k)) /\ Grows(b, D(k))
  <2>1. s.alive /\ Called(v, r)
    BY <1>2, <1>8 DEF Holds, Flight, Uses
  <2> DEFINE d == D(i)
  <2>2. /\ Pledge(d) /\ ~d.any /\ d.any = b.any /\ d.i = b.i /\ d.m = b.m /\ d.A = accepted'[v]
        /\ d.m = MaxBytes[v] /\ d.rst /\ d.fin
    BY <1>3, <1>4
  <2>3. Mail(s, d)
    BY <1>1, <1>2, <1>5
  <2> HIDE DEF d
  <2>4. Accounts(r, s, d, {s.recv_next}) /\ Steady(r, s)
    BY <1>1, <1>2, <1>3, <1>4, <2>1, <2>2, CalledCarries
  <2>5. r.state \notin Late
    BY <2>4 DEF Steady, Late
  <2>6. {s.recv_next} \subseteq Word
    BY <1>1
  <2> HIDE DEF s
  <2>7. Holds(r, D(i)) /\ Mail(r, D(i))
    BY <1>6, <2>3, <2>4, <2>6 DEF d, s
  <2> QED
    BY <1>7, <2>5, <2>7
<1>9. ASSUME Ends(v, r)
      PROVE  r.state \notin Late /\ \E k \in ISS[v] : Holds(r, D(k)) /\ Mail(r, D(k)) /\ Grows(b, D(k))
  <2>1. Holds(r, D(i)) /\ r.state = "CLOSED" /\ (Mail(s, D(i)) => Mail(r, D(i)))
    BY <1>1, <1>9, EndsCarries
  <2>2. Mail(s, D(i)) /\ r.state \notin Late
    BY <1>1, <1>2, <1>5, <2>1 DEF Late
  <2> QED
    BY <1>7, <2>1, <2>2
<1>10. ASSUME NEW packet, Takes(v, r, packet)
       PROVE  r.state \notin Late /\ \E k \in ISS[v] : Holds(r, D(k)) /\ Mail(r, D(k)) /\ Grows(b, D(k))
  <2>1. PICK iss \in ISS[v] : r = input(s, packet, iss)
    BY <1>10 DEF Takes
  <2> DEFINE j == IF s.state = "LISTEN" THEN iss ELSE i
             d == D(j)
             acks == Acks(r, s, packet)
  <2>2. j \in ISS[v] /\ (s.state = "LISTEN" => j = iss) /\ (s.state # "LISTEN" => j = i)
    OBVIOUS
  <2> HIDE DEF j
  <2>3. /\ Pledge(d) /\ d.any = b.any /\ d.i = j /\ d.m = b.m /\ d.A = b.A /\ d.fin
        /\ d.joins = ISS[v]
    BY <1>3, <1>4, <1>10, <2>2 DEF Takes, Unread
  <2>4. Mail(s, d)
    BY <1>1, <1>2, <1>5, <2>2
  <2> HIDE DEF d
  <2>5. Holds(s, d)
    <3>1. CASE s.state = "LISTEN"
      <4>1. b.any = d.any /\ b.A = d.A /\ b.m = d.m /\ s.state \in {"CLOSED", "LISTEN"}
        BY <2>3, <3>1
      <4> QED
        BY <1>2, <4>1, UnnumberedHolds
    <3>2. CASE s.state # "LISTEN"
      <4>1. d.any = b.any /\ d.A = b.A /\ d.m = b.m /\ d.i = b.i
        BY <1>3, <2>2, <2>3, <3>2
      <4> QED
        BY <1>2, <4>1, SamePledge
    <3> QED
      BY <3>1, <3>2
  <2>6. /\ s.state = "CLOSE_WAIT" => d.fin
        /\ s.state = "LISTEN" => iss \in d.joins /\ (d.any \/ iss = d.i)
        /\ ClientServer
    BY <2>2, <2>3 DEF StreamAssumption
  <2>7. Accounts(r, s, d, acks) /\ Follows(r, s, packet)
    BY <1>1, <1>10, <2>1, <2>3, <2>5, <2>6, TakesCarries
  <2>8. acks \subseteq Word
    BY <1>1 DEF Acks
  <2> HIDE DEF acks, s
  <2>9. Holds(r, D(j)) /\ Mail(r, D(j))
    BY <1>6, <2>2, <2>4, <2>7, <2>8 DEF d, s
  <2>10. "FIN" \notin packet.flags /\ s.state \notin Late
    BY <1>10 DEF s
  <2>11. r.state \notin Late
    BY <2>7, <2>10 DEF Follows, Gone, Kept, Opened, Joined, Accepted, Late
  <2> QED
    BY <1>7, <2>2, <2>9, <2>11
<1>11. ASSUME NEW packet, Begins(v, r, packet)
       PROVE  r.state \notin Late /\ \E k \in ISS[v] : Holds(r, D(k)) /\ Mail(r, D(k)) /\ Grows(b, D(k))
  <2>1. PICK iss \in ISS[v], initial \in InitialSendSeq :
          r = input(listen(NewSession(v, packet.src, initial)), packet, iss)
    BY <1>11 DEF Begins
  <2> DEFINE l == listen(NewSession(v, packet.src, initial))
             d == D(iss)
             acks == Acks(r, l, packet)
  <2>2. accepted'[v] = 0
    BY <1>1, <1>11 DEF Begins, RestOK
  <2>3. Pledge(d) /\ d.A = 0 /\ d.i = iss /\ iss \in d.joins
    BY <1>3, <1>4, <2>2
  <2> HIDE DEF d
  <2>4. /\ Accounts(r, l, d, acks) /\ Follows(r, l, packet) /\ Mail(l, d)
        /\ SessionInv(l) /\ l.state = "LISTEN"
    BY <1>1, <1>11, <2>1, <2>3, BeginsCarries DEF StreamAssumption
  <2> HIDE DEF l
  <2>5. l.recv_next \in Word
    BY <2>4 DEF SessionInv, WellFormed, Session
  <2>6. acks \subseteq Word
    BY <1>1, <2>5 DEF Acks
  <2> HIDE DEF acks
  <2>7. l.state \notin Late
    BY <2>4 DEF Late
  <2>8. Holds(r, D(iss)) /\ Mail(r, D(iss))
    BY <1>6, <2>4, <2>6, <2>7 DEF d
  <2>9. "FIN" \notin packet.flags
    BY <1>11
  <2>10. r.state \notin Late
    BY <2>4, <2>7, <2>9 DEF Follows, Gone, Kept, Opened, Joined, Accepted, Late
  <2> QED
    BY <1>7, <2>8, <2>10
<1>12. ~Opens(v, r)
  BY <1>1 DEF Opens
<1>13. r.state \notin Late /\ \E k \in ISS[v] : Holds(r, D(k)) /\ Mail(r, D(k)) /\ Grows(b, D(k))
  BY <1>8, <1>9, <1>10, <1>11, <1>12 DEF Acts
<1> QED
  BY <1>13 DEF D, b

\* The client keeps to a pledge, and the server has received a part of the bytes
\* that it allows.
ClientSends(c) ==
  \E i \in ISS[c], g, h \in Int :
    LET b == ClientPledge(c, i, accepted[c], g, h, ~YoungSession(sess[c]))
    IN  /\ Bound(c, b) /\ Marks(sess[c], b)
        /\ Reads(sess[Peer(c)], Received(Peer(c)), ISS[c], g)

\* While the client is young, the server keeps to a pledge and has seen no FIN.
ServerSends(v) ==
  YoungSession(sess[Peer(v)]) =>
    /\ sess[v].state \notin Late
    /\ \E i \in ISS[v] : Bound(v, ServerPledge(v, i, accepted[v]))

\* Both have received a part of the other's stream.
Streams ==
  \A c \in Connectors :
    /\ ClientSends(c) /\ ServerSends(Peer(c))
    /\ Reads(sess[c], Received(c), ISS[Peer(c)], MaxBytes[Peer(c)])

\* The client and the server, and what is known of their streams.
LEMMA StreamFacts ==
  ASSUME StreamAssumption, NEW c \in Connectors
  PROVE  /\ c \in Addr /\ Peer(c) \in Addr /\ Peer(c) # c /\ Peer(Peer(c)) = c
         /\ Connectors = {c} /\ Listeners = {Peer(c)} /\ (\A d \in Addr : d = c \/ d = Peer(c))
         /\ ClientServer
         /\ \A e \in Addr : /\ ISS[e] \in SUBSET Word /\ ISS[e] # {}
                            /\ MaxBytes[e] \in Nat /\ MaxBytes[e] + 2 < SeqMod
<1>1. c \in Addr /\ Connectors = {c} /\ ClientServer
  BY ConnectionAssumption DEF StreamAssumption, ClientServer
<1>2. /\ Peer(c) \in Addr /\ Peer(c) # c /\ Peer(Peer(c)) = c
      /\ (\A d \in Addr : d = c \/ d = Peer(c))
  BY <1>1, PeerFacts
<1>3. Listeners = {Peer(c)}
  BY <1>1, <1>2 DEF Listeners
<1>4. \A e \in Addr : /\ ISS[e] \in SUBSET Word /\ ISS[e] # {}
                      /\ MaxBytes[e] \in Nat /\ MaxBytes[e] + 2 < SeqMod
  BY ConnectionAssumption DEF StreamAssumption
<1> QED
  BY <1>1, <1>2, <1>3, <1>4

\* What the client sends to the server is a part of its stream.
LEMMA ClientProper ==
  ASSUME StreamAssumption, NEW c \in Connectors, NEW i \in ISS[c], NEW A \in Nat,
         NEW g \in Int, NEW h \in Int, NEW f,
         g \in 0..MaxBytes[c], h \in 0..(MaxBytes[c] + 1),
         NEW packet \in myu_tcp_packet, NEW dest,
         PacketOK(ClientPledge(c, i, A, g, h, f), dest, packet)
  PROVE  /\ Proper(packet, ISS[c], g) /\ ("FIN" \in packet.flags => f)
         /\ dest = c => Proper(packet, ISS[Peer(c)], MaxBytes[Peer(c)])
<1> DEFINE b == ClientPledge(c, i, A, g, h, f)
<1>1. /\ ~b.any /\ b.I = {i} /\ b.g = g /\ b.h = h /\ b.syn = ISS[c] /\ b.joins = {}
      /\ b.open = {Peer(c)} /\ b.fin = f
  BY DEF ClientPledge
<1>2. Pledge(b) /\ c \in Addr /\ Peer(c) \in Addr /\ c # Peer(c)
  BY PledgeTypes, StreamFacts
<1>3. PacketOK(b, dest, packet)
  OBVIOUS
<1>4. /\ b.I \subseteq ISS[c] /\ b.g <= MaxBytes[c] /\ b.h <= MaxBytes[c] + 1
      /\ g \in Nat /\ g <= MaxBytes[c] /\ MaxBytes[Peer(c)] \in Nat
      /\ MaxBytes[Peer(c)] <= MaxBytes[Peer(c)]
  BY <1>1, <1>2, StreamFacts
<1> HIDE DEF b
<1>5. "FIN" \in packet.flags => f
  BY <1>1, <1>3 DEF PacketOK
<1>6. "SYN" \in packet.flags => packet.seq \in ISS[c] /\ dest # c
  BY <1>1, <1>2, <1>3 DEF PacketOK
<1>7. Proper(packet, ISS[c], g)
  BY <1>1, <1>2, <1>3, <1>4, <1>6, DataProper
<1>8. dest = c => Proper(packet, ISS[Peer(c)], MaxBytes[Peer(c)])
  BY <1>1, <1>2, <1>3, <1>4, <1>6, DataProper
<1> QED
  BY <1>5, <1>7, <1>8

\* What the server sends while its client is young is a part of its stream.
LEMMA ServerProper ==
  ASSUME StreamAssumption, NEW v \in Addr, NEW i \in ISS[v], NEW A \in Nat,
         NEW packet \in myu_tcp_packet, NEW dest, PacketOK(ServerPledge(v, i, A), dest, packet)
  PROVE  Proper(packet, ISS[v], MaxBytes[v])
<1> DEFINE b == ServerPledge(v, i, A)
<1>1. /\ ~b.any /\ b.I = ISS[v] /\ b.g = MaxBytes[v] /\ b.h = MaxBytes[v] /\ b.syn = {}
      /\ b.joins = ISS[v]
  BY DEF ServerPledge
<1>2. Pledge(b) /\ MaxBytes[v] \in Nat
  BY ConnectionAssumption, PledgeTypes
<1>3. PacketOK(b, dest, packet)
  OBVIOUS
<1>4. /\ b.I \subseteq ISS[v] /\ b.g <= MaxBytes[v] /\ b.h <= MaxBytes[v] + 1
      /\ MaxBytes[v] <= MaxBytes[v] /\ b.g = MaxBytes[v]
  BY <1>1, <1>2
<1> HIDE DEF b
<1>5. "SYN" \in packet.flags => packet.seq \in ISS[v]
  BY <1>1, <1>3 DEF PacketOK
<1> QED
  BY <1>1, <1>2, <1>3, <1>4, <1>5, DataProper

\* What a step of one stack leaves to the other.
LEMMA ActsRest ==
  ASSUME SessionsOK, RestOK, NEW e \in Addr, NEW r, Acts(e, r), NEW d \in Addr \ {e}
  PROVE  accepted'[d] = accepted[d] /\ delivered'[d] = delivered[d]
BY DEF Acts, Opens, Uses, Called, Ends, Takes, Begins, Unread, RestOK

\* What of the session a commit leaves as it is.
LEMMA ActsSession ==
  ASSUME SessionsOK, NEW e \in Addr, NEW r, WellFormed(r), NEW q,
         q = [r EXCEPT !.out = NothingSent]
  PROVE  /\ YoungSession(q) <=> YoungSession(r)
         /\ q.state = r.state
         /\ \A b : Marks(r, b) <=> Marks(q, b)
         /\ \A R, J, lim : Reads(r, R, J, lim) <=> Reads(q, R, J, lim)
         /\ q.recv_buffer = r.recv_buffer
<1>1. /\ q.alive = r.alive /\ q.state = r.state /\ q.recv_next = r.recv_next
      /\ q.recv_buffer = r.recv_buffer /\ \A b : Marks(r, b) <=> Marks(q, b)
  BY OutKept DEF SameNumbers
<1> QED
  BY <1>1 DEF YoungSession, Reads

\* What the server takes comes from the client.
LEMMA ServerTakes ==
  ASSUME StreamAssumption, Basic, NEW c \in Connectors, NEW r, NEW packet,
         Takes(Peer(c), r, packet) \/ Begins(Peer(c), r, packet)
  PROVE  packet.src = c /\ Arrives(Peer(c), packet) /\ packet \in myu_tcp_packet
<1> DEFINE v == Peer(c)
<1>1. v \in Addr /\ v \notin Connectors /\ Peer(v) = c
  BY StreamFacts
<1>2. CASE Takes(v, r, packet)
  <2>1. packet.src = sess[v].remote
    BY <1>1, <1>2 DEF Takes, HasSessionFor
  <2>2. sess[v].remote = c
    BY <1>1 DEF Basic, Placed
  <2> QED
    BY <1>2, <2>1, <2>2 DEF Takes, Arrives
<1>3. CASE Begins(v, r, packet)
  <2>1. packet.src = Peer(v)
    BY <1>1, <1>3, SynArrives DEF Begins
  <2> QED
    BY <1>1, <1>3, <2>1 DEF Begins, Arrives
<1> QED
  BY <1>2, <1>3

\* A step of the client.
LEMMA ClientStep ==
  ASSUME SessionsOK, NetOK, RestOK, StreamAssumption, Basic, Streams, RestOK',
         NEW c \in Connectors, NEW r, Acts(c, r)
  PROVE  Streams'
<1> DEFINE v == Peer(c)
           q == sess'[c]
           f == ~YoungSession(sess[c])
<1>1. /\ c \in Addr /\ v \in Addr /\ v # c /\ Connectors = {c} /\ ClientServer
      /\ ISS[v] \in SUBSET Word /\ ISS[c] \in SUBSET Word /\ MaxBytes[v] \in Nat
      /\ MaxBytes[v] + 2 < SeqMod /\ MaxBytes[c] \in Nat /\ Peer(v) = c
  BY StreamFacts
<1>2. PICK i \in ISS[c], g \in Int, h \in Int :
        LET b == ClientPledge(c, i, accepted[c], g, h, f)
        IN  Bound(c, b) /\ Marks(sess[c], b) /\ Reads(sess[v], Received(v), ISS[c], g)
  BY DEF Streams, ClientSends
<1> DEFINE b == ClientPledge(c, i, accepted[c], g, h, f)
<1>3. Bound(c, b) /\ Marks(sess[c], b) /\ Reads(sess[v], Received(v), ISS[c], g)
  BY <1>2
<1>4. /\ YoungSession(r) => YoungSession(sess[c])
      /\ \E j \in ISS[c], x, y \in Int :
              LET d == ClientPledge(c, j, accepted'[c], x, y, ~YoungSession(r))
              IN  /\ Holds(r, d) /\ Mail(r, d) /\ Marks(r, d) /\ g <= x
                  /\ Grows(b, d)
  BY <1>3, ClientActs
<1>5. PICK j \in ISS[c], x \in Int, y \in Int :
              LET d == ClientPledge(c, j, accepted'[c], x, y, ~YoungSession(r))
              IN  /\ Holds(r, d) /\ Mail(r, d) /\ Marks(r, d) /\ g <= x
                  /\ Grows(b, d)
  BY <1>4
<1>6. PICK d : d = ClientPledge(c, j, accepted'[c], x, y, ~YoungSession(r))
  OBVIOUS
<1>7. Holds(r, d) /\ Mail(r, d) /\ Marks(r, d) /\ g <= x /\ Grows(b, d)
  BY <1>5, <1>6
<1>8. Pledge(b) /\ Pledge(d) /\ Commits(c, r) /\ WellFormed(r)
  <2>1. accepted[c] \in Nat /\ accepted'[c] \in Nat
    BY <1>1 DEF RestOK
  <2>2. Commits(c, r) /\ WellFormed(r)
    BY DEF Acts, Commits, SessionInv
  <2> QED
    BY <1>1, <1>6, <2>1, <2>2, PledgeTypes
<1>9. b.g = g /\ b.h = h /\ b.m = MaxBytes[c]
  BY DEF ClientPledge
<1> HIDE DEF b
<1>10. /\ Bound(c, d)'
       /\ sess' = [sess EXCEPT ![c] = [r EXCEPT !.out = NothingSent]]
       /\ \A e \in Addr \ {c} : \A a : Bound(e, a) => Bound(e, a)'
  BY <1>1, <1>3, <1>7, <1>8, ActsBound
<1>11. Holds(q, d) /\ Mail(q, d) /\ NetOf(net', c, d)
  BY <1>10 DEF Bound
<1>12. q = [r EXCEPT !.out = NothingSent] /\ sess'[v] = sess[v]
  BY <1>1, <1>10 DEF SessionsOK
<1> HIDE DEF q
<1>13. /\ YoungSession(q) <=> YoungSession(r)
       /\ Marks(q, d)
       /\ \A R, J, lim : Reads(r, R, J, lim) <=> Reads(q, R, J, lim)
       /\ q.recv_buffer = r.recv_buffer
  BY <1>1, <1>7, <1>8, <1>12, ActsSession
<1>14. accepted'[v] = accepted[v] /\ delivered'[v] = delivered[v]
  BY <1>1, ActsRest
<1>15. Reads(sess'[v], delivered'[v] \o sess'[v].recv_buffer, ISS[c], x)
  <2>1. Received(v) \in Seq(Byte)
    <3>1. delivered[v] \in Seq(Byte) /\ sess[v].recv_buffer \in Seq(Byte)
      BY <1>1 DEF RestOK, SessionsOK, Session
    <3> QED
      BY <3>1, ConcatFacts DEF Received
  <2>2. Reads(sess[v], Received(v), ISS[c], x)
    BY <1>3, <1>7, <2>1, ReadsMore
  <2> QED
    BY <1>12, <1>14, <2>2 DEF Received
<1>16. ClientSends(c)'
  <2>1. YoungSession(q) = YoungSession(r)
    BY <1>13 DEF YoungSession
  <2>2. d = ClientPledge(c, j, accepted'[c], x, y, ~YoungSession(q))
    BY <1>6, <2>1
  <2> QED
    BY <1>11, <1>13, <1>15, <2>2 DEF ClientSends, Bound, Received, q
<1>17. ServerSends(v)'
  <2> SUFFICES ASSUME YoungSession(q)
               PROVE  /\ sess'[v].state \notin Late
                      /\ \E k \in ISS[v] :
                           LET a == ServerPledge(v, k, accepted'[v])
                           IN  Holds(sess'[v], a) /\ Mail(sess'[v], a) /\ NetOf(net', v, a)
    BY <1>1 DEF ServerSends, Bound, q
  <2>1. YoungSession(sess[c])
    BY <1>4, <1>13
  <2>2. /\ sess[v].state \notin Late
        /\ \E k \in ISS[v] : Bound(v, ServerPledge(v, k, accepted[v]))
    BY <1>1, <2>1 DEF Streams, ServerSends
  <2>3. PICK k \in ISS[v] : Bound(v, ServerPledge(v, k, accepted[v]))
    BY <2>2
  <2>4. PICK a : a = ServerPledge(v, k, accepted[v])
    OBVIOUS
  <2>5. Bound(v, a)'
    BY <1>1, <1>10, <2>3, <2>4
  <2> QED
    BY <1>12, <1>14, <2>2, <2>4, <2>5 DEF Bound
<1>18. ASSUME NEW packet, Takes(c, r, packet), sess[c].state \in Opening \cup {"ESTABLISHED"}
       PROVE  Proper(packet, ISS[v], MaxBytes[v])
  <2>1. sess[c].alive /\ Arrives(c, packet)
    BY <1>18 DEF Takes, HasSessionFor
  <2>2. Placed(c, sess[c]) /\ packet \in myu_tcp_packet /\ packet.src \in Addr
    BY <1>1, <2>1 DEF Basic, Arrives, myu_tcp_packet
  <2>3. YoungSession(sess[c])
    BY <1>18, <2>1, <2>2 DEF YoungSession, Placed, Opening
  <2>4. CASE packet.src = c
    <3>1. PacketOK(b, c, packet)
      BY <1>1, <1>3, <2>1, <2>4, ArrivesOK
    <3>2. g \in 0..MaxBytes[c] /\ h \in 0..(MaxBytes[c] + 1) /\ accepted[c] \in Nat
      BY <1>1, <1>3, <1>9 DEF Marks, RestOK
    <3> HIDE DEF f
    <3> QED
      BY <2>2, <3>1, <3>2, ClientProper DEF b
  <2>5. CASE packet.src = v
    <3>1. PICK k \in ISS[v] : Bound(v, ServerPledge(v, k, accepted[v]))
      BY <1>1, <2>3 DEF Streams, ServerSends
    <3>2. PacketOK(ServerPledge(v, k, accepted[v]), c, packet)
      BY <1>1, <2>1, <2>5, <3>1, ArrivesOK
    <3>3. accepted[v] \in Nat
      BY <1>1 DEF RestOK
    <3> QED
      BY <1>1, <2>2, <3>2, <3>3, ServerProper
  <2> QED
    BY <2>2, <2>4, <2>5, StreamFacts
<1>19. ASSUME NEW packet, Begins(c, r, packet) PROVE FALSE
  BY <1>19 DEF Begins, Listeners
<1>20. Reads(r, delivered'[c] \o r.recv_buffer, ISS[v], MaxBytes[v])
  <2>1. Reads(sess[c], Received(c), ISS[v], MaxBytes[v])
    BY <1>1 DEF Streams
  <2>2. \A packet : \/ Takes(c, r, packet) /\ sess[c].state \in Opening \cup {"ESTABLISHED"}
                    \/ Begins(c, r, packet)
                    => Proper(packet, ISS[v], MaxBytes[v])
    BY <1>18, <1>19
  <2> QED
    BY <1>1, <2>1, <2>2, ActsReads
<1>21. (Reads(sess[c], Received(c), ISS[v], MaxBytes[v]))'
  <2>1. Reads(q, delivered'[c] \o q.recv_buffer, ISS[v], MaxBytes[v])
    BY <1>13, <1>20
  <2> QED
    BY <2>1 DEF Received, q
<1> QED
  BY <1>1, <1>16, <1>17, <1>21 DEF Streams

\* A step of the server.
LEMMA ServerStep ==
  ASSUME SessionsOK, NetOK, RestOK, StreamAssumption, Basic, Streams, RestOK',
         NEW c \in Connectors, NEW r, Acts(Peer(c), r)
  PROVE  Streams'
<1> DEFINE v == Peer(c)
           q == sess'[v]
           f == ~YoungSession(sess[c])
<1>1. /\ c \in Addr /\ v \in Addr /\ v # c /\ Connectors = {c} /\ ClientServer
      /\ v \in Listeners /\ Peer(v) = c
      /\ ISS[v] \in SUBSET Word /\ ISS[c] \in SUBSET Word /\ MaxBytes[v] \in Nat
      /\ MaxBytes[c] + 2 < SeqMod /\ MaxBytes[c] \in Nat
  BY StreamFacts
<1>2. PICK i \in ISS[c], g \in Int, h \in Int :
        LET b == ClientPledge(c, i, accepted[c], g, h, f)
        IN  Bound(c, b) /\ Marks(sess[c], b) /\ Reads(sess[v], Received(v), ISS[c], g)
  BY DEF Streams, ClientSends
<1>3. PICK b : b = ClientPledge(c, i, accepted[c], g, h, f)
  OBVIOUS
<1>4. Bound(c, b) /\ Marks(sess[c], b) /\ Reads(sess[v], Received(v), ISS[c], g)
  BY <1>2, <1>3
<1>5. b.g = g /\ b.h = h /\ b.m = MaxBytes[c]
  BY <1>3 DEF ClientPledge
<1>6. /\ g \in 0..MaxBytes[c] /\ h \in 0..(MaxBytes[c] + 1)
      /\ accepted[c] \in Nat /\ accepted[v] \in Nat /\ accepted'[v] \in Nat
  BY <1>1, <1>4, <1>5 DEF Marks, RestOK
<1>7. ASSUME NEW packet, Takes(v, r, packet) \/ Begins(v, r, packet)
      PROVE  Proper(packet, ISS[c], g) /\ ("FIN" \in packet.flags => f)
  <2>1. packet.src = c /\ Arrives(v, packet) /\ packet \in myu_tcp_packet
    BY <1>7, ServerTakes
  <2>2. PacketOK(b, v, packet)
    BY <1>1, <1>4, <2>1, ArrivesOK
  <2> HIDE DEF f
  <2> QED
    BY <1>3, <1>6, <2>1, <2>2, ClientProper
<1>8. Reads(r, delivered'[v] \o r.recv_buffer, ISS[c], g)
  <2>1. g \in Nat /\ g + 2 < SeqMod
    BY <1>1, <1>6, SessionAssumption
  <2> QED
    BY <1>1, <1>4, <1>7, <2>1, ActsReads
<1>9. Commits(v, r) /\ WellFormed(r)
  BY DEF Acts, Commits, SessionInv
<1>10. Committed(v, r) /\ Basic
  BY <1>1, ActsBasic
<1>11. /\ sess'[v] = [r EXCEPT !.out = NothingSent] /\ sess'[c] = sess[c]
       /\ \A a : NetOf(net, c, a) => NetOf(net', c, a)
  BY <1>1, <1>10 DEF Committed, SessionsOK
<1>12. accepted'[c] = accepted[c] /\ delivered'[c] = delivered[c]
  BY <1>1, ActsRest
<1> HIDE DEF q
<1>13. /\ YoungSession(q) <=> YoungSession(r)
       /\ q.state = r.state
       /\ \A R, J, lim : Reads(r, R, J, lim) <=> Reads(q, R, J, lim)
       /\ q.recv_buffer = r.recv_buffer
  BY <1>1, <1>9, <1>11, ActsSession DEF q
<1>14. ClientSends(c)'
  <2>1. b = ClientPledge(c, i, accepted'[c], g, h, ~YoungSession(sess'[c]))
    BY <1>3, <1>11, <1>12
  <2>2. Holds(sess'[c], b) /\ Mail(sess'[c], b) /\ NetOf(net', c, b) /\ Marks(sess'[c], b)
    BY <1>4, <1>11 DEF Bound
  <2>3. Reads(q, delivered'[v] \o q.recv_buffer, ISS[c], g)
    BY <1>8, <1>13
  <2> QED
    BY <2>1, <2>2, <2>3 DEF ClientSends, Bound, Received, q
<1>15. (Reads(sess[c], Received(c), ISS[v], MaxBytes[v]))'
  <2>1. Reads(sess[c], Received(c), ISS[v], MaxBytes[v])
    BY <1>1 DEF Streams
  <2> QED
    BY <2>1, <1>11, <1>12 DEF Received
<1>16. ServerSends(v)'
  <2> SUFFICES ASSUME YoungSession(sess'[c])
               PROVE  /\ q.state \notin Late
                      /\ \E k \in ISS[v] :
                           LET a == ServerPledge(v, k, accepted'[v])
                           IN  Holds(q, a) /\ Mail(q, a) /\ NetOf(net', v, a)
    BY <1>1 DEF ServerSends, Bound, q
  <2>1. YoungSession(sess[c])
    BY <1>11
  <2>2. /\ sess[v].state \notin Late
        /\ \E k \in ISS[v] : Bound(v, ServerPledge(v, k, accepted[v]))
    BY <1>1, <2>1 DEF Streams, ServerSends
  <2>3. PICK k \in ISS[v] : Bound(v, ServerPledge(v, k, accepted[v]))
    BY <2>2
  <2>4. \A packet : Takes(v, r, packet) \/ Begins(v, r, packet) => "FIN" \notin packet.flags
    BY <1>7, <2>1
  <2>5. /\ r.state \notin Late
        /\ \E j \in ISS[v] :
              LET d == ServerPledge(v, j, accepted'[v])
              IN  /\ Holds(r, d) /\ Mail(r, d)
                  /\ Grows(ServerPledge(v, k, accepted[v]), d)
    BY <1>1, <2>2, <2>3, <2>4, ServerActs
  <2>6. PICK j \in ISS[v] :
              LET d == ServerPledge(v, j, accepted'[v])
              IN  /\ Holds(r, d) /\ Mail(r, d)
                  /\ Grows(ServerPledge(v, k, accepted[v]), d)
    BY <2>5
  <2>7. PICK d : d = ServerPledge(v, j, accepted'[v])
    OBVIOUS
  <2> DEFINE a == ServerPledge(v, k, accepted[v])
  <2>8. Pledge(a) /\ Pledge(d) /\ Bound(v, a)
    BY <1>1, <1>6, <2>3, <2>7, PledgeTypes
  <2>9. Holds(r, d) /\ Mail(r, d) /\ Grows(a, d)
    BY <2>6, <2>7
  <2> HIDE DEF a
  <2>10. Bound(v, d)'
    BY <1>1, <1>9, <2>8, <2>9, ActsBound
  <2>11. Holds(q, d) /\ Mail(q, d) /\ NetOf(net', v, d)
    BY <2>10 DEF Bound, q
  <2> QED
    BY <1>13, <2>5, <2>7, <2>11
<1> QED
  BY <1>1, <1>14, <1>15, <1>16 DEF Streams

\* Faults of the network.
LEMMA IdleStep ==
  ASSUME StreamAssumption, Streams, Idle
  PROVE  Streams'
<1> SUFFICES ASSUME NEW c \in Connectors
             PROVE  /\ ClientSends(c)' /\ ServerSends(Peer(c))'
                    /\ (Reads(sess[c], Received(c), ISS[Peer(c)], MaxBytes[Peer(c)]))'
  BY DEF Streams
<1> DEFINE v == Peer(c)
<1>1. /\ sess' = sess /\ accepted' = accepted /\ delivered' = delivered
      /\ c \in Addr /\ v \in Addr /\ Peer(v) = c
  BY StreamFacts DEF Idle
<1>2. ASSUME NEW e \in Addr, NEW b, Bound(e, b) PROVE Bound(e, b)'
  BY <1>1, <1>2 DEF Idle, Bound
<1>3. ClientSends(c)'
  <2>1. PICK i \in ISS[c], g \in Int, h \in Int :
        LET b == ClientPledge(c, i, accepted[c], g, h, ~YoungSession(sess[c]))
        IN  Bound(c, b) /\ Marks(sess[c], b) /\ Reads(sess[v], Received(v), ISS[c], g)
    BY DEF Streams, ClientSends
  <2>2. PICK b : b = ClientPledge(c, i, accepted[c], g, h, ~YoungSession(sess[c]))
    OBVIOUS
  <2>3. Bound(c, b)'
    BY <1>1, <1>2, <2>1, <2>2
  <2> QED
    BY <1>1, <2>1, <2>2, <2>3 DEF ClientSends, Bound, Received
<1>4. ServerSends(v)'
  <2> SUFFICES ASSUME YoungSession(sess[c])
               PROVE  /\ sess[v].state \notin Late
                      /\ \E i \in ISS[v] : Bound(v, ServerPledge(v, i, accepted[v]))'
    BY <1>1 DEF ServerSends
  <2>1. /\ sess[v].state \notin Late
        /\ \E i \in ISS[v] : Bound(v, ServerPledge(v, i, accepted[v]))
    BY <1>1 DEF Streams, ServerSends
  <2>2. PICK i \in ISS[v] : Bound(v, ServerPledge(v, i, accepted[v]))
    BY <2>1
  <2>3. PICK b : b = ServerPledge(v, i, accepted[v])
    OBVIOUS
  <2>4. Bound(v, b)'
    BY <1>1, <1>2, <2>2, <2>3
  <2> QED
    BY <1>1, <2>1, <2>3, <2>4 DEF Bound
<1>5. (Reads(sess[c], Received(c), ISS[v], MaxBytes[v]))'
  BY <1>1 DEF Streams, Received
<1> QED
  BY <1>3, <1>4, <1>5

\* At first every session is new or does not exist yet.
LEMMA UnusedInit ==
  ASSUME Init, NEW e \in Addr, NEW b, Pledge(b), b.A = 0
  PROVE  /\ Bound(e, b) /\ sess[e].state = "CLOSED" /\ Received(e) = <<>>
         /\ accepted[e] = 0 /\ opens[e] = 0 /\ ~sess[e].msl_timer
         /\ e \notin Connectors => ~sess[e].alive
<1>1. PICK i \in [Addr -> InitialSendSeq] :
        sess = [d \in Addr |-> IF d \in Connectors THEN NewSession(d, Peer(d), i[d])
                                                   ELSE NoSession(d)]
  BY DEF Init
<1>2. \E initial : LET n == NewSession(e, Peer(e), initial)
                   IN  \/ sess[e] = n /\ e \in Connectors
                       \/ sess[e] = [n EXCEPT !.alive = FALSE]
  BY <1>1 DEF NoSession
<1>3. PICK initial : LET n == NewSession(e, Peer(e), initial)
                     IN  \/ sess[e] = n /\ e \in Connectors
                         \/ sess[e] = [n EXCEPT !.alive = FALSE]
  BY <1>2
<1> DEFINE n == NewSession(e, Peer(e), initial)
<1>4. /\ sess[e].state = "CLOSED" /\ ~sess[e].msl_timer
      /\ e \notin Connectors => ~sess[e].alive
  BY <1>3 DEF NewSession
<1>5. Unused(n, Peer(e), b) /\ Unused([n EXCEPT !.alive = FALSE], Peer(e), b)
  BY PeerType, FreshCarries
<1>6. sess[e] \in {n, [n EXCEPT !.alive = FALSE]}
  BY <1>3
<1> HIDE DEF n
<1>7. Unused(sess[e], Peer(e), b)
  BY <1>5, <1>6
<1>8. /\ delivered[e] = <<>> /\ accepted[e] = 0 /\ opens[e] = 0 /\ NetOf(net, e, b)
  BY DEF Init, NetOf
<1>9. Received(e) = <<>>
  BY <1>7, <1>8 DEF Unused, Received
<1> QED
  BY <1>4, <1>7, <1>8, <1>9 DEF Unused, Bound

\* At first nothing has been sent or received.
LEMMA StreamsInit == ASSUME StreamAssumption, Init PROVE Streams
<1> SUFFICES ASSUME NEW c \in Connectors
             PROVE  /\ ClientSends(c) /\ ServerSends(Peer(c))
                    /\ Reads(sess[c], Received(c), ISS[Peer(c)], MaxBytes[Peer(c)])
  BY DEF Streams
<1> DEFINE v == Peer(c)
<1>1. /\ c \in Addr /\ v \in Addr /\ ISS[c] # {} /\ ISS[v] # {} /\ Peer(v) = c
      /\ MaxBytes[c] \in Nat /\ MaxBytes[v] \in Nat
  BY StreamFacts
<1>2. ASSUME NEW e \in Addr, NEW b, Pledge(b), b.A = 0
      PROVE  /\ Bound(e, b) /\ sess[e].state = "CLOSED" /\ Received(e) = <<>>
             /\ accepted[e] = 0
  BY <1>2, UnusedInit
<1>3. PICK i \in ISS[c], j \in ISS[v] : TRUE
  BY <1>1
<1> DEFINE f == ~YoungSession(sess[c])
           b == ClientPledge(c, i, 0, 0, 0, f)
           a == ServerPledge(v, j, 0)
<1>4. /\ Pledge(b) /\ b.A = 0 /\ ~b.any /\ b.i \in b.I /\ b.g = 0 /\ b.h = 0 /\ b.m = MaxBytes[c]
      /\ Pledge(a) /\ a.A = 0
  <2>1. Pledge(b) /\ Pledge(a)
    <3>1. 0 \in Nat /\ 0 \in Int
      OBVIOUS
    <3> QED
      BY <1>1, <3>1, PledgeTypes
  <2> QED
    BY <2>1 DEF ClientPledge, ServerPledge
<1> HIDE DEF a, b, f
<1>5. Bound(c, b) /\ sess[c].state = "CLOSED" /\ Received(c) = <<>> /\ accepted[c] = 0
  BY <1>1, <1>2, <1>4
<1>6. Bound(v, a) /\ sess[v].state = "CLOSED" /\ Received(v) = <<>> /\ accepted[v] = 0
  BY <1>1, <1>2, <1>4
<1>7. Marks(sess[c], b)
  BY <1>1, <1>4, <1>5 DEF Marks, Streaming, Crossing
<1>8. /\ Reads(sess[v], Received(v), ISS[c], 0)
      /\ Reads(sess[c], Received(c), ISS[v], MaxBytes[v])
  BY <1>5, <1>6 DEF Reads
<1>9. ClientSends(c)
  <2>1. 0 \in Int
    OBVIOUS
  <2> QED
    BY <1>5, <1>7, <1>8, <2>1 DEF ClientSends, b, f
<1>10. ServerSends(v)
  BY <1>6 DEF ServerSends, Late, a
<1> QED
  BY <1>8, <1>9, <1>10

\* Every step keeps to the streams.
LEMMA StreamsStep ==
  ASSUME StreamAssumption, SessionsOK, NetOK, RestOK, RestOK', Basic, Streams, [Next]_vars
  PROVE  Streams'
<1>1. CASE Idle
  BY <1>1, IdleStep
<1>2. ASSUME NEW e \in Addr, NEW r, Acts(e, r)
      PROVE  Streams'
  <2>1. PICK c : c \in Connectors
    BY DEF StreamAssumption, ClientServer
  <2>2. CASE e = c
    BY <1>2, <2>1, <2>2, ClientStep
  <2>3. CASE e = Peer(c)
    BY <1>2, <2>1, <2>3, ServerStep
  <2> QED
    BY <2>1, <2>2, <2>3, StreamFacts
<1> QED
  BY <1>1, <1>2, StepKinds DEF StreamAssumption

\* What a stack has received is a part of its peer's stream.
LEMMA StreamsPrefix == ASSUME StreamAssumption, Streams PROVE StreamPrefix
<1> SUFFICES ASSUME NEW e \in Addr PROVE \A i \in 1..Len(Received(e)) : Received(e)[i] = i
  BY DEF StreamPrefix
<1>1. PICK c : c \in Connectors
  BY DEF StreamAssumption, ClientServer
<1>2. CASE e = c
  BY <1>1, <1>2 DEF Streams, Reads
<1>3. CASE e = Peer(c)
  BY <1>1, <1>3 DEF Streams, ClientSends, Reads
<1> QED
  BY <1>1, <1>2, <1>3, StreamFacts

\* The bytes that an application has read, with those that wait in recv_buffer_,
\* are the first bytes of its peer's stream, in order and without a gap or a
\* repetition, whatever UDP loses, damages, repeats or reorders, whenever the
\* timers expire and however the sessions open and close (_handle_incoming_packet
\* takes only the packet at recv_next_; _handle_try_send, _handle_ack and
\* close() keep send_buffer_ and the sequence numbers in step).  Hypotheses: one
\* stack connects and the other listens; initial sequence numbers are further
\* apart than the streams are long, and the streams shorter than 2^32 bytes.
THEOREM StreamsArePrefixes == ASSUME StreamAssumption PROVE Spec => []StreamPrefix
<1>1. Init => IInv /\ Basic /\ Streams
  BY InitInv, BasicInit, StreamsInit
<1>2. IInv /\ Basic /\ Streams /\ [Next]_vars => IInv' /\ Basic' /\ Streams'
  <2> SUFFICES ASSUME IInv, Basic, Streams, [Next]_vars PROVE IInv' /\ Basic' /\ Streams'
    OBVIOUS
  <2>1. IInv'
    BY StepInv
  <2>2. SessionsOK /\ NetOK /\ RestOK /\ RestOK'
    <3>1. RestOK'
      BY <2>1 DEF IInv, TypeOK, RestOK
    <3> QED
      BY <3>1, Parts
  <2>3. ClientServer
    BY DEF StreamAssumption
  <2> QED
    BY <2>1, <2>2, <2>3, BasicStep, StreamsStep
<1>3. Streams => StreamPrefix
  BY StreamsPrefix
<1> QED
  BY <1>1, <1>2, <1>3, PTL DEF Spec

-----------------------------------------------------------------------------
(* Only TIME_WAIT ends by the 2MSL timer.                                  *)

\* A session whose 2MSL timer runs is in TIME_WAIT.
Waits(s) == s.msl_timer => s.state = "TIME_WAIT"

\* A packet leaves it so.
LEMMA InputWaits ==
  ASSUME NEW s, SessionInv(s), Waits(s), NEW packet, NEW iss
  PROVE  Waits(input(s, packet, iss))
<1> DEFINE p == [s EXCEPT !.peer_usable_window_size = packet.win]
           d == DispatchOnState(p, packet, iss)
<1>1. HasFields(s) /\ s.ooo_map = {} /\ s.state \in TcpState
  BY SessionHasFields DEF SessionInv, WellFormed, Session
<1>2. input(s, packet, iss) \in {s, handle_reset(s), d}
  BY DEF input
<1>3. HasFields(p) /\ p.state = s.state /\ p.ooo_map = {} /\ Waits(p)
  BY <1>1 DEF HasFields, Watched, Waits
<1> HIDE DEF p
<1>4. ASSUME NEW q PROVE Waits(on_closed_cb(q))
  BY DEF on_closed_cb, NewSession, Waits
<1>5. Waits(handle_reset(s))
  BY <1>4 DEF handle_reset
<1>6. Waits(d)
  <2>1. CASE p.state = "CLOSED"
    BY <1>3, <2>1 DEF DispatchOnState, HasFields, Watched, Waits
  <2>2. CASE p.state \in {"LISTEN", "SYN_SENT", "SYN_RECEIVED"}
    <3>1. d \in {handle_listen(p, packet, iss), handle_syn_sent(p, packet),
                 handle_syn_received(p, packet)}
      BY <2>2 DEF DispatchOnState
    <3> HIDE DEF d
    <3>2. /\ handle_listen(p, packet, iss).msl_timer = p.msl_timer
          /\ handle_syn_sent(p, packet).msl_timer = p.msl_timer
          /\ handle_syn_received(p, packet).msl_timer = p.msl_timer
      BY <1>3, ListenMoves, SynSentMoves, SynReceivedMoves
    <3> QED
      BY <1>3, <2>2, <3>1, <3>2 DEF Waits
  <2>3. CASE p.state = "ESTABLISHED"
    <3>1. d.msl_timer = p.msl_timer
      BY <1>3, <2>3, EstablishedMoves DEF DispatchOnState
    <3> QED
      BY <1>3, <2>3, <3>1 DEF Waits
  <2>4. CASE p.state = "FIN_WAIT_1"
    <3>1. d.msl_timer = p.msl_timer
      BY <1>3, <2>4, FinWait1Moves DEF DispatchOnState
    <3> QED
      BY <1>3, <2>4, <3>1 DEF Waits
  <2>5. CASE p.state \in {"FIN_WAIT_2", "TIME_WAIT"}
    <3>1. d \in {handle_fin_wait_2(p, packet), handle_timed_wait(p, packet)}
          /\ (p.state = "TIME_WAIT" => d = handle_timed_wait(p, packet))
      BY <2>5 DEF DispatchOnState
    <3>2. /\ d.state \in {p.state, "TIME_WAIT"}
          /\ d.msl_timer = p.msl_timer \/ d.state = "TIME_WAIT"
      BY <1>3, <3>1, TimeWaitMoves DEF Moved
    <3> QED
      BY <1>3, <3>2 DEF Waits
  <2>6. CASE p.state = "CLOSE_WAIT"
    <3>1. d.msl_timer \in {p.msl_timer, FALSE}
      BY <1>3, <2>6, CloseWaitMoves DEF DispatchOnState
    <3> QED
      BY <1>3, <2>6, <3>1 DEF Waits
  <2>7. CASE p.state = "LAST_ACK"
    BY <1>3, <1>4, <2>7 DEF DispatchOnState, handle_last_ack
  <2> HIDE DEF d
  <2> QED
    BY <1>1, <1>3, <2>1, <2>2, <2>3, <2>4, <2>5, <2>6, <2>7 DEF TcpState
<1> HIDE DEF d
<1> QED
  BY <1>2, <1>5, <1>6

\* So does close().
LEMMA CloseWaits ==
  ASSUME NEW s, HasFields(s), Waits(s)
  PROVE  Waits(close(s))
<1>1. HasFields(s)
  OBVIOUS
<1>2. CASE s.state \in {"ESTABLISHED", "SYN_SENT", "SYN_RECEIVED"}
  <2>1. ASSUME NEW q, HasFields(q), NEW x
        PROVE  LET t == [stop_all_timers(q) EXCEPT !.state = x]
               IN  HasFields(t) /\ t.msl_timer = FALSE
    BY <2>1 DEF stop_all_timers, HasFields, Watched
  <2>2. CASE s.state = "ESTABLISHED"
    <3> DEFINE f == [stop_all_timers(handle_try_send(s)) EXCEPT !.state = "FIN_WAIT_1"]
               g == send_control_packet(f, {"FIN"})
    <3>1. HasFields(handle_try_send(s))
      BY <1>1, TrySendFrame DEF Frame
    <3>2. HasFields(f) /\ f.msl_timer = FALSE
      BY <2>1, <3>1
    <3> HIDE DEF f
    <3>3. HasFields(g) /\ g.msl_timer = FALSE
      BY <3>2, ControlFrame DEF Frame
    <3>4. close(s) = [g EXCEPT !.user_want_to_close = TRUE]
      BY <2>2 DEF close, f
    <3> HIDE DEF g
    <3> QED
      BY <3>3, <3>4 DEF HasFields, Watched, Waits
  <2>3. CASE s.state \in {"SYN_SENT", "SYN_RECEIVED"}
    <3> DEFINE g == send_control_packet(s, {"RST"})
    <3>1. HasFields(g)
      BY <1>1, ControlFrame DEF Frame
    <3>2. close(s) = [stop_all_timers(g) EXCEPT !.state = "CLOSED"]
      BY <2>3 DEF close
    <3> HIDE DEF g
    <3> QED
      BY <2>1, <3>1, <3>2 DEF Waits
  <2> QED
    BY <1>2, <2>2, <2>3
<1>3. CASE s.state = "CLOSE_WAIT"
  <2> DEFINE f == [s EXCEPT !.state = "LAST_ACK"]
             g == send_control_packet(f, {"FIN", "ACK"})
  <2>1. HasFields(f) /\ ~f.msl_timer
    BY <1>1, <1>3 DEF HasFields, Watched, Waits
  <2> HIDE DEF f
  <2>2. HasFields(g) /\ ~g.msl_timer
    BY <2>1, ControlFrame DEF Frame
  <2>3. close(s) = [g EXCEPT !.user_want_to_close = TRUE]
    BY <1>3 DEF close, f
  <2> HIDE DEF g
  <2> QED
    BY <2>2, <2>3 DEF HasFields, Watched, Waits
<1>4. CASE s.state \notin {"ESTABLISHED", "SYN_SENT", "SYN_RECEIVED", "CLOSE_WAIT"}
  <2>1. close(s) = s
    BY <1>4 DEF close
  <2> QED
    BY <2>1
<1> QED
  BY <1>2, <1>3, <1>4

\* So does every step.
LEMMA ActsWaits ==
  ASSUME SessionsOK, NEW e \in Addr, NEW r, Acts(e, r), Waits(sess[e])
  PROVE  Waits(r)
<1> DEFINE s == sess[e]
           q == [s EXCEPT !.is_in_ready_queue = FALSE]
<1>1. SessionInv(s) /\ HasFields(s)
  BY SessionHasFields DEF SessionsOK
<1>2. /\ SessionInv(q) /\ SameNumbers(q, s) /\ HasFields(q) /\ q.msl_timer = s.msl_timer
  BY <1>1, QueueAside DEF HasFields, Watched
<1>3. Waits(q)
  BY <1>2 DEF SameNumbers, Waits
<1>4. ASSUME NEW p, SessionInv(p), Waits(p), NEW n \in Nat PROVE Waits(recv(p, n))
  <2> DEFINE rest == [p EXCEPT !.recv_buffer = pop_front(@, n)]
  <2>1. HasFields(p)
    BY <1>4, SessionHasFields
  <2>2. HasFields(rest) /\ Waits(rest)
    BY <1>4, <2>1 DEF HasFields, Watched, Waits
  <2>3. recv(p, n) \in {rest, close(rest)}
    BY DEF recv
  <2> HIDE DEF rest
  <2> QED
    BY <2>2, <2>3, CloseWaits
<1>5. ASSUME NEW data PROVE Waits(send(s, data))
  <2> DEFINE t == [s EXCEPT !.send_buffer = push_batch(@, Writable(s, data))]
  <2>1. HasFields(t) /\ Waits(t)
    BY <1>1 DEF HasFields, Watched, Waits
  <2>2. send(s, data) \in {s, handle_try_send(t)}
    BY DEF send
  <2> HIDE DEF t
  <2>3. Frame(handle_try_send(t), t)
    BY <2>1, TrySendFrame
  <2> QED
    BY <2>1, <2>2, <2>3 DEF Frame, Waits
<1>6. ASSUME NEW t PROVE Waits(handle_retransmit(s, t))
  BY <1>1, RetransmitFrame DEF Frame, Waits
<1>7. CASE Opens(e, r)
  <2>1. PICK iss : r = connect(s, iss)
    BY <1>7 DEF Opens
  <2>2. r.msl_timer = s.msl_timer /\ s.state = "CLOSED"
    BY <1>1, <1>7, <2>1, ConnectMoves DEF Opens
  <2> QED
    BY <2>2 DEF Waits
<1>8. CASE Uses(e, r)
  <2>1. Called(e, r)
    BY <1>8 DEF Uses
  <2>2. \/ \E data : r = send(s, data)
        \/ \E n \in Nat : r = recv(s, n) \/ r = recv(q, n)
        \/ r = close(s) \/ r = q \/ \E t : r = handle_retransmit(s, t)
    BY <2>1 DEF Called
  <2>3. Waits(close(s))
    BY <1>1, CloseWaits
  <2>4. \A n \in Nat : Waits(recv(s, n)) /\ Waits(recv(q, n))
    BY <1>1, <1>2, <1>3, <1>4
  <2>5. \A data : Waits(send(s, data))
    BY <1>5
  <2>6. \A x : Waits(handle_retransmit(s, x))
    BY <1>6
  <2> HIDE DEF q, s, Waits
  <2> QED
    BY <1>3, <2>2, <2>3, <2>4, <2>5, <2>6
<1>9. CASE Ends(e, r)
  <2>1. ASSUME NEW p PROVE ~on_closed_cb(p).msl_timer
    BY DEF on_closed_cb, NewSession
  <2>2. \E p : r = on_closed_cb(p)
    BY <1>9 DEF Ends, handle_2msl_timeout
  <2> QED
    BY <2>1, <2>2 DEF Waits
<1>10. CASE \E packet : Takes(e, r, packet)
  <2>1. PICK packet, iss : r = input(s, packet, iss)
    BY <1>10 DEF Takes
  <2> QED
    BY <1>1, <2>1, InputWaits
<1>11. CASE \E packet : Begins(e, r, packet)
  <2>1. PICK packet : Begins(e, r, packet)
    BY <1>11
  <2>2. PICK iss \in ISS[e], initial \in InitialSendSeq :
          r = input(listen(NewSession(e, packet.src, initial)), packet, iss)
    BY <2>1 DEF Begins
  <2> DEFINE n == NewSession(e, packet.src, initial)
             l == listen(n)
  <2>3. SessionInv(n)
    BY <2>1, NewSessionInv, ConnectionAssumption DEF Begins, Arrives, myu_tcp_packet
  <2>4. ~l.msl_timer
    BY DEF listen, NewSession
  <2> HIDE DEF n
  <2>5. SessionInv(l)
    BY <2>3, ListenCallInv
  <2>6. r = input(l, packet, iss)
    BY <2>2 DEF n
  <2> HIDE DEF l
  <2> QED
    BY <2>4, <2>5, <2>6, InputWaits DEF Waits
<1> QED
  BY <1>7, <1>8, <1>9, <1>10, <1>11 DEF Acts

-----------------------------------------------------------------------------
(* The first connection: what each side may say to the other.              *)

\* A pledge about numbered data, with everything else as in the record may.
Full(i, A, m, g, h, may) ==
  [any |-> FALSE, i |-> i, A |-> A, m |-> m, I |-> {i}, g |-> g, h |-> h, ends |-> Word,
   syn |-> may.syn, joins |-> may.joins, open |-> may.open, acks |-> may.acks,
   fin |-> may.fin, rst |-> may.rst]

\* The record might allows all that may allows.
More(may, might) ==
  /\ may.syn \subseteq might.syn /\ may.joins \subseteq might.joins
  /\ may.open \subseteq might.open /\ may.acks \subseteq might.acks
  /\ (may.fin => might.fin) /\ (may.rst => might.rst)

\* The marks, moved on by a step whose packets the pledge covers.
LEMMA FullGrows ==
  ASSUME NEW i \in Word, NEW m \in Nat, m + 2 < SeqMod, NEW A \in Nat, NEW A2 \in Nat,
         A <= A2, NEW g \in Int, NEW h \in Int, NEW may, NEW might, More(may, might),
         NEW s, WellFormed(s), s.alive, NEW r, WellFormed(r), NEW acks, acks \subseteq might.acks,
         Marks(s, Full(i, A, m, g, h, may)), Mail(s, Full(i, A, m, g, h, may)),
         \A x, y \in Int : Accounts(r, s, Full(i, A2, m, x, y, might), acks),
         Moves(r, s, Full(i, A2, m, g, h, might))
  PROVE  \E x, y \in Int :
           LET d == Full(i, A2, m, x, y, might)
           IN  /\ Holds(r, d) /\ Mail(r, d) /\ Marks(r, d) /\ g <= x
               /\ Grows(Full(i, A, m, g, h, may), d)
<1> DEFINE b == Full(i, A, m, g, h, may)
           a == Full(i, A2, m, g, h, might)
           x == MarkG(r, s, a)
           y == MarkH(r, s, a)
           d == Full(i, A2, m, x, y, might)
<1>1. /\ Pledge(b) /\ ~b.any /\ b.i = i /\ b.g = g /\ b.h = h /\ b.m = m /\ b.I = {i}
      /\ b.syn = may.syn /\ b.joins = may.joins /\ b.open = may.open
      /\ b.acks = may.acks /\ b.fin = may.fin /\ b.rst = may.rst /\ b.A = A
  BY DEF Full, Pledge
<1>2. /\ Pledge(a) /\ ~a.any /\ a.i = i /\ a.g = g /\ a.h = h /\ a.m = m /\ a.I = {i}
      /\ a.A = A2
  BY DEF Full, Pledge
<1>3. Holds(r, a)
  BY DEF Accounts
<1>4. Marks(s, a)
  <2>1. Marks(s, b)
    OBVIOUS
  <2>2. Top(s, a) = Top(s, b)
    BY <1>1, <1>2 DEF Top
  <2> HIDE DEF a, b
  <2>3. g <= A2
    BY <1>1, <2>1 DEF Marks
  <2> QED
    BY <1>1, <1>2, <2>1, <2>2, <2>3 DEF Marks
<1>5. Moves(r, s, a)
  OBVIOUS
<1> HIDE DEF a
<1>6. /\ x \in 0..a.m /\ y \in 0..(a.m + 1) /\ x >= a.g
  BY <1>2, <1>3, <1>4, <1>5, MarksType
<1>7. x \in Int /\ y \in Int /\ g <= x
  <2> HIDE DEF x, y
  <2> QED
    BY <1>2, <1>6
<1>8. /\ Pledge(d) /\ ~d.any /\ d.i = i /\ d.g = x /\ d.h = y /\ d.m = m /\ d.I = {i}
      /\ d.syn = might.syn /\ d.joins = might.joins /\ d.open = might.open
      /\ d.acks = might.acks /\ d.fin = might.fin /\ d.rst = might.rst /\ d.A = A2
  <2> HIDE DEF x, y
  <2> QED
    BY <1>7 DEF Full, Pledge
<1>9. Accounts(r, s, d, acks)
  BY <1>7
<1> HIDE DEF d, b
<1>10. /\ Marks(r, d) /\ Fits(r, s, d)
       /\ \/ d.g = a.g /\ a.h <= d.h
          \/ a.h <= a.g /\ a.g <= d.g
  <2>1. d.g = MarkG(r, s, a) /\ d.h = MarkH(r, s, a)
    BY <1>8
  <2>2. ~a.any /\ ~d.any /\ d.i = a.i /\ d.A = a.A /\ d.m = a.m /\ d.I = a.I
    BY <1>2, <1>8
  <2>3. Pledge(a)
    BY <1>2
  <2> HIDE DEF x, y
  <2> QED
    BY <1>3, <1>4, <1>5, <2>1, <2>2, <2>3, MarksStep
<1>11. Grows(b, d)
  BY <1>1, <1>2, <1>8, <1>10 DEF Grows, More, Pledge
<1>12. Mail(s, d)
  <2>1. Mail(s, b)
    BY DEF b
  <2> QED
    BY <1>1, <1>8, <1>11, <2>1, GrowsMail
<1>13. Holds(r, d) /\ Mail(r, d)
  BY <1>8, <1>9, <1>10, <1>12 DEF Accounts
<1> QED
  BY <1>7, <1>10, <1>11, <1>13 DEF d, b

\* The application and the timers, whatever they do, leave the session in its place.
LEMMA UsesSteady ==
  ASSUME SessionsOK, RestOK, Basic, NEW e \in Addr, NEW r, Uses(e, r)
  PROVE  /\ sess[e].alive /\ Steady(r, sess[e]) /\ Called(e, r) /\ opens' = opens
         /\ delivered'[e] \o r.recv_buffer = Received(e)
<1> DEFINE B == Anything(Opener(e))
<1>1. Pledge(B) /\ B.any = TRUE /\ B.fin = TRUE /\ B.rst = TRUE
  BY AnythingType
<1>2. Holds(sess[e], B)
  BY DEF Basic, Bound
<1> HIDE DEF B
<1>3. sess[e].alive /\ Called(e, r) /\ opens' = opens
  BY <1>2 DEF Holds, Flight, Uses
<1> QED
  BY <1>1, <1>2, <1>3, CalledCarries

\* A packet that arrives is answered.
LEMMA TakesFollows ==
  ASSUME SessionsOK, Basic, ClientServer, NEW e \in Addr, NEW r, NEW packet,
         Takes(e, r, packet)
  PROVE  /\ sess[e].alive /\ Follows(r, sess[e], packet) /\ Unread /\ opens' = opens
         /\ Arrives(e, packet) /\ packet \in myu_tcp_packet /\ packet.src \in Addr
<1> DEFINE B == Anything(Opener(e))
<1>1. /\ Pledge(B) /\ B.any = TRUE /\ B.fin = TRUE /\ B.joins = Word
  BY AnythingType
<1>2. Holds(sess[e], B) /\ ISS[e] \subseteq Word
  BY ConnectionAssumption DEF Basic, Bound
<1> HIDE DEF B
<1>3. PICK iss \in ISS[e] : r = input(sess[e], packet, iss)
  BY DEF Takes
<1>4. Follows(r, sess[e], packet)
  BY <1>1, <1>2, <1>3, TakesCarries
<1> QED
  BY <1>4 DEF Takes, HasSessionFor, Arrives, myu_tcp_packet

\* Before the peer's initial sequence number is known, the application and the
\* timers send nothing but the SYN once more.
LEMMA SilentMail ==
  ASSUME SessionsOK, NEW e \in Addr, NEW r, Called(e, r),
         sess[e].state \in {"CLOSED", "LISTEN", "SYN_SENT"}, r.state = sess[e].state,
         NEW c, c.acks = {}, Mail(sess[e], c)
  PROVE  Mail(r, c)
<1> DEFINE s == sess[e]
           q == [s EXCEPT !.is_in_ready_queue = FALSE]
<1>1. SessionInv(s) /\ WellFormed(s) /\ s \in Session
  BY DEF SessionsOK, SessionInv, WellFormed
<1>2. /\ SessionInv(q) /\ q.timers = s.timers /\ q.out = s.out
      /\ q.self = s.self /\ q.state = s.state
  BY <1>1, QueueAside DEF SameNumbers
<1>3. Mail(q, c)
  BY <1>2, LessMail
<1>4. ASSUME NEW p, SessionInv(p), p.state = s.state, Mail(p, c), NEW n PROVE Mail(recv(p, n), c)
  <2> DEFINE rest == [p EXCEPT !.recv_buffer = pop_front(@, n)]
  <2>1. rest.timers = p.timers /\ rest.out = p.out /\ rest.self = p.self
    BY <1>4 DEF SessionInv, WellFormed, Session
  <2>2. recv(p, n) = rest
    BY <1>4 DEF recv
  <2> HIDE DEF rest
  <2> QED
    BY <1>4, <2>1, <2>2, LessMail
<1>5. ASSUME NEW data PROVE Mail(send(s, data), c)
  <2> DEFINE t == [s EXCEPT !.send_buffer = push_batch(@, Writable(s, data))]
  <2>1. t.timers = s.timers /\ t.out = s.out /\ t.self = s.self /\ t.state = s.state
    BY <1>1 DEF Session
  <2>2. send(s, data) \in {s, handle_try_send(t)}
    BY DEF send
  <2> HIDE DEF t
  <2>3. handle_try_send(t) = t
    BY <2>1 DEF handle_try_send
  <2>4. Mail(t, c)
    BY <2>1, LessMail
  <2> QED
    BY <2>2, <2>3, <2>4
<1>6. r = close(s) => Mail(r, c)
  <2>1. s.state = "SYN_SENT" => close(s).state = "CLOSED"
    BY <1>1, CloseState
  <2>2. s.state \in {"CLOSED", "LISTEN"} => close(s) = s
    BY DEF close
  <2> QED
    BY <2>1, <2>2
<1>7. \A t \in s.timers : Mail(handle_retransmit(s, t), c)
  BY <1>1, RetransmitCarries
<1>8. \/ \E data : r = send(s, data)
      \/ \E n \in Nat : r = recv(s, n) \/ r = recv(q, n)
      \/ r = close(s) \/ r = q \/ \E t \in s.timers : r = handle_retransmit(s, t)
  BY DEF Called
<1>9. \A n : Mail(recv(s, n), c) /\ Mail(recv(q, n), c)
  BY <1>1, <1>2, <1>3, <1>4
<1> HIDE DEF s, q
<1> QED
  BY <1>3, <1>5, <1>6, <1>7, <1>8, <1>9

\* What the application and the timers make of a pledge.
LEMMA UsesGrows ==
  ASSUME SessionsOK, RestOK, RestOK', StreamAssumption, Basic, NEW e \in Addr, NEW r,
         Uses(e, r), WellFormed(r), NEW i \in ISS[e], NEW g \in Int, NEW h \in Int,
         NEW may, NEW might, More(may, might),
         Bound(e, Full(i, accepted[e], MaxBytes[e], g, h, may)),
         Marks(sess[e], Full(i, accepted[e], MaxBytes[e], g, h, may)),
         r.state \notin Opening \cup {"ESTABLISHED"} => might.fin,
         sess[e].state \in {"SYN_SENT", "SYN_RECEIVED"} /\ r.state = "CLOSED" => might.rst,
         \/ sess[e].recv_next \in might.acks
         \/ /\ sess[e].state \in {"CLOSED", "LISTEN", "SYN_SENT"} /\ r.state = sess[e].state
            /\ might.acks = {}
  PROVE  \E x, y \in Int :
           LET d == Full(i, accepted'[e], MaxBytes[e], x, y, might)
           IN  /\ Holds(r, d) /\ Mail(r, d) /\ Marks(r, d) /\ g <= x
               /\ Grows(Full(i, accepted[e], MaxBytes[e], g, h, may), d)
<1> DEFINE s == sess[e]
           A == accepted[e]
           A2 == accepted'[e]
           m == MaxBytes[e]
           acks == IF s.recv_next \in might.acks THEN {s.recv_next} ELSE {}
<1>1. /\ A \in Nat /\ A2 \in Nat /\ WellFormed(s) /\ m \in Nat /\ m + 2 < SeqMod /\ i \in Word
  BY ConnectionAssumption DEF RestOK, SessionsOK, SessionInv, StreamAssumption
<1>2. s.alive /\ Called(e, r) /\ Steady(r, s)
  BY UsesSteady
<1>3. acks \subseteq might.acks
  OBVIOUS
<1>4. ASSUME NEW x \in Int, NEW y \in Int
      PROVE  /\ Accounts(r, s, Full(i, A2, m, x, y, might), acks)
             /\ Closes(r, s, Full(i, A2, m, x, y, might))
  <2>1. PICK b : b = Full(i, A, m, g, h, may)
    OBVIOUS
  <2>2. PICK d : d = Full(i, A2, m, x, y, might)
    OBVIOUS
  <2>3. /\ Pledge(b) /\ ~b.any /\ b.i = i /\ b.A = A /\ b.m = m /\ Pledge(d)
        /\ d.any = b.any /\ d.i = b.i /\ d.m = b.m /\ d.A = A2 /\ d.acks = might.acks
        /\ d.fin = might.fin /\ d.rst = might.rst
    BY <1>1, <2>1, <2>2 DEF Full, Pledge
  <2>4. Holds(s, b)
    BY <2>1 DEF Bound
  <2>5. Accounts(r, s, d, {s.recv_next}) /\ Closes(r, s, d)
    BY <1>1, <1>2, <2>3, <2>4, CalledCarries
  <2>6. s.recv_next \notin might.acks => (Mail(s, d) => Mail(r, d))
    BY <1>2, <2>3, SilentMail
  <2>7. Accounts(r, s, d, acks)
    BY <2>5, <2>6 DEF Accounts
  <2> QED
    BY <2>2, <2>5, <2>7
<1>5. Moves(r, s, Full(i, A2, m, g, h, might))
  <2>1. PICK d : d = Full(i, A2, m, g, h, might)
    OBVIOUS
  <2>2. ~d.any
    BY <2>1 DEF Full
  <2>3. Accounts(r, s, d, acks) /\ Closes(r, s, d)
    BY <1>4, <2>1
  <2> QED
    BY <1>2, <2>1, <2>2, <2>3, SteadyGoes
<1>6. /\ Marks(s, Full(i, A, m, g, h, may)) /\ Mail(s, Full(i, A, m, g, h, may))
      /\ A <= A2
  BY <1>2, CallWrites DEF Bound
<1> HIDE DEF s, A, A2, m, acks
<1>7. \A x, y \in Int : Accounts(r, s, Full(i, A2, m, x, y, might), acks)
  BY <1>4
<1>8. \E x, y \in Int :
           LET d == Full(i, A2, m, x, y, might)
           IN  /\ Holds(r, d) /\ Mail(r, d) /\ Marks(r, d) /\ g <= x
               /\ Grows(Full(i, A, m, g, h, may), d)
  BY <1>1, <1>2, <1>3, <1>5, <1>6, <1>7, FullGrows
<1> QED
  BY <1>8 DEF A, A2, m

\* What a packet makes of it.
LEMMA TakesGrows ==
  ASSUME SessionsOK, RestOK, StreamAssumption, Basic, NEW e \in Addr, NEW r, NEW packet,
         Takes(e, r, packet), NEW iss \in ISS[e], r = input(sess[e], packet, iss), WellFormed(r),
         NEW i \in ISS[e], NEW g \in Int, NEW h \in Int, NEW may, NEW might, More(may, might),
         Bound(e, Full(i, accepted[e], MaxBytes[e], g, h, may)),
         Marks(sess[e], Full(i, accepted[e], MaxBytes[e], g, h, may)),
         sess[e].state # "CLOSE_WAIT",
         sess[e].state = "LISTEN" /\ r.state # "LISTEN" => iss \in might.joins /\ iss = i,
         Acks(r, sess[e], packet) \subseteq might.acks
  PROVE  \E x, y \in Int :
           LET d == Full(i, accepted'[e], MaxBytes[e], x, y, might)
           IN  /\ Holds(r, d) /\ Mail(r, d) /\ Marks(r, d) /\ g <= x
               /\ Grows(Full(i, accepted[e], MaxBytes[e], g, h, may), d)
<1> DEFINE s == sess[e]
           A == accepted[e]
           m == MaxBytes[e]
           acks == Acks(r, s, packet)
<1>1. /\ A \in Nat /\ WellFormed(s) /\ m \in Nat /\ m + 2 < SeqMod /\ i \in Word
      /\ ClientServer
  BY ConnectionAssumption DEF RestOK, SessionsOK, SessionInv, StreamAssumption
<1>2. s.alive /\ Follows(r, s, packet) /\ accepted'[e] = A
  BY <1>1, TakesFollows DEF Unread
<1>3. acks \subseteq might.acks
  OBVIOUS
<1>4. ASSUME NEW x \in Int, NEW y \in Int
      PROVE  Accounts(r, s, Full(i, A, m, x, y, might), acks)
  <2>1. PICK b : b = Full(i, A, m, g, h, may)
    OBVIOUS
  <2>2. PICK d : d = Full(i, A, m, x, y, might)
    OBVIOUS
  <2>3. /\ Pledge(d) /\ d.any = b.any /\ d.i = b.i /\ d.m = b.m /\ d.A = b.A
        /\ d.joins = might.joins /\ d.i = i
    BY <1>1, <2>1, <2>2 DEF Full, Pledge
  <2>4. Holds(s, b)
    BY <2>1 DEF Bound
  <2>5. Holds(s, d)
    BY <2>3, <2>4, SamePledge
  <2>6. Accounts(r, s, d, acks)
    BY <1>1, <2>3, <2>5, TakesCarries
  <2> QED
    BY <2>2, <2>6
<1>5. Moves(r, s, Full(i, A, m, g, h, might))
  <2>1. PICK d : d = Full(i, A, m, g, h, might)
    OBVIOUS
  <2>2. ~d.any
    BY <2>1 DEF Full
  <2>3. Accounts(r, s, d, acks)
    BY <1>4, <2>1
  <2> QED
    BY <1>2, <2>1, <2>2, <2>3, InputGoes
<1>6. /\ Marks(s, Full(i, A, m, g, h, may)) /\ Mail(s, Full(i, A, m, g, h, may))
      /\ A <= A
  BY <1>1 DEF Bound
<1> HIDE DEF s, A, m, acks
<1>7. \A x, y \in Int : Accounts(r, s, Full(i, A, m, x, y, might), acks)
  BY <1>4
<1>8. \E x, y \in Int :
           LET d == Full(i, A, m, x, y, might)
           IN  /\ Holds(r, d) /\ Mail(r, d) /\ Marks(r, d) /\ g <= x
               /\ Grows(Full(i, A, m, g, h, may), d)
  BY <1>1, <1>2, <1>3, <1>5, <1>6, <1>7, FullGrows
<1> QED
  BY <1>2, <1>8 DEF A, m

-----------------------------------------------------------------------------
(* The two sides of the first connection.                                  *)

\* The session has its peer's initial sequence number.
Spoken(s) == s.alive /\ s.state # "LISTEN"

\* The numbers up to the one after the first n bytes of the stream that counts
\* from i.
Upto(i, n) == {w \in Word : Off(i, w) <= 1 + n}

\* The client has opened at most once, and has not closed.
Fresh(s, n) ==
  s.alive /\ (s.state \in {"SYN_SENT", "ESTABLISHED"} \/ (s.state = "CLOSED" /\ n = 0))

\* What the client s may send besides data, to d, when it has received n bytes of
\* the stream that counts from j.
Asks(s, d, i, j, n) ==
  [syn |-> IF s.state = "CLOSED" THEN {} ELSE {i}, joins |-> {}, open |-> {d},
   acks |-> IF s.state = "ESTABLISHED" THEN Upto(j, n) ELSE {}, fin |-> FALSE, rst |-> FALSE]

\* What the server q may, when it has received n bytes of the stream that counts
\* from i.
Answers(q, i, j, n) ==
  [syn |-> {}, joins |-> IF Spoken(q) THEN {j} ELSE {}, open |-> {},
   acks |-> IF Spoken(q) THEN Upto(i, n) ELSE {}, fin |-> TRUE, rst |-> TRUE]

\* The client s, which counts from i, has received R, the server q, which counts
\* from j, has received Q; g and x are the last bytes that they have sent.
Linked(s, q, R, Q, i, j, g, x, y) ==
  /\ Reads(q, Q, {i}, g) /\ Reads(s, R, {j}, x)
  /\ s.state = "CLOSED" => ~Spoken(q)
  /\ s.state = "ESTABLISHED" => Spoken(q) /\ s.send_unack \in Upto(i, Len(Q))
  /\ q.state \notin Late
  /\ Spoken(q) => Off(i, q.recv_next) = 1 + Len(Q)
  /\ ~Spoken(q) => x = 0 /\ y = 0
  /\ q.state = "ESTABLISHED" => q.send_unack \in Upto(j, Len(R))

\* The pledges of the client c and of the server v.
Dial(c, i, j, g, h) ==
  Full(i, accepted[c], MaxBytes[c], g, h, Asks(sess[c], Peer(c), i, j, Len(Received(c))))
Reply(v, i, j, x, y) ==
  Full(j, accepted[v], MaxBytes[v], x, y, Answers(sess[v], i, j, Len(Received(v))))

\* They keep to them, and their streams are linked.
Pair(c, i, j, g, h, x, y) ==
  LET v == Peer(c)
  IN  /\ Bound(c, Dial(c, i, j, g, h)) /\ Marks(sess[c], Dial(c, i, j, g, h))
      /\ Bound(v, Reply(v, i, j, x, y)) /\ Marks(sess[v], Reply(v, i, j, x, y))
      /\ Linked(sess[c], sess[v], Received(c), Received(v), i, j, g, x, y)
      /\ sess[c].state # "CLOSED" => opens[c] > 0

\* As long as the first connection lasts, there are such numbers.
Connected(c) ==
  Fresh(sess[c], opens[c]) =>
    \E i \in ISS[c], j \in ISS[Peer(c)], g, h, x, y \in Int : Pair(c, i, j, g, h, x, y)

\* More of a stream has more numbers.
LEMMA UptoMore ==
  ASSUME NEW i \in Word, NEW n \in Nat, NEW k \in Nat, n <= k
  PROVE  Upto(i, n) \subseteq Upto(i, k)
<1> SUFFICES ASSUME NEW w \in Word, Off(i, w) <= 1 + n PROVE Off(i, w) <= 1 + k
  BY DEF Upto
<1> QED
  BY OffArith

\* What has been received is a sequence of bytes.
LEMMA ReceivedType ==
  ASSUME SessionsOK, RestOK, NEW e \in Addr
  PROVE  /\ Received(e) \in Seq(Byte) /\ Len(Received(e)) \in Nat
         /\ delivered[e] \in Seq(Byte) /\ sess[e].recv_buffer \in Seq(Byte)
<1>1. delivered[e] \in Seq(Byte) /\ sess[e].recv_buffer \in Seq(Byte)
  BY DEF RestOK, SessionsOK, Session
<1> QED
  BY <1>1, ConcatFacts, LenProperties DEF Received

\* A client that goes on may send more.
LEMMA AsksMore ==
  ASSUME NEW s, NEW r, NEW d, NEW i \in Word, NEW j \in Word, NEW n \in Nat, NEW k \in Nat,
         n <= k, s.state # "CLOSED" => r.state # "CLOSED",
         s.state = "ESTABLISHED" => r.state = "ESTABLISHED"
  PROVE  More(Asks(s, d, i, j, n), Asks(r, d, i, j, k))
<1>1. Upto(j, n) \subseteq Upto(j, k)
  BY UptoMore
<1> QED
  BY <1>1 DEF More, Asks

\* So may a server.
LEMMA AnswersMore ==
  ASSUME NEW q, NEW r, NEW i \in Word, NEW j \in Word, NEW n \in Nat, NEW k \in Nat,
         n <= k, Spoken(q) => Spoken(r)
  PROVE  More(Answers(q, i, j, n), Answers(r, i, j, k))
<1>1. Upto(i, n) \subseteq Upto(i, k)
  BY UptoMore
<1> QED
  BY <1>1 DEF More, Answers

\* What a commit leaves of a session says the same of the two sides.
LEMMA SameSides ==
  ASSUME NEW r, WellFormed(r), NEW q, q = [r EXCEPT !.out = NothingSent]
  PROVE  /\ \A n : Fresh(q, n) <=> Fresh(r, n)
         /\ q.recv_buffer = r.recv_buffer /\ q.state = r.state
         /\ \A b : Marks(r, b) <=> Marks(q, b)
         /\ \A d, i, j, n : Asks(q, d, i, j, n) = Asks(r, d, i, j, n)
         /\ \A i, j, n : Answers(q, i, j, n) = Answers(r, i, j, n)
         /\ \A s, R, Q, i, j, g, x, y :
              /\ Linked(q, s, R, Q, i, j, g, x, y) <=> Linked(r, s, R, Q, i, j, g, x, y)
              /\ Linked(s, q, R, Q, i, j, g, x, y) <=> Linked(s, r, R, Q, i, j, g, x, y)
<1>1. /\ q.alive = r.alive /\ q.state = r.state /\ q.send_unack = r.send_unack
      /\ q.recv_next = r.recv_next /\ q.recv_buffer = r.recv_buffer
      /\ \A b : Marks(r, b) <=> Marks(q, b)
  BY OutKept DEF SameNumbers
<1>2. /\ Spoken(q) <=> Spoken(r)
      /\ \A R, J, lim : Reads(q, R, J, lim) <=> Reads(r, R, J, lim)
  BY <1>1 DEF Spoken, Reads
<1>3. Spoken(q) = Spoken(r)
  BY <1>1 DEF Spoken
<1>4. \A s, R, Q, i, j, g, x, y :
              /\ Linked(q, s, R, Q, i, j, g, x, y) <=> Linked(r, s, R, Q, i, j, g, x, y)
              /\ Linked(s, q, R, Q, i, j, g, x, y) <=> Linked(s, r, R, Q, i, j, g, x, y)
  BY <1>1, <1>2 DEF Linked
<1> QED
  BY <1>1, <1>3, <1>4 DEF Fresh, Asks, Answers

\* A stack that keeps to a pledge keeps to one that has grown.
LEMMA BoundMore ==
  ASSUME SessionsOK, NetOK, NEW e \in Addr, NEW b, Pledge(b), Bound(e, b),
         NEW c, Pledge(c), Grows(b, c), Holds(sess[e], c)
  PROVE  Bound(e, c)
<1>1. WellFormed(sess[e])
  BY DEF SessionsOK, SessionInv
<1>2. Mail(sess[e], c)
  BY <1>1, GrowsMail DEF Bound
<1>3. ASSUME NEW d \in Addr, NEW x \in 1..Len(net[d]), net[d][x].src = e
      PROVE  PacketOK(c, d, net[d][x])
  <2>1. net[d][x] \in myu_tcp_packet
    BY DEF NetOK
  <2>2. PacketOK(b, d, net[d][x])
    BY <1>3 DEF Bound, NetOf
  <2> QED
    BY <2>1, <2>2, GrowsMail
<1> QED
  BY <1>2, <1>3 DEF Bound, NetOf

\* As long as a stack has sent no data, its pledge may name any number.
LEMMA Renumber ==
  ASSUME SessionsOK, NetOK, NEW e \in Addr, sess[e].state \in {"CLOSED", "LISTEN"},
         NEW i \in Word, NEW k \in Word, NEW A \in Nat, NEW m \in Nat, m + 2 < SeqMod, NEW may,
         Bound(e, Full(i, A, m, 0, 0, may)), NEW might, More(may, might)
  PROVE  Bound(e, Full(k, A, m, 0, 0, might)) /\ Marks(sess[e], Full(k, A, m, 0, 0, might))
<1>1. PICK b : b = Full(i, A, m, 0, 0, may)
  OBVIOUS
<1>2. PICK c : c = Full(k, A, m, 0, 0, might)
  OBVIOUS
<1>3. /\ Pledge(b) /\ Pledge(c) /\ b.any = c.any /\ b.A = c.A /\ b.m = c.m
  BY <1>1, <1>2 DEF Full, Pledge
<1>4. Grows(b, c)
  BY <1>1, <1>2 DEF Full, Grows, More
<1>5. Holds(sess[e], c)
  BY <1>1, <1>3, UnnumberedHolds DEF Bound
<1>6. Bound(e, c)
  BY <1>1, <1>3, <1>4, <1>5, BoundMore
<1>7. Marks(sess[e], c)
  BY <1>2 DEF Full, Marks, Streaming, Crossing
<1> QED
  BY <1>2, <1>6, <1>7

\* As long as the client has not opened, its number is open.
LEMMA CallerAnew ==
  ASSUME SessionsOK, NetOK, RestOK, StreamAssumption, NEW c \in Connectors,
         NEW i \in ISS[c], NEW j \in ISS[Peer(c)], NEW g \in Int, NEW h \in Int,
         NEW x \in Int, NEW y \in Int, Pair(c, i, j, g, h, x, y),
         sess[c].alive, sess[c].state = "CLOSED", NEW k \in ISS[c]
  PROVE  Pair(c, k, j, 0, 0, x, y)
<1> DEFINE v == Peer(c)
           s == sess[c]
           q == sess[v]
           n == Len(Received(c))
<1>1. /\ c \in Addr /\ MaxBytes[c] \in Nat /\ MaxBytes[c] + 2 < SeqMod /\ ISS[c] \in SUBSET Word
      /\ accepted[c] \in Nat
  BY StreamFacts DEF RestOK
<1>2. /\ Bound(c, Dial(c, i, j, g, h)) /\ Marks(s, Dial(c, i, j, g, h))
      /\ Bound(v, Reply(v, i, j, x, y)) /\ Marks(q, Reply(v, i, j, x, y))
      /\ Linked(s, q, Received(c), Received(v), i, j, g, x, y)
  BY DEF Pair
<1>3. g = 0 /\ h = 0
  <2>1. PICK b : b = Dial(c, i, j, g, h)
    OBVIOUS
  <2>2. b.g = g /\ b.h = h
    BY <2>1 DEF Dial, Full
  <2>3. Marks(s, b) /\ s.alive /\ s.state = "CLOSED"
    BY <1>2, <2>1
  <2> QED
    BY <2>2, <2>3 DEF Marks, Opening
<1>4. ~Spoken(q) /\ s.state = "CLOSED" /\ s.alive
  BY <1>2 DEF Linked
<1>5. Reply(v, k, j, x, y) = Reply(v, i, j, x, y)
  BY <1>4 DEF Reply, Answers
<1>6. Linked(s, q, Received(c), Received(v), k, j, 0, x, y)
  <2>1. Reads(q, Received(v), {k}, 0)
    BY <1>2, <1>4 DEF Linked, Reads, Spoken
  <2> QED
    BY <1>2, <1>4, <2>1 DEF Linked
<1>7. Bound(c, Dial(c, k, j, 0, 0)) /\ Marks(s, Dial(c, k, j, 0, 0))
  <2>1. More(Asks(s, v, i, j, n), Asks(s, v, k, j, n))
    BY <1>4 DEF More, Asks
  <2>2. Bound(c, Full(i, accepted[c], MaxBytes[c], 0, 0, Asks(s, v, i, j, n)))
    BY <1>2, <1>3 DEF Dial
  <2>3. i \in Word /\ k \in Word
    BY <1>1
  <2> HIDE DEF v, n
  <2>4. /\ Bound(c, Full(k, accepted[c], MaxBytes[c], 0, 0, Asks(s, v, k, j, n)))
        /\ Marks(s, Full(k, accepted[c], MaxBytes[c], 0, 0, Asks(s, v, k, j, n)))
    BY <1>1, <1>4, <2>1, <2>2, <2>3, Renumber
  <2> QED
    BY <2>4 DEF Dial, v, n
<1> QED
  BY <1>2, <1>4, <1>5, <1>6, <1>7 DEF Pair

\* As long as the server has not taken the client's number, its own is open.
LEMMA CalleeAnew ==
  ASSUME SessionsOK, NetOK, RestOK, StreamAssumption, NEW c \in Connectors,
         NEW i \in ISS[c], NEW j \in ISS[Peer(c)], NEW g \in Int, NEW h \in Int,
         NEW x \in Int, NEW y \in Int, Pair(c, i, j, g, h, x, y), Fresh(sess[c], opens[c]),
         ~Spoken(sess[Peer(c)]), NEW k \in ISS[Peer(c)]
  PROVE  Pair(c, i, k, g, h, 0, 0) /\ sess[Peer(c)].state \in {"CLOSED", "LISTEN"}
         /\ sess[c].state \in {"CLOSED", "SYN_SENT"}
<1> DEFINE v == Peer(c)
           s == sess[c]
           q == sess[v]
           n == Len(Received(v))
<1>1. /\ v \in Addr /\ MaxBytes[v] \in Nat /\ MaxBytes[v] + 2 < SeqMod /\ ISS[v] \in SUBSET Word
      /\ accepted[v] \in Nat
  BY StreamFacts DEF RestOK
<1>2. /\ Bound(c, Dial(c, i, j, g, h)) /\ Marks(s, Dial(c, i, j, g, h))
      /\ Bound(v, Reply(v, i, j, x, y)) /\ Marks(q, Reply(v, i, j, x, y))
      /\ Linked(s, q, Received(c), Received(v), i, j, g, x, y)
      /\ s.state # "CLOSED" => opens[c] > 0
  BY DEF Pair
<1>3. x = 0 /\ y = 0 /\ ~Spoken(q)
  BY <1>2 DEF Linked
<1>4. q.state \in {"CLOSED", "LISTEN"}
  BY <1>2, <1>3 DEF Bound, Holds, Flight, Spoken
<1>5. s.state \in {"CLOSED", "SYN_SENT"}
  BY <1>2, <1>3 DEF Linked, Fresh
<1>6. Dial(c, i, k, g, h) = Dial(c, i, j, g, h)
  BY <1>5 DEF Dial, Asks
<1>7. Linked(s, q, Received(c), Received(v), i, k, g, 0, 0)
  <2>1. Reads(s, Received(c), {k}, 0)
    BY <1>2, <1>5 DEF Linked, Reads
  <2> QED
    BY <1>2, <1>3, <1>4, <1>5, <2>1 DEF Linked
<1>8. Bound(v, Reply(v, i, k, 0, 0)) /\ Marks(q, Reply(v, i, k, 0, 0))
  <2>1. More(Answers(q, i, j, n), Answers(q, i, k, n))
    BY <1>3 DEF More, Answers
  <2>2. Bound(v, Full(j, accepted[v], MaxBytes[v], 0, 0, Answers(q, i, j, n)))
    BY <1>2, <1>3 DEF Reply
  <2>3. j \in Word /\ k \in Word
    BY <1>1
  <2> HIDE DEF v, n
  <2>4. /\ Bound(v, Full(k, accepted[v], MaxBytes[v], 0, 0, Answers(q, i, k, n)))
        /\ Marks(q, Full(k, accepted[v], MaxBytes[v], 0, 0, Answers(q, i, k, n)))
    BY <1>1, <1>4, <2>1, <2>2, <2>3, Renumber
  <2> QED
    BY <2>4 DEF Reply, n
<1> QED
  BY <1>2, <1>4, <1>5, <1>6, <1>7, <1>8 DEF Pair

\* What the client's pledge b says, in plain words.
DialSays(b, c, i, j, g, h) ==
  /\ b = Dial(c, i, j, g, h) /\ Pledge(b) /\ ~b.any /\ b.i = i
  /\ b.I = {i} /\ b.g = g /\ b.h = h /\ b.A = accepted[c] /\ b.m = MaxBytes[c]
  /\ b.syn = (IF sess[c].state = "CLOSED" THEN {} ELSE {i}) /\ b.joins = {}
  /\ b.open = {Peer(c)} /\ b.fin = FALSE /\ b.rst = FALSE
  /\ b.acks = (IF sess[c].state = "ESTABLISHED" THEN Upto(j, Len(Received(c))) ELSE {})
  /\ g \in 0..MaxBytes[c] /\ g <= accepted[c] /\ h \in 0..(MaxBytes[c] + 1) /\ i \in Word
  /\ Bound(c, b) /\ Marks(sess[c], b)

\* What the server's pledge d says.
ReplySays(d, v, i, j, x, y) ==
  /\ d = Reply(v, i, j, x, y) /\ Pledge(d) /\ ~d.any /\ d.i = j
  /\ d.I = {j} /\ d.g = x /\ d.h = y /\ d.A = accepted[v] /\ d.m = MaxBytes[v]
  /\ d.syn = {} /\ d.joins = (IF Spoken(sess[v]) THEN {j} ELSE {})
  /\ d.acks = (IF Spoken(sess[v]) THEN Upto(i, Len(Received(v))) ELSE {})
  /\ x \in 0..MaxBytes[v] /\ x <= accepted[v] /\ y \in 0..(MaxBytes[v] + 1) /\ j \in Word
  /\ Bound(v, d) /\ Marks(sess[v], d)

\* They say so.
LEMMA PairSays ==
  ASSUME StreamAssumption, RestOK, NEW c \in Connectors,
         NEW i \in ISS[c], NEW j \in ISS[Peer(c)], NEW g \in Int, NEW h \in Int,
         NEW x \in Int, NEW y \in Int, Pair(c, i, j, g, h, x, y)
  PROVE  /\ \E b : DialSays(b, c, i, j, g, h)
         /\ \E d : ReplySays(d, Peer(c), i, j, x, y)
         /\ Linked(sess[c], sess[Peer(c)], Received(c), Received(Peer(c)), i, j, g, x, y)
<1>1. ASSUME NEW b, b = Dial(c, i, j, g, h) PROVE DialSays(b, c, i, j, g, h)
  <2>1. /\ c \in Addr /\ i \in Word /\ MaxBytes[c] \in Nat /\ MaxBytes[c] + 2 < SeqMod
        /\ accepted[c] \in Nat
    BY StreamFacts DEF RestOK
  <2>2. Bound(c, b) /\ Marks(sess[c], b)
    BY <1>1 DEF Pair
  <2>3. /\ Pledge(b) /\ ~b.any /\ b.i = i /\ b.I = {i} /\ b.g = g /\ b.h = h
        /\ b.A = accepted[c] /\ b.m = MaxBytes[c]
        /\ b.syn = (IF sess[c].state = "CLOSED" THEN {} ELSE {i}) /\ b.joins = {}
        /\ b.open = {Peer(c)} /\ b.fin = FALSE /\ b.rst = FALSE
        /\ b.acks = (IF sess[c].state = "ESTABLISHED" THEN Upto(j, Len(Received(c))) ELSE {})
    BY <1>1, <2>1 DEF Dial, Full, Asks, Pledge
  <2>4. g \in 0..MaxBytes[c] /\ g <= accepted[c] /\ h \in 0..(MaxBytes[c] + 1)
    BY <2>2, <2>3 DEF Marks
  <2> QED
    BY <1>1, <2>1, <2>2, <2>3, <2>4 DEF DialSays
<1>2. ASSUME NEW d, d = Reply(Peer(c), i, j, x, y) PROVE ReplySays(d, Peer(c), i, j, x, y)
  <2>1. PICK v : v = Peer(c)
    OBVIOUS
  <2>2. /\ v \in Addr /\ j \in Word /\ MaxBytes[v] \in Nat /\ MaxBytes[v] + 2 < SeqMod
        /\ accepted[v] \in Nat
    BY <2>1, StreamFacts DEF RestOK
  <2>3. Bound(v, d) /\ Marks(sess[v], d)
    BY <1>2, <2>1 DEF Pair
  <2>4. /\ Pledge(d) /\ ~d.any /\ d.i = j /\ d.I = {j} /\ d.g = x /\ d.h = y
        /\ d.A = accepted[v] /\ d.m = MaxBytes[v]
        /\ d.syn = {} /\ d.joins = (IF Spoken(sess[v]) THEN {j} ELSE {})
        /\ d.acks = (IF Spoken(sess[v]) THEN Upto(i, Len(Received(v))) ELSE {})
    BY <1>2, <2>1, <2>2 DEF Reply, Full, Answers, Pledge
  <2>5. x \in 0..MaxBytes[v] /\ x <= accepted[v] /\ y \in 0..(MaxBytes[v] + 1)
    BY <2>3, <2>4 DEF Marks
  <2> QED
    BY <1>2, <2>1, <2>2, <2>3, <2>4, <2>5 DEF ReplySays
<1> QED
  BY <1>1, <1>2 DEF Pair

\* What a packet that reaches the client may say.
LEMMA CallerHears ==
  ASSUME SessionsOK, RestOK, StreamAssumption, Basic, NEW c \in Connectors,
         NEW i \in ISS[c], NEW j \in ISS[Peer(c)], NEW g \in Int, NEW h \in Int,
         NEW x \in Int, NEW y \in Int, Pair(c, i, j, g, h, x, y), Fresh(sess[c], opens[c]),
         NEW r, NEW packet, Takes(c, r, packet)
  PROVE  /\ Proper(packet, {j}, x)
         /\ "SYN" \in packet.flags => packet.seq = j /\ Spoken(sess[Peer(c)])
         /\ "ACK" \in packet.flags /\ Off(i, packet.ack) <= 1 + MaxBytes[c]
              => packet.ack \in Upto(i, Len(Received(Peer(c))))
<1> DEFINE v == Peer(c)
           R == Received(c)
           Q == Received(v)
<1>1. /\ c \in Addr /\ v \in Addr /\ v # c /\ (\A d \in Addr : d = c \/ d = v)
      /\ ISS[v] \in SUBSET Word /\ MaxBytes[c] \in Nat /\ MaxBytes[v] \in Nat /\ ClientServer
  BY StreamFacts
<1>2. Arrives(c, packet) /\ packet \in myu_tcp_packet /\ packet.src \in Addr /\ sess[c].alive
      /\ packet.ack \in Word
  BY <1>1, TakesFollows DEF myu_tcp_packet
<1>3. /\ \E b : DialSays(b, c, i, j, g, h)
      /\ \E d : ReplySays(d, v, i, j, x, y)
      /\ Linked(sess[c], sess[v], R, Q, i, j, g, x, y)
  BY PairSays
<1>4. PICK b : DialSays(b, c, i, j, g, h)
  BY <1>3
<1>5. /\ Pledge(b) /\ ~b.any /\ b.I = {i} /\ b.g = g /\ b.h = h /\ b.joins = {} /\ b.open = {v}
      /\ b.acks = (IF sess[c].state = "ESTABLISHED" THEN Upto(j, Len(R)) ELSE {})
      /\ g \in 0..MaxBytes[c] /\ h \in 0..(MaxBytes[c] + 1) /\ i \in Word /\ Bound(c, b)
  BY <1>4 DEF DialSays
<1>6. PICK d : ReplySays(d, v, i, j, x, y)
  BY <1>3
<1>7. /\ Pledge(d) /\ ~d.any /\ d.I = {j} /\ d.g = x /\ d.h = y /\ d.syn = {}
      /\ d.joins = (IF Spoken(sess[v]) THEN {j} ELSE {})
      /\ d.acks = (IF Spoken(sess[v]) THEN Upto(i, Len(Q)) ELSE {})
      /\ x \in 0..MaxBytes[v] /\ y \in 0..(MaxBytes[v] + 1) /\ j \in Word /\ Bound(v, d)
  BY <1>6 DEF ReplySays
<1>8. x \in Nat /\ x <= MaxBytes[v] /\ g <= MaxBytes[c] /\ h <= MaxBytes[c] + 1
      /\ y <= MaxBytes[v] + 1
  BY <1>1, <1>5, <1>7
<1>9. ASSUME Proper(packet, ISS[v], x), "SYN" \in packet.flags => packet.seq = j
      PROVE  Proper(packet, {j}, x)
  BY <1>9 DEF Proper
<1> HIDE DEF R, Q
<1>10. CASE packet.src = v
  <2>1. PacketOK(d, c, packet)
    BY <1>1, <1>2, <1>7, <1>10, ArrivesOK
  <2>2. "SYN" \in packet.flags => packet.seq = j /\ Spoken(sess[v])
    BY <1>7, <2>1 DEF PacketOK
  <2>3. "ACK" \in packet.flags => packet.ack \in Upto(i, Len(Q))
    BY <1>7, <2>1 DEF PacketOK
  <2>4. Proper(packet, ISS[v], x)
    <3>1. d.I \subseteq ISS[v] /\ d.g <= MaxBytes[v] /\ d.h <= MaxBytes[v] + 1 /\ d.g = x
      BY <1>7, <1>8
    <3> HIDE DEF v
    <3> QED
      BY <1>1, <1>2, <1>7, <1>8, <2>1, <2>2, <3>1, DataProper DEF v
  <2> QED
    BY <1>9, <2>2, <2>3, <2>4 DEF Q
<1>11. CASE packet.src = c
  <2>1. PacketOK(b, c, packet)
    BY <1>1, <1>2, <1>5, <1>11, ArrivesOK
  <2>2. "SYN" \notin packet.flags
    BY <1>1, <1>5, <2>1 DEF PacketOK
  <2>3. ASSUME "ACK" \in packet.flags, Off(i, packet.ack) <= 1 + MaxBytes[c] PROVE FALSE
    <3>1. packet.ack \in b.acks
      BY <2>1, <2>3 DEF PacketOK
    <3>2. packet.ack \in Upto(j, Len(R)) /\ sess[c].state = "ESTABLISHED"
      BY <1>5, <3>1
    <3>3. Len(R) <= x /\ Len(R) \in Nat
      BY <1>1, <1>2, <1>3, <3>2, ReceivedType DEF Linked, Reads, R
    <3>4. Off(j, packet.ack) <= 1 + Len(R) /\ Off(j, packet.ack) \in Nat
      BY <1>2, <1>7, <3>2, OffArith DEF Upto
    <3>5. Off(j, packet.ack) <= 1 + MaxBytes[v]
      BY <1>1, <1>8, <3>3, <3>4
    <3>6. Off(i, packet.ack) \in Nat
      BY <1>2, <1>5, OffArith
    <3>7. ~(Minus(packet.ack, i) > MaxBytes[c] + 1) /\ ~(Minus(packet.ack, j) > MaxBytes[v] + 1)
      <4> DEFINE k == Off(i, packet.ack)
                 l == Off(j, packet.ack)
                 M == MaxBytes[c]
                 N == MaxBytes[v]
      <4>1. k \in Nat /\ l \in Nat /\ M \in Nat /\ N \in Nat /\ k <= 1 + M /\ l <= 1 + N
        BY <1>1, <2>3, <3>4, <3>5, <3>6
      <4>2. k = Minus(packet.ack, i) /\ l = Minus(packet.ack, j)
        BY DEF Off
      <4> HIDE DEF k, l, M, N
      <4>3. ~(k > M + 1) /\ ~(l > N + 1)
        BY <4>1
      <4> QED
        BY <4>2, <4>3 DEF M, N
    <3> QED
      BY <1>1, <1>2, <3>7 DEF StreamAssumption, Apart
  <2>4. Proper(packet, ISS[v], x)
    <3>1. b.I \subseteq ISS[c] /\ b.g <= MaxBytes[c] /\ b.h <= MaxBytes[c] + 1
      BY <1>5, <1>8
    <3> HIDE DEF v
    <3> QED
      BY <1>1, <1>2, <1>5, <1>8, <2>1, <2>2, <3>1, DataProper DEF v
  <2> QED
    BY <1>9, <2>2, <2>3, <2>4
<1> QED
  BY <1>1, <1>2, <1>10, <1>11

\* The client makes r of its session: its pledge has grown, and the streams are
\* still linked.
CallerGoes(c, r, i, j, g, h, x, y) ==
  LET R == delivered'[c] \o r.recv_buffer
  IN  \E k, l \in Int :
        LET d == Full(i, accepted'[c], MaxBytes[c], k, l, Asks(r, Peer(c), i, j, Len(R)))
        IN  /\ Holds(r, d) /\ Mail(r, d) /\ Marks(r, d) /\ Grows(Dial(c, i, j, g, h), d)
            /\ Linked(r, sess[Peer(c)], R, Received(Peer(c)), i, j, k, x, y)

\* So it is for connect().
LEMMA CallerOpens ==
  ASSUME SessionsOK, RestOK, StreamAssumption, Basic, NEW c \in Connectors,
         NEW i \in ISS[c], NEW j \in ISS[Peer(c)], NEW x \in Int, NEW y \in Int,
         Pair(c, i, j, 0, 0, x, y), NEW r, Opens(c, r), r = connect(sess[c], i)
  PROVE  CallerGoes(c, r, i, j, 0, 0, x, y)
<1> DEFINE v == Peer(c)
           s == sess[c]
           R == Received(c)
           A == accepted[c]
           m == MaxBytes[c]
<1>1. /\ s.alive /\ s.state = "CLOSED" /\ accepted' = accepted /\ delivered' = delivered
      /\ SessionInv(s) /\ WellFormed(s) /\ s.remote = v /\ c \in Addr /\ i \in Word
      /\ A \in Nat /\ m \in Nat /\ m + 2 < SeqMod
  BY StreamFacts DEF Opens, Unread, SessionsOK, SessionInv, RestOK, Basic, Placed
<1>2. /\ \E b : DialSays(b, c, i, j, 0, 0)
      /\ Linked(s, sess[v], R, Received(v), i, j, 0, x, y)
  BY PairSays
<1>3. PICK b : DialSays(b, c, i, j, 0, 0)
  BY <1>2
<1>4. /\ Pledge(b) /\ ~b.any /\ b.i = i /\ b.I = {i} /\ b.g = 0 /\ b.h = 0 /\ b.A = A /\ b.m = m
      /\ b.syn = {} /\ b.joins = {} /\ b.open = {v} /\ b.fin = FALSE /\ b.rst = FALSE
      /\ b.acks = {} /\ Holds(s, b) /\ Mail(s, b) /\ b = Dial(c, i, j, 0, 0)
  BY <1>1, <1>3 DEF DialSays, Bound
<1>5. PICK n : n = Len(R)
  OBVIOUS
<1>6. PICK d : d = Full(i, A, m, 0, 0, Asks(r, v, i, j, n))
  OBVIOUS
<1> HIDE DEF s, R, v
<1>7. /\ Pledge(d) /\ ~d.any /\ d.i = i /\ d.I = {i} /\ d.g = 0 /\ d.h = 0 /\ d.A = A /\ d.m = m
      /\ d.joins = {} /\ d.open = {v} /\ d.fin = FALSE /\ d.rst = FALSE
      /\ d.syn = (IF r.state = "CLOSED" THEN {} ELSE {i})
  BY <1>1, <1>6 DEF Full, Asks, Pledge
<1>8. Grows(b, d)
  BY <1>4, <1>7 DEF Grows, Pledge
<1>9. Mail(s, d)
  BY <1>1, <1>4, <1>7, <1>8, GrowsMail
<1>10. Holds(s, d)
  <2>1. b.any = d.any
    BY <1>4, <1>7 DEF Pledge
  <2> QED
    BY <1>4, <1>7, <2>1, SamePledge
<1>11. /\ Holds(r, d) /\ r.alive /\ r.state = "SYN_SENT" /\ r.recv_buffer = s.recv_buffer
       /\ i \in d.syn /\ s.remote \in d.open /\ Mail(s, d) => Mail(r, d)
  BY <1>1, <1>7, <1>10, ConnectCarries DEF s
<1>12. Mail(r, d)
  BY <1>1, <1>7, <1>9, <1>11
<1>13. Marks(r, d)
  BY <1>1, <1>7, <1>11 DEF Marks, Streaming, Crossing
<1>14. delivered'[c] \o r.recv_buffer = R
  BY <1>1, <1>11 DEF R, Received, s
<1>15. Linked(r, sess[v], R, Received(v), i, j, 0, x, y)
  <2>1. Reads(r, R, {j}, x)
    BY <1>1, <1>2, <1>11 DEF Linked, Reads, Opening
  <2> QED
    BY <1>1, <1>2, <1>11, <2>1 DEF Linked
<1>16. 0 \in Int /\ accepted'[c] = A
  BY <1>1
<1> QED
  BY <1>4, <1>5, <1>6, <1>8, <1>11, <1>12, <1>13, <1>14, <1>15, <1>16 DEF CallerGoes, v

\* A call or a timer.
LEMMA CallerUses ==
  ASSUME SessionsOK, NetOK, RestOK, RestOK', StreamAssumption, Basic, NEW c \in Connectors,
         NEW i \in ISS[c], NEW j \in ISS[Peer(c)], NEW g \in Int, NEW h \in Int,
         NEW x \in Int, NEW y \in Int, Pair(c, i, j, g, h, x, y), Fresh(sess[c], opens[c]),
         NEW r, Acts(c, r), Uses(c, r), Fresh(r, opens'[c])
  PROVE  CallerGoes(c, r, i, j, g, h, x, y)
<1> DEFINE v == Peer(c)
           s == sess[c]
           R == Received(c)
           A == accepted[c]
           m == MaxBytes[c]
<1>1. /\ c \in Addr /\ i \in Word /\ j \in Word /\ WellFormed(r) /\ WellFormed(s)
      /\ R \in Seq(Byte) /\ Len(R) \in Nat /\ s.recv_next \in Word /\ Placed(c, s)
  BY StreamFacts, ReceivedType
     DEF Acts, Commits, SessionInv, SessionsOK, WellFormed, Session, Basic
<1>2. /\ s.alive /\ Steady(r, s) /\ Called(c, r) /\ opens' = opens
      /\ delivered'[c] \o r.recv_buffer = R
  BY <1>1, UsesSteady
<1>3. /\ \E b : DialSays(b, c, i, j, g, h)
      /\ Linked(s, sess[v], R, Received(v), i, j, g, x, y)
      /\ s.state # "CLOSED" => opens[c] > 0
  BY PairSays DEF Pair
<1> HIDE DEF R, s
<1>4. r.state = s.state /\ r.state \in {"CLOSED", "SYN_SENT", "ESTABLISHED"} /\ r.alive
  <2>1. s.state = "SYN_SENT" => r.state # "CLOSED"
    <3> SUFFICES ASSUME s.state = "SYN_SENT", r.state = "CLOSED" PROVE FALSE
      OBVIOUS
    <3>1. opens[c] = 0 /\ opens[c] > 0
      BY <1>2, <1>3 DEF Fresh
    <3> QED
      BY <3>1
  <2>2. r.alive /\ s.state # "SYN_RECEIVED" /\ r.state \in {"CLOSED", "SYN_SENT", "ESTABLISHED"}
    BY <1>1 DEF Fresh, Placed
  <2> QED
    BY <1>2, <2>1, <2>2 DEF Steady
<1> DEFINE n == Len(R)
           may == Asks(s, v, i, j, n)
           might == Asks(r, v, i, j, n)
<1>5. More(may, might)
  BY <1>1, <1>4, AsksMore
<1>6. /\ Bound(c, Full(i, A, m, g, h, may)) /\ Marks(s, Full(i, A, m, g, h, may))
  BY DEF Pair, Dial, s, R
<1>7. \/ s.recv_next \in might.acks
      \/ /\ s.state \in {"CLOSED", "LISTEN", "SYN_SENT"} /\ r.state = s.state
         /\ might.acks = {}
  <2>1. CASE s.state = "ESTABLISHED"
    <3>1. Off(j, s.recv_next) = 1 + n
      BY <1>2, <1>3, <2>1 DEF Linked, Reads
    <3>2. s.recv_next \in Upto(j, n)
      BY <1>1, <3>1 DEF Upto
    <3> QED
      BY <1>4, <2>1, <3>2 DEF Asks
  <2>2. CASE s.state # "ESTABLISHED"
    BY <1>4, <2>2 DEF Asks
  <2> QED
    BY <2>1, <2>2
<1>8. r.state \in Opening \cup {"ESTABLISHED"}
  BY <1>4 DEF Opening
<1>9. ~(s.state \in {"SYN_SENT", "SYN_RECEIVED"} /\ r.state = "CLOSED")
  BY <1>4
<1> HIDE DEF may, might
<1>10. \E k, l \in Int :
           LET d == Full(i, accepted'[c], m, k, l, might)
           IN  /\ Holds(r, d) /\ Mail(r, d) /\ Marks(r, d) /\ g <= k
               /\ Grows(Full(i, A, m, g, h, may), d)
  BY <1>1, <1>5, <1>6, <1>7, <1>8, <1>9, UsesGrows DEF s
<1>11. PICK k \in Int, l \in Int :
           LET d == Full(i, accepted'[c], m, k, l, might)
           IN  /\ Holds(r, d) /\ Mail(r, d) /\ Marks(r, d) /\ g <= k
               /\ Grows(Full(i, A, m, g, h, may), d)
  BY <1>10
<1>12. Linked(r, sess[v], R, Received(v), i, j, k, x, y)
  <2>1. Reads(sess[v], Received(v), {i}, k)
    BY <1>1, <1>3, <1>11, StreamFacts, ReceivedType, ReadsMore DEF Linked
  <2>2. Reads(r, R, {j}, x)
    BY <1>2, <1>3, <1>4 DEF Linked, Reads, Steady
  <2>3. r.send_unack = s.send_unack
    BY <1>2 DEF Steady
  <2> QED
    BY <1>3, <1>4, <2>1, <2>2, <2>3 DEF Linked
<1>13. Full(i, A, m, g, h, may) = Dial(c, i, j, g, h)
  BY DEF Dial, may, s, R
<1> QED
  BY <1>2, <1>11, <1>12, <1>13 DEF CallerGoes, might

\* How far an established session has been acknowledged.
LEMMA UnackBound ==
  ASSUME NEW r, WellFormed(r), NEW d, Pledge(d), ~d.any, Holds(r, d), r.state = "ESTABLISHED"
  PROVE  /\ Off(d.i, r.send_unack) = 1 + d.A - Len(r.send_buffer) /\ Off(d.i, r.send_unack) \in Nat
         /\ Off(d.i, r.send_unack) <= 1 + d.m /\ Len(r.send_buffer) \in Nat
         /\ Off(d.i, r.send_unack) <= Off(d.i, r.send_next)
<1>1. r.alive /\ Flight(r) /\ Streaming(r) /\ Numbered(r, d)
  BY DEF Holds, Flight, Streaming
<1>2. /\ d.A \in Nat /\ d.m \in Nat /\ Len(r.send_buffer) \in Nat
      /\ r.send_unack \in Word /\ d.i \in Word /\ Off(d.i, r.send_unack) \in Nat
  BY NumberFacts, LenProperties, OffArith DEF WellFormed, Session, Pledge
<1>3. /\ Off(d.i, r.send_unack) = 1 + d.A - Len(r.send_buffer) /\ d.A <= d.m
  BY <1>1 DEF Numbered
<1>4. Off(d.i, r.send_unack) <= Off(d.i, r.send_next)
  BY <1>1, StreamingNumbers
<1> QED
  BY <1>2, <1>3, <1>4

\* A packet that moves the session on within the first connection adds to what it
\* has received.
LEMMA FollowsLonger ==
  ASSUME NEW s, WellFormed(s), NEW r, NEW packet \in myu_tcp_packet, Follows(r, s, packet),
         ~Gone(r, s, packet), NEW d \in Seq(Byte)
  PROVE  /\ d \o r.recv_buffer \in Seq(Byte)
         /\ Len(d \o s.recv_buffer) \in Nat /\ Len(d \o r.recv_buffer) \in Nat
         /\ Len(d \o s.recv_buffer) <= Len(d \o r.recv_buffer)
<1>1. s.recv_buffer \in Seq(Byte) /\ packet.payload \in Seq(Byte)
  BY DEF WellFormed, Session, myu_tcp_packet
<1>2. PICK a \in Seq(Byte) : a = s.recv_buffer
  BY <1>1
<1>3. PICK p \in Seq(Byte) : p = packet.payload
  BY <1>1
<1>4. PICK b : b = r.recv_buffer
  OBVIOUS
<1>5. b = a \/ b = a \o p
  BY <1>2, <1>3, <1>4 DEF Follows, Kept, Opened, Joined, Accepted
<1>6. /\ a \o p \in Seq(Byte) /\ Len(a \o p) = Len(a) + Len(p)
      /\ Len(a) \in Nat /\ Len(p) \in Nat
  BY ConcatFacts
<1>7. b \in Seq(Byte) /\ Len(b) \in Nat /\ Len(a) <= Len(b)
  <2>1. CASE b = a
    BY <1>6, <2>1
  <2>2. CASE b = a \o p
    BY <1>6, <2>2
  <2> QED
    BY <1>5, <2>1, <2>2
<1>8. /\ d \o a \in Seq(Byte) /\ Len(d \o a) = Len(d) + Len(a) /\ Len(d) \in Nat
  BY ConcatFacts
<1>9. /\ d \o b \in Seq(Byte) /\ Len(d \o b) = Len(d) + Len(b)
  BY <1>7, ConcatFacts
<1>10. Len(d \o a) \in Nat /\ Len(d \o b) \in Nat /\ Len(d \o a) <= Len(d \o b)
  BY <1>6, <1>7, <1>8, <1>9
<1> QED
  BY <1>2, <1>4, <1>9, <1>10

\* A packet.
LEMMA CallerTakes ==
  ASSUME SessionsOK, NetOK, RestOK, RestOK', StreamAssumption, Basic, NEW c \in Connectors,
         NEW i \in ISS[c], NEW j \in ISS[Peer(c)], NEW g \in Int, NEW h \in Int,
         NEW x \in Int, NEW y \in Int, Pair(c, i, j, g, h, x, y), Fresh(sess[c], opens[c]),
         NEW r, Acts(c, r), NEW packet, Takes(c, r, packet), Fresh(r, opens'[c])
  PROVE  CallerGoes(c, r, i, j, g, h, x, y)
<1> DEFINE v == Peer(c)
           s == sess[c]
           q == sess[v]
           R == Received(c)
           Q == Received(v)
           P == delivered'[c] \o r.recv_buffer
           A == accepted[c]
           m == MaxBytes[c]
<1>1. /\ c \in Addr /\ v \in Addr /\ i \in Word /\ j \in Word /\ WellFormed(r) /\ WellFormed(s)
      /\ R \in Seq(Byte) /\ Len(R) \in Nat /\ Q \in Seq(Byte) /\ Len(Q) \in Nat
      /\ s.recv_next \in Word /\ r.recv_next \in Word
      /\ Placed(c, s) /\ ClientServer /\ MaxBytes[v] \in Nat /\ MaxBytes[v] + 2 < SeqMod
      /\ A \in Nat /\ m \in Nat /\ m + 2 < SeqMod /\ delivered[c] \in Seq(Byte)
  <2>1. c \in Addr /\ v \in Addr
    BY StreamFacts
  <2>2. WellFormed(r) /\ WellFormed(s) /\ Placed(c, s)
    BY <2>1 DEF Acts, Commits, SessionInv, SessionsOK, Basic
  <2>3. s.recv_next \in Word /\ r.recv_next \in Word
    BY <2>2 DEF WellFormed, Session
  <2>4. /\ R \in Seq(Byte) /\ Len(R) \in Nat /\ Q \in Seq(Byte) /\ Len(Q) \in Nat
        /\ delivered[c] \in Seq(Byte)
    BY <2>1, ReceivedType
  <2> QED
    <3>1. A \in Nat
      BY <2>1 DEF RestOK
    <3>2. /\ ISS[c] \in SUBSET Word /\ ISS[v] \in SUBSET Word /\ MaxBytes[v] \in Nat
          /\ MaxBytes[v] + 2 < SeqMod /\ m \in Nat /\ m + 2 < SeqMod /\ ClientServer
      BY StreamFacts
    <3>3. i \in Word /\ j \in Word
      BY <3>2
    <3> HIDE DEF A, m, v, R, Q, s
    <3> QED
      BY <2>1, <2>2, <2>3, <2>4, <3>1, <3>2, <3>3
<1>2. /\ s.alive /\ Follows(r, s, packet) /\ Unread /\ opens' = opens /\ opens[c] > 0
      /\ packet \in myu_tcp_packet
  BY <1>1, TakesFollows DEF Takes
<1>3. /\ \E d : ReplySays(d, v, i, j, x, y) /\ Linked(s, q, R, Q, i, j, g, x, y)
  BY PairSays
<1>4. /\ "SYN" \in packet.flags => packet.seq = j /\ Spoken(q)
      /\ "ACK" \in packet.flags /\ Off(i, packet.ack) <= 1 + m => packet.ack \in Upto(i, Len(Q))
  BY CallerHears
<1>5. x \in Nat /\ x + 2 < SeqMod
  <2>1. PICK d : ReplySays(d, v, i, j, x, y)
    BY <1>3
  <2>2. x \in 0..MaxBytes[v]
    BY <2>1 DEF ReplySays
  <2> QED
    BY <1>1, <2>2, SessionAssumption
<1>6. Reads(r, P, {j}, x)
  <2>1. ASSUME NEW p, \/ Takes(c, r, p) /\ s.state \in Opening \cup {"ESTABLISHED"}
                      \/ Begins(c, r, p)
        PROVE  Proper(p, {j}, x)
    <3>1. ~Begins(c, r, p)
      BY DEF Begins, Listeners
    <3> QED
      BY <2>1, <3>1, CallerHears
  <2>2. Reads(s, R, {j}, x) /\ {j} \in SUBSET Word
    BY <1>1, <1>3 DEF Linked
  <2> QED
    BY <1>1, <1>5, <2>1, <2>2, ActsReads
<1>7. r.alive /\ r.state \in {"SYN_SENT", "ESTABLISHED"}
  <2>1. opens'[c] # 0
    BY <1>2
  <2> QED
    BY <2>1 DEF Fresh
<1>8. ~Gone(r, s, packet)
  BY <1>7 DEF Gone
<1>9. P \in Seq(Byte) /\ Len(P) \in Nat /\ Len(R) <= Len(P)
  <2>1. delivered'[c] = delivered[c]
    BY <1>2 DEF Unread
  <2> QED
    BY <1>1, <1>2, <1>8, <2>1, FollowsLonger DEF Received
<1>10. /\ s.state \in {"SYN_SENT", "ESTABLISHED"}
       /\ s.state = "ESTABLISHED" => r.state = "ESTABLISHED"
       /\ s.state = "SYN_SENT" /\ r.state = "ESTABLISHED" => Joined(r, s, packet)
       /\ s.state = "ESTABLISHED" => Learns(r, s, packet)
  BY <1>1, <1>2, <1>7, <1>8 DEF Follows, Kept, Opened, Joined, Accepted, Placed, Opening
<1> HIDE DEF R, Q, P, s, q
<1>11. r.state = "ESTABLISHED" => r.recv_next \in Upto(j, Len(P))
  <2>1. r.state = "ESTABLISHED" => Off(j, r.recv_next) = 1 + Len(P)
    BY <1>6, <1>7 DEF Reads
  <2> QED
    BY <1>1, <1>9, <2>1 DEF Upto
<1>12. s.state = "ESTABLISHED" => s.recv_next \in Upto(j, Len(P))
  <2>1. s.state = "ESTABLISHED" => Off(j, s.recv_next) = 1 + Len(R)
    BY <1>2, <1>3 DEF Linked, Reads
  <2>2. 1 + Len(R) <= 1 + Len(P)
    BY <1>1, <1>9
  <2> QED
    BY <1>1, <2>1, <2>2 DEF Upto
<1> DEFINE may == Asks(s, v, i, j, Len(R))
           might == Asks(r, v, i, j, Len(P))
<1>13. More(may, might)
  BY <1>1, <1>7, <1>9, <1>10, AsksMore
<1>14. Acks(r, s, packet) \subseteq might.acks
  BY <1>7, <1>10, <1>11, <1>12 DEF Acks, Asks
<1>15. Bound(c, Full(i, A, m, g, h, may)) /\ Marks(s, Full(i, A, m, g, h, may))
  BY DEF Pair, Dial, s, R
<1>16. PICK iss \in ISS[c] : r = input(s, packet, iss)
  BY DEF Takes, s
<1> HIDE DEF may, might
<1>17. \E k, l \in Int :
           LET d == Full(i, accepted'[c], m, k, l, might)
           IN  /\ Holds(r, d) /\ Mail(r, d) /\ Marks(r, d) /\ g <= k
               /\ Grows(Full(i, A, m, g, h, may), d)
  BY <1>1, <1>10, <1>13, <1>14, <1>15, <1>16, TakesGrows DEF s
<1>18. PICK k \in Int, l \in Int :
           LET d == Full(i, accepted'[c], m, k, l, might)
           IN  /\ Holds(r, d) /\ Mail(r, d) /\ Marks(r, d) /\ g <= k
               /\ Grows(Full(i, A, m, g, h, may), d)
  BY <1>17
<1>19. r.state = "ESTABLISHED" => Spoken(q) /\ r.send_unack \in Upto(i, Len(Q))
  <2> SUFFICES ASSUME r.state = "ESTABLISHED"
               PROVE  Spoken(q) /\ r.send_unack \in Upto(i, Len(Q))
    OBVIOUS
  <2>1. PICK d : d = Full(i, A, m, k, l, might)
    OBVIOUS
  <2>2. Pledge(d) /\ ~d.any /\ d.i = i /\ d.m = m
    BY <1>1, <2>1 DEF Full, Pledge
  <2>3. Holds(r, d)
    BY <1>2, <1>18, <2>1 DEF Unread
  <2>4. Off(i, r.send_unack) <= 1 + m
    BY <1>1, <2>2, <2>3, UnackBound
  <2>5. CASE s.state = "ESTABLISHED"
    BY <1>3, <1>4, <1>10, <2>4, <2>5 DEF Linked, Learns
  <2>6. CASE s.state = "SYN_SENT"
    BY <1>4, <1>10, <2>4, <2>6 DEF Joined
  <2> QED
    BY <1>10, <2>5, <2>6
<1>20. q.state = "ESTABLISHED" => q.send_unack \in Upto(j, Len(P))
  BY <1>1, <1>3, <1>9, UptoMore DEF Linked
<1>21. Linked(r, q, P, Q, i, j, k, x, y)
  <2>1. Reads(q, Q, {i}, k)
    BY <1>1, <1>3, <1>18, ReadsMore DEF Linked
  <2> QED
    BY <1>3, <1>6, <1>7, <1>19, <1>20, <2>1 DEF Linked
<1>22. Full(i, A, m, g, h, may) = Dial(c, i, j, g, h)
  BY DEF Dial, may, s, R
<1> QED
  BY <1>18, <1>21, <1>22 DEF CallerGoes, might, P, q, Q

\* A client that is fresh after its step was so before.
LEMMA CallerWasFresh ==
  ASSUME SessionsOK, RestOK, StreamAssumption, MaxOpens <= 1, Basic, NEW c \in Connectors,
         NEW r, Acts(c, r), Fresh(r, opens'[c])
  PROVE  Fresh(sess[c], opens[c]) /\ ~Ends(c, r) /\ \A packet : ~Begins(c, r, packet)
<1> DEFINE s == sess[c]
<1>1. /\ c \in Addr /\ ClientServer /\ Placed(c, s) /\ opens \in [Addr -> Nat]
      /\ opens[c] \in Nat /\ MaxOpens \in Nat
  BY StreamFacts, ConnectionAssumption DEF Basic, RestOK
<1>2. CASE Opens(c, r)
  <2>1. opens[c] = 0 /\ opens'[c] = 1
    BY <1>1, <1>2 DEF Opens
  <2>2. ~Ends(c, r)
    <3>1. opens'[c] = opens[c] + 1 /\ opens'[c] # opens[c]
      BY <1>1, <2>1
    <3> QED
      BY <3>1 DEF Ends
  <2> QED
    BY <1>2, <2>1, <2>2 DEF Opens, Fresh, Begins, Listeners
<1>3. r.alive
  BY DEF Fresh
<1>4. ~Ends(c, r)
  BY <1>1, <1>3, EndsCarries DEF Ends
<1>5. CASE Uses(c, r)
  <2>1. s.alive /\ Steady(r, s) /\ opens' = opens
    BY <1>1, <1>5, UsesSteady
  <2>2. Fresh(s, opens[c])
    BY <1>1, <2>1 DEF Steady, Fresh, Placed
  <2> QED
    BY <1>4, <2>1, <2>2 DEF Begins, Listeners
<1>6. ASSUME NEW packet, Takes(c, r, packet)
      PROVE  Fresh(s, opens[c])
  <2>1. s.alive /\ Follows(r, s, packet) /\ opens' = opens /\ opens[c] > 0
    BY <1>1, <1>6, TakesFollows DEF Takes
  <2>2. opens'[c] # 0
    BY <1>1, <2>1
  <2>3. r.state \in {"SYN_SENT", "ESTABLISHED"}
    BY <2>2 DEF Fresh
  <2>4. s.state \in {"SYN_SENT", "ESTABLISHED"}
    BY <1>1, <1>3, <2>1, <2>3
       DEF Follows, Gone, Kept, Opened, Joined, Accepted, Placed, Opening
  <2> QED
    BY <2>1, <2>4 DEF Fresh
<1>7. \A packet : ~Begins(c, r, packet)
  BY DEF Begins, Listeners
<1> QED
  BY <1>2, <1>4, <1>5, <1>6, <1>7 DEF Acts

\* Whatever the client does, both sides go on.
LEMMA CallerActs ==
  ASSUME SessionsOK, NetOK, RestOK, RestOK', StreamAssumption, MaxOpens <= 1, Basic,
         NEW c \in Connectors, NEW r, Acts(c, r), Fresh(r, opens'[c]), Connected(c)
  PROVE  /\ \E i \in ISS[c], j \in ISS[Peer(c)], g, h, x, y \in Int :
              Pair(c, i, j, g, h, x, y) /\ CallerGoes(c, r, i, j, g, h, x, y)
         /\ r.state # "CLOSED" => opens'[c] > 0
<1>1. Fresh(sess[c], opens[c]) /\ ~Ends(c, r) /\ \A packet : ~Begins(c, r, packet)
  BY CallerWasFresh
<1>2. PICK i \in ISS[c], j \in ISS[Peer(c)], g \in Int, h \in Int, x \in Int, y \in Int :
        Pair(c, i, j, g, h, x, y)
  BY <1>1 DEF Connected
<1>3. c \in Addr /\ opens \in [Addr -> Nat] /\ opens[c] \in Nat
  BY StreamFacts DEF RestOK
<1>4. sess[c].state # "CLOSED" => opens[c] > 0
  BY <1>2 DEF Pair
<1>5. CASE Opens(c, r)
  <2>1. PICK k \in ISS[c] : r = connect(sess[c], k)
    BY <1>5 DEF Opens
  <2>2. Pair(c, k, j, 0, 0, x, y)
    BY <1>2, <1>5, CallerAnew DEF Opens
  <2>3. CallerGoes(c, r, k, j, 0, 0, x, y)
    BY <1>5, <2>1, <2>2, CallerOpens
  <2>4. opens'[c] > 0
    BY <1>3, <1>5 DEF Opens
  <2>5. 0 \in Int
    OBVIOUS
  <2> QED
    BY <2>2, <2>3, <2>4, <2>5
<1>6. CASE Uses(c, r)
  <2>1. CallerGoes(c, r, i, j, g, h, x, y)
    BY <1>1, <1>2, <1>6, CallerUses
  <2>2. Steady(r, sess[c]) /\ opens' = opens
    BY <1>3, <1>6, UsesSteady
  <2>3. r.state # "CLOSED" => opens'[c] > 0
    BY <1>3, <1>4, <2>2 DEF Steady, Fresh
  <2> QED
    BY <1>2, <2>1, <2>3
<1>7. ASSUME NEW packet, Takes(c, r, packet)
      PROVE  CallerGoes(c, r, i, j, g, h, x, y) /\ opens'[c] > 0
  <2>1. CallerGoes(c, r, i, j, g, h, x, y)
    BY <1>1, <1>2, <1>7, CallerTakes
  <2> QED
    BY <1>7, <2>1 DEF Takes
<1> QED
  BY <1>1, <1>2, <1>5, <1>6, <1>7 DEF Acts

\* A step of the client.
LEMMA CallerStep ==
  ASSUME SessionsOK, NetOK, RestOK, RestOK', StreamAssumption, MaxOpens <= 1, Basic,
         NEW c \in Connectors, NEW r, Acts(c, r), Connected(c)
  PROVE  Connected(c)'
<1> DEFINE v == Peer(c)
           p == sess'[c]
           P == delivered'[c] \o r.recv_buffer
<1>1. /\ c \in Addr /\ v \in Addr /\ v # c /\ MaxBytes[c] \in Nat /\ MaxBytes[c] + 2 < SeqMod
      /\ ISS[c] \in SUBSET Word /\ accepted'[c] \in Nat /\ ClientServer
  BY StreamFacts DEF RestOK
<1>2. Commits(c, r) /\ WellFormed(r)
  BY DEF Acts, Commits, SessionInv
<1>3. \A a : Bound(v, a) => Bound(v, a)'
  <2>1. Committed(c, r)
    BY <1>1, ActsBasic
  <2>2. sess'[v] = sess[v] /\ (\A a : NetOf(net, v, a) => NetOf(net', v, a))
    BY <1>1, <2>1 DEF Committed, SessionsOK
  <2> QED
    BY <2>2 DEF Bound
<1>4. p = [r EXCEPT !.out = NothingSent] /\ sess'[v] = sess[v]
  <2>1. Committed(c, r)
    BY <1>1, ActsBasic
  <2> QED
    BY <1>1, <2>1 DEF Committed, SessionsOK
<1> HIDE DEF p
<1>5. /\ \A n : Fresh(p, n) <=> Fresh(r, n)
      /\ p.recv_buffer = r.recv_buffer /\ p.state = r.state
      /\ \A b : Marks(r, b) <=> Marks(p, b)
      /\ \A d, i, j, n : Asks(p, d, i, j, n) = Asks(r, d, i, j, n)
      /\ \A s, R, Q, i, j, g, x, y :
              Linked(p, s, R, Q, i, j, g, x, y) <=> Linked(r, s, R, Q, i, j, g, x, y)
  BY <1>2, <1>4, SameSides
<1> SUFFICES ASSUME Fresh(r, opens'[c])
             PROVE  \E i \in ISS[c], j \in ISS[v], g, h, x, y \in Int :
                      Pair(c, i, j, g, h, x, y)'
  BY <1>5 DEF Connected, p
<1>6. /\ \E i \in ISS[c], j \in ISS[v], g, h, x, y \in Int :
              Pair(c, i, j, g, h, x, y) /\ CallerGoes(c, r, i, j, g, h, x, y)
      /\ r.state # "CLOSED" => opens'[c] > 0
  BY CallerActs
<1>7. PICK i \in ISS[c], j \in ISS[v], g \in Int, h \in Int, x \in Int, y \in Int :
              Pair(c, i, j, g, h, x, y) /\ CallerGoes(c, r, i, j, g, h, x, y)
  BY <1>6
<1>8. PICK k \in Int, l \in Int :
        LET d == Full(i, accepted'[c], MaxBytes[c], k, l, Asks(r, v, i, j, Len(P)))
        IN  /\ Holds(r, d) /\ Mail(r, d) /\ Marks(r, d) /\ Grows(Dial(c, i, j, g, h), d)
            /\ Linked(r, sess[v], P, Received(v), i, j, k, x, y)
  BY <1>7 DEF CallerGoes
<1>9. PICK d : d = Full(i, accepted'[c], MaxBytes[c], k, l, Asks(r, v, i, j, Len(P)))
  OBVIOUS
<1>10. /\ Holds(r, d) /\ Mail(r, d) /\ Marks(r, d) /\ Grows(Dial(c, i, j, g, h), d)
       /\ Linked(r, sess[v], P, Received(v), i, j, k, x, y)
  BY <1>8, <1>9
<1>11. Pledge(d)
  <2>1. i \in Word
    BY <1>1
  <2> QED
    BY <1>1, <1>9, <2>1 DEF Full, Pledge
<1>12. Bound(c, d)'
  <2>1. PICK b : DialSays(b, c, i, j, g, h)
    BY <1>7, PairSays
  <2>2. Pledge(b) /\ Bound(c, b) /\ Grows(b, d)
    BY <1>10, <2>1 DEF DialSays
  <2> QED
    BY <1>1, <1>2, <1>10, <1>11, <2>2, ActsBound
<1>13. accepted'[v] = accepted[v] /\ delivered'[v] = delivered[v]
  BY <1>1, ActsRest
<1>14. PICK b : b = Reply(v, i, j, x, y)
  OBVIOUS
<1>15. Bound(v, b)' /\ Marks(sess'[v], b)
  <2>1. Bound(v, b) /\ Marks(sess[v], b)
    BY <1>7, <1>14 DEF Pair
  <2> QED
    BY <1>3, <1>4, <2>1
<1>16. b = Full(j, accepted'[v], MaxBytes[v], x, y,
                Answers(sess'[v], i, j, Len(delivered'[v] \o sess'[v].recv_buffer)))
  BY <1>4, <1>13, <1>14 DEF Reply, Received
<1>17. d = Full(i, accepted'[c], MaxBytes[c], k, l,
                Asks(p, v, i, j, Len(delivered'[c] \o p.recv_buffer)))
  BY <1>5, <1>9
<1>18. Linked(p, sess'[v], delivered'[c] \o p.recv_buffer,
              delivered'[v] \o sess'[v].recv_buffer, i, j, k, x, y)
  BY <1>4, <1>5, <1>10, <1>13 DEF Received
<1>19. p.state # "CLOSED" => opens'[c] > 0
  BY <1>5, <1>6
<1>20. Marks(p, d)
  BY <1>5, <1>10
<1>21. Pair(c, i, j, k, l, x, y)'
  BY <1>12, <1>15, <1>16, <1>17, <1>18, <1>19, <1>20 DEF Pair, Dial, Reply, Received, p
<1> QED
  BY <1>21

\* A packet of the client s, which counts from i and has received n bytes of the
\* stream that counts from j, as long as the client has not closed.
Plain(packet, s, i, j, n) ==
  /\ "FIN" \notin packet.flags /\ ~("RST" \in packet.flags /\ packet.valid)
  /\ "SYN" \in packet.flags => packet.seq = i /\ s.state # "CLOSED"
  /\ "ACK" \in packet.flags => packet.ack \in Upto(j, n)

\* What a packet that reaches the server may say.
LEMMA CalleeHears ==
  ASSUME SessionsOK, RestOK, StreamAssumption, Basic, NEW c \in Connectors,
         NEW i \in ISS[c], NEW j \in ISS[Peer(c)], NEW g \in Int, NEW h \in Int,
         NEW x \in Int, NEW y \in Int, Pair(c, i, j, g, h, x, y), Fresh(sess[c], opens[c]),
         NEW r, NEW packet, Takes(Peer(c), r, packet) \/ Begins(Peer(c), r, packet)
  PROVE  Proper(packet, {i}, g) /\ Plain(packet, sess[c], i, j, Len(Received(c)))
<1> DEFINE v == Peer(c)
           R == Received(c)
<1>1. /\ c \in Addr /\ v \in Addr /\ v # c /\ ISS[c] \in SUBSET Word
      /\ MaxBytes[c] \in Nat /\ MaxBytes[v] \in Nat
  BY StreamFacts
<1>2. Arrives(v, packet) /\ packet \in myu_tcp_packet /\ packet.src = c
  BY ServerTakes
<1>3. PICK b : DialSays(b, c, i, j, g, h)
  BY PairSays
<1>4. /\ Pledge(b) /\ ~b.any /\ b.I = {i} /\ b.g = g /\ b.h = h /\ b.joins = {}
      /\ b.syn = (IF sess[c].state = "CLOSED" THEN {} ELSE {i})
      /\ b.fin = FALSE /\ b.rst = FALSE
      /\ b.acks = (IF sess[c].state = "ESTABLISHED" THEN Upto(j, Len(R)) ELSE {})
      /\ g \in 0..MaxBytes[c] /\ h \in 0..(MaxBytes[c] + 1) /\ i \in Word /\ Bound(c, b)
  BY <1>3 DEF DialSays
<1>5. PacketOK(b, v, packet)
  BY <1>1, <1>2, <1>4, ArrivesOK
<1> HIDE DEF R
<1>6. /\ "FIN" \notin packet.flags /\ ~("RST" \in packet.flags /\ packet.valid)
      /\ "SYN" \in packet.flags => packet.seq = i /\ sess[c].state # "CLOSED"
      /\ "ACK" \in packet.flags => packet.ack \in Upto(j, Len(R))
  BY <1>4, <1>5 DEF PacketOK
<1>7. Proper(packet, ISS[c], g)
  <2>1. /\ b.I \subseteq ISS[c] /\ b.g <= MaxBytes[c] /\ b.h <= MaxBytes[c] + 1
        /\ g \in Nat /\ g <= MaxBytes[c] /\ b.g = g
    BY <1>1, <1>4
  <2>2. "SYN" \in packet.flags => packet.seq \in ISS[c]
    BY <1>6
  <2> QED
    BY <1>1, <1>2, <1>4, <1>5, <2>1, <2>2, DataProper
<1>8. Proper(packet, {i}, g)
  BY <1>6, <1>7 DEF Proper
<1> QED
  BY <1>6, <1>8 DEF R, Plain

\* The server's session q, which has received Q, takes a packet and becomes r, which
\* has received P.
Digested(r, q, packet, P, Q) ==
  /\ WellFormed(q) /\ q.alive /\ q.state # "SYN_SENT" /\ WellFormed(r) /\ Follows(r, q, packet)
  /\ Len(Q) \in Nat /\ Len(P) \in Nat /\ Len(Q) <= Len(P)
  /\ r.recv_buffer = q.recv_buffer => P = Q

\* The server's session lives on.
Lives(r, q) == r.alive /\ (Spoken(q) => Spoken(r))

\* Then the streams are still linked.
LEMMA CalleeLinks ==
  ASSUME NEW s, NEW q, NEW r, NEW packet, NEW R, Len(R) \in Nat, NEW Q, NEW P,
         Digested(r, q, packet, P, Q), NEW i \in Word, NEW j \in Word, NEW g, NEW x, NEW y,
         Linked(s, q, R, Q, i, j, g, x, y),
         Reads(r, P, {i}, g), q.state = "SYN_RECEIVED" => q.send_unack = j,
         Plain(packet, s, i, j, Len(R))
  PROVE  Linked(s, r, R, P, i, j, g, x, y) /\ Lives(r, q)
<1>0. /\ WellFormed(q) /\ q.alive /\ q.state # "SYN_SENT" /\ WellFormed(r)
      /\ Follows(r, q, packet) /\ Len(Q) \in Nat /\ Len(P) \in Nat /\ Len(Q) <= Len(P)
      /\ r.recv_buffer = q.recv_buffer => P = Q
  BY DEF Digested
<1>1. q.state \notin Late
  BY DEF Linked
<1>2. /\ ~Gone(r, q, packet) /\ ~Joined(r, q, packet) /\ r.alive
      /\ Kept(r, q, packet) \/ Opened(r, q, packet) \/ Accepted(r, q, packet)
  BY <1>0, <1>1 DEF Follows, Gone, Kept, Opened, Joined, Accepted, Late, Plain
<1>3. r.state \in TcpState
  BY <1>0 DEF WellFormed, Session
<1>4. r.state \notin Late
  BY <1>1, <1>2 DEF Kept, Opened, Accepted, Late, Plain
<1>5. Crossing(r) => Crossing(q)
  BY <1>0 DEF Follows
<1>6. r.state = "LISTEN" => q.state = "LISTEN"
  BY <1>2 DEF Kept, Opened, Accepted, Opening
<1>7. q.state = "LISTEN" => r.state = "LISTEN" \/ "SYN" \in packet.flags
  <2> SUFFICES ASSUME q.state = "LISTEN", Kept(r, q, packet) PROVE r.state = "LISTEN"
    BY <1>2 DEF Opened, Accepted
  <2>1. r.state \notin {"ESTABLISHED", "FIN_WAIT_2", "FIN_WAIT_1"}
    BY <1>5 DEF Kept, Crossing
  <2>2. r.state \in Opening
    BY <1>3, <1>4, <2>1 DEF TcpState, Opening, Late
  <2> QED
    BY <2>2 DEF Kept
<1>8. Spoken(q) => Spoken(r)
  BY <1>0, <1>2, <1>6 DEF Spoken
<1>9. s.state = "CLOSED" => ~Spoken(r)
  BY <1>0, <1>7 DEF Linked, Spoken, Plain
<1>10. s.state = "ESTABLISHED" => Spoken(r) /\ s.send_unack \in Upto(i, Len(P))
  BY <1>0, <1>8, UptoMore DEF Linked
<1>11. Spoken(r) => Off(i, r.recv_next) = 1 + Len(P)
  <2> SUFFICES ASSUME Spoken(r) PROVE Off(i, r.recv_next) = 1 + Len(P)
    OBVIOUS
  <2>1. CASE r.state \in {"SYN_RECEIVED", "ESTABLISHED"}
    BY <1>2, <2>1 DEF Reads
  <2>2. CASE r.state \notin {"SYN_RECEIVED", "ESTABLISHED"}
    <3>1. Kept(r, q, packet)
      BY <1>2, <1>4, <2>2 DEF Opened, Accepted, Late, Plain
    <3>2. q.state # "LISTEN"
      <4> SUFFICES ASSUME q.state = "LISTEN" PROVE FALSE
        OBVIOUS
      <4>1. r.state \notin {"ESTABLISHED", "FIN_WAIT_2", "FIN_WAIT_1"}
        BY <1>5, <3>1 DEF Kept, Crossing
      <4>2. r.state \in Opening
        BY <1>3, <1>4, <4>1 DEF TcpState, Opening, Late
      <4> QED
        BY <3>1, <4>2 DEF Kept, Spoken
    <3>3. r.recv_next = q.recv_next /\ P = Q
      BY <1>0, <3>1 DEF Kept, Plain
    <3> QED
      BY <1>0, <3>2, <3>3 DEF Linked, Spoken
  <2> QED
    BY <2>1, <2>2
<1>12. r.state = "ESTABLISHED" => r.send_unack \in Upto(j, Len(R))
  <2> SUFFICES ASSUME r.state = "ESTABLISHED" PROVE r.send_unack \in Upto(j, Len(R))
    OBVIOUS
  <2>1. q.state \in {"SYN_RECEIVED", "ESTABLISHED"} /\ Learns(r, q, packet)
    BY <1>0, <1>2 DEF Kept, Opened, Accepted
  <2>2. j \in Upto(j, Len(R))
    <3>1. Off(j, j) = 0
      BY OffArith
    <3> QED
      BY <3>1 DEF Upto
  <2>3. q.send_unack \in Upto(j, Len(R))
    BY <2>1, <2>2 DEF Linked
  <2> QED
    BY <2>1, <2>3 DEF Learns, Plain
<1>13. Reads(s, R, {j}, x) /\ (~Spoken(r) => x = 0 /\ y = 0)
  BY <1>8 DEF Linked
<1>14. Linked(s, r, R, P, i, j, g, x, y)
  BY <1>4, <1>9, <1>10, <1>11, <1>12, <1>13 DEF Linked
<1> QED
  BY <1>2, <1>8, <1>14 DEF Lives

\* The marks of the server move on.
LEMMA LinkedMore ==
  ASSUME NEW s, NEW r, r.alive, NEW R \in Seq(Byte), NEW P, NEW i, NEW j, NEW g,
         NEW x \in Int, NEW y, NEW k \in Int, x <= k, NEW l, NEW d, Marks(r, d), d.g = k, d.h = l,
         Linked(s, r, R, P, i, j, g, x, y)
  PROVE  Linked(s, r, R, P, i, j, g, k, l)
<1>1. Reads(s, R, {j}, k)
  BY ReadsMore DEF Linked
<1>2. ~Spoken(r) => k = 0 /\ l = 0
  BY DEF Spoken, Marks, Opening
<1> QED
  BY <1>1, <1>2 DEF Linked

\* The server makes r of its session: its pledge has grown, and the streams are
\* still linked.
CalleeGoes(c, r, i, j, g, h, x, y) ==
  LET v == Peer(c)
      Q == delivered'[v] \o r.recv_buffer
  IN  \E k, l \in Int :
        LET d == Full(j, accepted'[v], MaxBytes[v], k, l, Answers(r, i, j, Len(Q)))
        IN  /\ Holds(r, d) /\ Mail(r, d) /\ Marks(r, d) /\ Grows(Reply(v, i, j, x, y), d)
            /\ Linked(sess[c], r, Received(c), Q, i, j, g, k, l)

\* What is known before the server's step.
LEMMA CalleeFacts ==
  ASSUME SessionsOK, RestOK, RestOK', StreamAssumption, Basic, NEW c \in Connectors,
         NEW i \in ISS[c], NEW j \in ISS[Peer(c)], NEW r, Acts(Peer(c), r)
  PROVE  LET v == Peer(c)
         IN  /\ v \in Addr /\ i \in Word /\ j \in Word /\ WellFormed(r) /\ WellFormed(sess[v])
             /\ Received(c) \in Seq(Byte) /\ Len(Received(c)) \in Nat
             /\ Received(v) \in Seq(Byte) /\ Len(Received(v)) \in Nat
             /\ sess[v].recv_next \in Word /\ r.recv_next \in Word
             /\ sess[v].state # "SYN_SENT" /\ sess[v].remote = c
             /\ delivered[v] \in Seq(Byte) /\ accepted[v] \in Nat /\ accepted'[v] \in Nat
             /\ MaxBytes[v] \in Nat /\ MaxBytes[v] + 2 < SeqMod
<1> DEFINE v == Peer(c)
<1>1. c \in Addr /\ v \in Addr /\ v \notin Connectors /\ Peer(v) = c
  BY StreamFacts
<1>2. WellFormed(r) /\ WellFormed(sess[v]) /\ Placed(v, sess[v])
  BY <1>1 DEF Acts, Commits, SessionInv, SessionsOK, Basic
<1>3. sess[v].recv_next \in Word /\ r.recv_next \in Word
  BY <1>2 DEF WellFormed, Session
<1>4. /\ Received(c) \in Seq(Byte) /\ Len(Received(c)) \in Nat
      /\ Received(v) \in Seq(Byte) /\ Len(Received(v)) \in Nat /\ delivered[v] \in Seq(Byte)
  BY <1>1, ReceivedType
<1>5. accepted[v] \in Nat /\ accepted'[v] \in Nat
  BY <1>1 DEF RestOK
<1>6. /\ ISS[c] \in SUBSET Word /\ ISS[v] \in SUBSET Word
      /\ MaxBytes[v] \in Nat /\ MaxBytes[v] + 2 < SeqMod
  BY <1>1, StreamFacts
<1>7. i \in Word /\ j \in Word
  BY <1>6
<1>8. sess[v].state # "SYN_SENT" /\ sess[v].remote = c
  BY <1>1, <1>2 DEF Placed
<1> HIDE DEF v
<1> QED
  BY <1>1, <1>2, <1>3, <1>4, <1>5, <1>6, <1>7, <1>8 DEF v

\* A call or a timer.
LEMMA CalleeUses ==
  ASSUME SessionsOK, NetOK, RestOK, RestOK', StreamAssumption, Basic, NEW c \in Connectors,
         NEW i \in ISS[c], NEW j \in ISS[Peer(c)], NEW g \in Int, NEW h \in Int,
         NEW x \in Int, NEW y \in Int, Pair(c, i, j, g, h, x, y), Fresh(sess[c], opens[c]),
         NEW r, Acts(Peer(c), r), Uses(Peer(c), r)
  PROVE  CalleeGoes(c, r, i, j, g, h, x, y)
<1> DEFINE v == Peer(c)
           s == sess[c]
           q == sess[v]
           R == Received(c)
           Q == Received(v)
           A == accepted[v]
           m == MaxBytes[v]
<1>1. /\ v \in Addr /\ i \in Word /\ j \in Word /\ WellFormed(r)
      /\ R \in Seq(Byte) /\ Len(R) \in Nat /\ Len(Q) \in Nat /\ q.recv_next \in Word
  BY CalleeFacts
<1>2. /\ q.alive /\ Steady(r, q) /\ Called(v, r) /\ opens' = opens
      /\ delivered'[v] \o r.recv_buffer = Q
  BY <1>1, UsesSteady
<1>3. /\ \E d : ReplySays(d, v, i, j, x, y)
      /\ Linked(s, q, R, Q, i, j, g, x, y)
  BY PairSays
<1> HIDE DEF R, Q, s, q
<1>4. /\ r.alive /\ (Spoken(r) <=> Spoken(q)) /\ r.state \notin Late
      /\ ~Spoken(q) => q.state = "LISTEN" /\ r.state = "LISTEN"
  BY <1>2, <1>3 DEF Steady, Spoken, Linked, Late
<1> DEFINE n == Len(Q)
           may == Answers(q, i, j, n)
           might == Answers(r, i, j, n)
<1>5. More(may, might)
  BY <1>1, <1>4, AnswersMore
<1>6. /\ Bound(v, Full(j, A, m, x, y, may)) /\ Marks(q, Full(j, A, m, x, y, may))
  BY DEF Pair, Reply, q, Q
<1>7. \/ q.recv_next \in might.acks
      \/ /\ q.state \in {"CLOSED", "LISTEN", "SYN_SENT"} /\ r.state = q.state
         /\ might.acks = {}
  <2>1. CASE Spoken(q)
    <3>1. q.recv_next \in Upto(i, n)
      BY <1>1, <1>3, <2>1 DEF Linked, Upto
    <3> QED
      BY <1>4, <2>1, <3>1 DEF Answers
  <2>2. CASE ~Spoken(q)
    BY <1>4, <2>2 DEF Answers
  <2> QED
    BY <2>1, <2>2
<1>8. might.fin /\ might.rst
  BY DEF Answers
<1> HIDE DEF may, might
<1>9. \E k, l \in Int :
           LET d == Full(j, accepted'[v], m, k, l, might)
           IN  /\ Holds(r, d) /\ Mail(r, d) /\ Marks(r, d) /\ x <= k
               /\ Grows(Full(j, A, m, x, y, may), d)
  BY <1>1, <1>5, <1>6, <1>7, <1>8, UsesGrows DEF q
<1>10. PICK k \in Int, l \in Int :
           LET d == Full(j, accepted'[v], m, k, l, might)
           IN  /\ Holds(r, d) /\ Mail(r, d) /\ Marks(r, d) /\ x <= k
               /\ Grows(Full(j, A, m, x, y, may), d)
  BY <1>9
<1>11. Linked(s, r, R, Q, i, j, g, x, y)
  <2>1. Reads(r, Q, {i}, g)
    BY <1>2, <1>3 DEF Linked, Reads, Steady, Opening
  <2>2. r.recv_next = q.recv_next /\ r.send_unack = q.send_unack
        /\ (r.state = "ESTABLISHED" => q.state = "ESTABLISHED")
    BY <1>2 DEF Steady
  <2> QED
    BY <1>3, <1>4, <2>1, <2>2 DEF Linked
<1>12. Linked(s, r, R, Q, i, j, g, k, l)
  <2>1. PICK d : d = Full(j, accepted'[v], m, k, l, might)
    OBVIOUS
  <2>2. Marks(r, d) /\ d.g = k /\ d.h = l /\ x <= k
    BY <1>10, <2>1 DEF Full
  <2> QED
    BY <1>1, <1>4, <1>11, <2>2, LinkedMore
<1>13. Full(j, A, m, x, y, may) = Reply(v, i, j, x, y)
  BY DEF Reply, may, q, Q
<1> QED
  BY <1>2, <1>10, <1>12, <1>13 DEF CalleeGoes, might, s, R

\* A packet for its session.
LEMMA CalleeTakes ==
  ASSUME SessionsOK, NetOK, RestOK, RestOK', StreamAssumption, Basic, NEW c \in Connectors,
         NEW i \in ISS[c], NEW j \in ISS[Peer(c)], NEW g \in Int, NEW h \in Int,
         NEW x \in Int, NEW y \in Int, Pair(c, i, j, g, h, x, y), Fresh(sess[c], opens[c]),
         NEW r, Acts(Peer(c), r), NEW packet, Takes(Peer(c), r, packet),
         NEW iss \in ISS[Peer(c)], r = input(sess[Peer(c)], packet, iss),
         ~Spoken(sess[Peer(c)]) => iss = j
  PROVE  CalleeGoes(c, r, i, j, g, h, x, y)
<1> DEFINE v == Peer(c)
           s == sess[c]
           q == sess[v]
           R == Received(c)
           Q == Received(v)
           P == delivered'[v] \o r.recv_buffer
           A == accepted[v]
           m == MaxBytes[v]
<1>1. /\ v \in Addr /\ i \in Word /\ j \in Word /\ WellFormed(r) /\ WellFormed(q)
      /\ R \in Seq(Byte) /\ Len(R) \in Nat /\ Len(Q) \in Nat /\ Q \in Seq(Byte)
      /\ q.recv_next \in Word /\ r.recv_next \in Word /\ q.state # "SYN_SENT"
      /\ delivered[v] \in Seq(Byte)
  BY CalleeFacts
<1>2. /\ ClientServer /\ MaxBytes[c] \in Nat /\ MaxBytes[c] + 2 < SeqMod /\ {i} \in SUBSET Word
  BY <1>1, StreamFacts
<1>3. /\ q.alive /\ Follows(r, q, packet) /\ Unread /\ packet \in myu_tcp_packet
  BY <1>1, <1>2, TakesFollows
<1>4. /\ \E b : DialSays(b, c, i, j, g, h)
      /\ \E d : ReplySays(d, v, i, j, x, y)
      /\ Linked(s, q, R, Q, i, j, g, x, y)
  BY PairSays
<1>5. g \in Nat /\ g + 2 < SeqMod
  <2>1. PICK b : DialSays(b, c, i, j, g, h)
    BY <1>4
  <2>2. g \in 0..MaxBytes[c]
    BY <2>1 DEF DialSays
  <2> QED
    BY <1>2, <2>2, SessionAssumption
<1>6. Plain(packet, s, i, j, Len(R))
  BY CalleeHears
<1>7. Reads(r, P, {i}, g)
  <2>1. \A p : Takes(v, r, p) \/ Begins(v, r, p) => Proper(p, {i}, g)
    BY CalleeHears
  <2>2. Reads(q, Q, {i}, g)
    BY <1>4 DEF Linked
  <2> QED
    BY <1>1, <1>2, <1>5, <2>1, <2>2, ActsReads
<1>8. /\ P \in Seq(Byte) /\ Len(P) \in Nat /\ Len(Q) <= Len(P)
      /\ r.recv_buffer = q.recv_buffer => P = Q
  <2>1. delivered'[v] = delivered[v]
    BY <1>3 DEF Unread
  <2>2. ~Gone(r, q, packet)
    BY <1>4, <1>6 DEF Gone, Linked, Late, Plain
  <2> QED
    BY <1>1, <1>3, <2>1, <2>2, FollowsLonger DEF Received
<1>9. q.state = "SYN_RECEIVED" => q.send_unack = j
  <2>1. PICK d : ReplySays(d, v, i, j, x, y)
    BY <1>4
  <2>2. Numbered(q, d) /\ d.i = j
    BY <2>1 DEF ReplySays, Bound, Holds
  <2> QED
    BY <1>3, <2>2 DEF Numbered
<1> HIDE DEF R, Q, P, s, q
<1>10. Linked(s, r, R, P, i, j, g, x, y) /\ r.alive /\ (Spoken(q) => Spoken(r))
  <2>1. /\ WellFormed(q) /\ q.alive /\ q.state # "SYN_SENT" /\ WellFormed(r)
        /\ Follows(r, q, packet)
    BY <1>1, <1>3
  <2>2. /\ Len(R) \in Nat /\ Len(Q) \in Nat /\ Len(P) \in Nat /\ Len(Q) <= Len(P)
        /\ i \in Word /\ j \in Word
    BY <1>1, <1>8
  <2>3. r.recv_buffer = q.recv_buffer => P = Q
    BY <1>8
  <2>4. Linked(s, q, R, Q, i, j, g, x, y)
    BY <1>4
  <2>5. Digested(r, q, packet, P, Q)
    BY <2>1, <2>2, <2>3 DEF Digested
  <2>6. Linked(s, r, R, P, i, j, g, x, y)
    BY <1>6, <1>7, <1>9, <2>2, <2>4, <2>5, CalleeLinks
  <2>7. Lives(r, q)
    BY <1>6, <1>7, <1>9, <2>2, <2>4, <2>5, CalleeLinks
  <2> QED
    BY <2>6, <2>7 DEF Lives
<1> DEFINE may == Answers(q, i, j, Len(Q))
           might == Answers(r, i, j, Len(P))
<1>11. More(may, might)
  BY <1>1, <1>8, <1>10, AnswersMore
<1>12. Acks(r, q, packet) \subseteq might.acks
  <2>1. Spoken(r) => r.recv_next \in Upto(i, Len(P))
    BY <1>1, <1>8, <1>10 DEF Linked, Upto
  <2>2. Spoken(q) => q.recv_next \in Upto(i, Len(P))
    <3>1. Spoken(q) => Off(i, q.recv_next) = 1 + Len(Q)
      BY <1>4 DEF Linked
    <3>2. 1 + Len(Q) <= 1 + Len(P)
      BY <1>1, <1>8
    <3> QED
      BY <1>1, <3>1, <3>2 DEF Upto
  <2>3. CASE q.state = "LISTEN"
    BY <1>10, <2>1, <2>3 DEF Acks, Answers, Spoken
  <2>4. CASE q.state # "LISTEN"
    BY <1>1, <1>3, <1>6, <1>10, <2>1, <2>2, <2>4 DEF Acks, Answers, Spoken, Plain
  <2> QED
    BY <2>3, <2>4
<1>13. q.state = "LISTEN" /\ r.state # "LISTEN" => iss \in might.joins /\ iss = j
  BY <1>10 DEF Answers, Spoken, q
<1>14. Bound(v, Full(j, A, m, x, y, may)) /\ Marks(q, Full(j, A, m, x, y, may))
  BY DEF Pair, Reply, q, Q
<1>15. q.state # "CLOSE_WAIT"
  BY <1>4 DEF Linked, Late
<1> HIDE DEF may, might
<1>16. \E k, l \in Int :
           LET d == Full(j, accepted'[v], m, k, l, might)
           IN  /\ Holds(r, d) /\ Mail(r, d) /\ Marks(r, d) /\ x <= k
               /\ Grows(Full(j, A, m, x, y, may), d)
  <2>1. v \in Addr /\ WellFormed(r) /\ Takes(v, r, packet) /\ r = input(q, packet, iss)
    BY <1>1 DEF q
  <2> QED
    BY <1>11, <1>12, <1>13, <1>14, <1>15, <2>1, TakesGrows DEF q
<1>17. PICK k \in Int, l \in Int :
           LET d == Full(j, accepted'[v], m, k, l, might)
           IN  /\ Holds(r, d) /\ Mail(r, d) /\ Marks(r, d) /\ x <= k
               /\ Grows(Full(j, A, m, x, y, may), d)
  BY <1>16
<1>18. Linked(s, r, R, P, i, j, g, k, l)
  <2>1. PICK d : d = Full(j, accepted'[v], m, k, l, might)
    OBVIOUS
  <2>2. Marks(r, d) /\ d.g = k /\ d.h = l /\ x <= k
    BY <1>17, <2>1 DEF Full
  <2> QED
    BY <1>1, <1>10, <2>2, LinkedMore
<1>19. Full(j, A, m, x, y, may) = Reply(v, i, j, x, y)
  BY DEF Reply, may, q, Q
<1> QED
  BY <1>17, <1>18, <1>19 DEF CalleeGoes, might, s, R, P

\* A SYN, from which the server makes a new session.
LEMMA CalleeBegins ==
  ASSUME SessionsOK, NetOK, RestOK, RestOK', StreamAssumption, Basic, NEW c \in Connectors,
         NEW i \in ISS[c], NEW j \in ISS[Peer(c)], NEW g \in Int, NEW h \in Int,
         Pair(c, i, j, g, h, 0, 0), Fresh(sess[c], opens[c]), ~Spoken(sess[Peer(c)]),
         NEW r, Acts(Peer(c), r), NEW packet, Begins(Peer(c), r, packet),
         NEW initial \in InitialSendSeq,
         r = input(listen(NewSession(Peer(c), packet.src, initial)), packet, j)
  PROVE  CalleeGoes(c, r, i, j, g, h, 0, 0)
<1> DEFINE v == Peer(c)
           s == sess[c]
           q == sess[v]
           l == listen(NewSession(v, packet.src, initial))
           R == Received(c)
           P == delivered'[v] \o r.recv_buffer
           m == MaxBytes[v]
           may == Answers(q, i, j, Len(Received(v)))
           might == Answers(r, i, j, Len(P))
<1>1. /\ v \in Addr /\ i \in Word /\ j \in Word /\ WellFormed(r)
      /\ R \in Seq(Byte) /\ Len(R) \in Nat /\ r.recv_next \in Word /\ m \in Nat /\ m + 2 < SeqMod
  BY CalleeFacts
<1>2. /\ ClientServer /\ MaxBytes[c] \in Nat /\ MaxBytes[c] + 2 < SeqMod /\ {i} \in SUBSET Word
      /\ c \in Addr
  BY <1>1, StreamFacts
<1>3. packet \in myu_tcp_packet /\ packet.src = c
  BY ServerTakes
<1>4. accepted'[v] = 0 /\ delivered'[v] = <<>>
  BY <1>1 DEF Begins, RestOK
<1>5. /\ \E b : DialSays(b, c, i, j, g, h)
      /\ Linked(s, q, R, Received(v), i, j, g, 0, 0)
  BY PairSays
<1>6. g \in Nat /\ g + 2 < SeqMod
  <2>1. PICK b : DialSays(b, c, i, j, g, h)
    BY <1>5
  <2>2. g \in 0..MaxBytes[c]
    BY <2>1 DEF DialSays
  <2> QED
    BY <1>2, <2>2, SessionAssumption
<1>0. ASSUME NEW p, Takes(v, r, p) \/ Begins(v, r, p)
      PROVE  Proper(p, {i}, g) /\ Plain(p, s, i, j, Len(R))
  <2>1. 0 \in Int
    OBVIOUS
  <2> QED
    BY <1>0, <2>1, CalleeHears
<1>7. Plain(packet, s, i, j, Len(R))
  BY <1>0
<1>8. Reads(r, P, {i}, g)
  <2>1. \A p : Takes(v, r, p) \/ Begins(v, r, p) => Proper(p, {i}, g)
    BY <1>0
  <2>2. Reads(q, Received(v), {i}, g)
    BY <1>5 DEF Linked
  <2> QED
    BY <1>1, <1>2, <1>6, <2>1, <2>2, ActsReads
<1>9. ASSUME NEW b, Pledge(b), b.A = 0, r.state # "LISTEN" => j \in b.joins /\ j = b.i
      PROVE  /\ Accounts(r, l, b, Acks(r, l, packet)) /\ Follows(r, l, packet)
             /\ l.recv_buffer = <<>> /\ SessionInv(l) /\ l.alive /\ l.state = "LISTEN"
  BY <1>1, <1>2, <1>9, BeginsCarries
<1>10. ASSUME NEW b, Pledge(b), b.A = 0 PROVE Mail(l, b)
  BY <1>1, <1>2, <1>3, <1>10, FreshCarries DEF Unused
<1>11. r.alive => (r.state # "LISTEN" => might.joins = {j})
  BY DEF Answers, Spoken
<1> HIDE DEF l, might, P
<1>12. /\ Follows(r, l, packet) /\ l.recv_buffer = <<>> /\ SessionInv(l) /\ l.alive
       /\ l.state = "LISTEN" /\ WellFormed(l)
  <2>1. PICK b : b = Full(j, 0, m, 0, 0, [might EXCEPT !.joins = {j}])
    OBVIOUS
  <2>2. might = Answers(r, i, j, Len(P))
    BY DEF might
  <2>3. Pledge(b) /\ b.A = 0 /\ j \in b.joins /\ j = b.i
    BY <1>1, <2>1, <2>2 DEF Full, Pledge, Answers
  <2> QED
    BY <1>9, <2>3 DEF SessionInv
<1>13. /\ P \in Seq(Byte) /\ Len(P) \in Nat /\ Len(<<>>) <= Len(P) /\ Len(<<>>) \in Nat
       /\ r.recv_buffer = l.recv_buffer => P = <<>>
  <2>1. <<>> \o l.recv_buffer = <<>> /\ <<>> \in Seq(Byte)
    BY <1>12
  <2>2. ~Gone(r, l, packet)
    BY <1>7, <1>12 DEF Gone, Plain
  <2> QED
    BY <1>3, <1>4, <1>12, <2>1, <2>2, FollowsLonger DEF P
<1>14. Digested(r, l, packet, P, <<>>)
  BY <1>1, <1>12, <1>13 DEF Digested
<1>15. Linked(s, l, R, <<>>, i, j, g, 0, 0)
  <2>1. ~Spoken(l) /\ l.state \notin Late
    BY <1>12 DEF Spoken, Late
  <2>2. Reads(l, <<>>, {i}, g)
    BY <1>12 DEF Reads
  <2> HIDE DEF q
  <2>3. ~Spoken(q)
    BY DEF q
  <2> QED
    BY <1>5, <1>12, <2>1, <2>2, <2>3 DEF Linked
<1> HIDE DEF s, R, q, may
<1>16. Linked(s, r, R, P, i, j, g, 0, 0) /\ Lives(r, l)
  <2>1. l.state = "SYN_RECEIVED" => l.send_unack = j
    BY <1>12
  <2> QED
    BY <1>1, <1>7, <1>8, <1>14, <1>15, <2>1, CalleeLinks
<1>17. More(may, might)
  <2>1. ~Spoken(q)
    BY DEF q
  <2> QED
    BY <2>1 DEF More, Answers, may, might
<1>18. Acks(r, l, packet) \subseteq might.acks
  <2>1. Spoken(r) => r.recv_next \in Upto(i, Len(P))
    BY <1>1, <1>13, <1>16 DEF Linked, Upto
  <2> QED
    BY <1>12, <1>16, <2>1 DEF Acks, Answers, Spoken, Lives, might
<1>19. ASSUME NEW x \in Int, NEW y \in Int
       PROVE  Accounts(r, l, Full(j, 0, m, x, y, might), Acks(r, l, packet))
  <2>1. PICK b : b = Full(j, 0, m, x, y, might)
    OBVIOUS
  <2>2. Pledge(b) /\ b.A = 0 /\ b.joins = might.joins /\ b.i = j
    BY <1>1, <2>1 DEF Full, Pledge
  <2>3. r.state # "LISTEN" => j \in b.joins /\ j = b.i
    BY <1>11, <1>16, <2>2 DEF Lives
  <2> QED
    BY <1>9, <2>1, <2>2, <2>3
<1>20. Moves(r, l, Full(j, 0, m, 0, 0, might))
  <2>1. PICK b : b = Full(j, 0, m, 0, 0, might)
    OBVIOUS
  <2>2. ~b.any
    BY <2>1 DEF Full
  <2>3. Accounts(r, l, b, Acks(r, l, packet))
    BY <1>19, <2>1
  <2> QED
    BY <1>12, <2>1, <2>2, <2>3, InputGoes
<1>21. Marks(l, Full(j, 0, m, 0, 0, may)) /\ Mail(l, Full(j, 0, m, 0, 0, may))
  <2>1. PICK b : b = Full(j, 0, m, 0, 0, may)
    OBVIOUS
  <2>2. /\ Pledge(b) /\ b.A = 0 /\ b.i \in b.I /\ b.g = 0 /\ b.h = 0 /\ b.m = m
    BY <1>1, <2>1 DEF Full, Pledge
  <2>3. Marks(l, b)
    BY <1>1, <1>12, <2>2 DEF Marks, Streaming, Crossing
  <2> QED
    BY <1>10, <2>1, <2>2, <2>3
<1> DEFINE acks == Acks(r, l, packet)
<1> HIDE DEF acks, m
<1>22. \E k, n \in Int :
           LET d == Full(j, 0, m, k, n, might)
           IN  /\ Holds(r, d) /\ Mail(r, d) /\ Marks(r, d) /\ 0 <= k
               /\ Grows(Full(j, 0, m, 0, 0, may), d)
  <2>1. acks \subseteq might.acks /\ 0 \in Nat /\ 0 \in Int /\ 0 <= 0
    BY <1>18 DEF acks
  <2>2. \A x, y \in Int : Accounts(r, l, Full(j, 0, m, x, y, might), acks)
    BY <1>19 DEF acks
  <2> QED
    BY <1>1, <1>12, <1>17, <1>20, <1>21, <2>1, <2>2, FullGrows
<1>23. PICK k \in Int, n \in Int :
           LET d == Full(j, 0, m, k, n, might)
           IN  /\ Holds(r, d) /\ Mail(r, d) /\ Marks(r, d) /\ 0 <= k
               /\ Grows(Full(j, 0, m, 0, 0, may), d)
  BY <1>22
<1>24. Linked(s, r, R, P, i, j, g, k, n)
  <2>1. PICK d : d = Full(j, 0, m, k, n, might)
    OBVIOUS
  <2>2. Marks(r, d) /\ d.g = k /\ d.h = n /\ 0 <= k /\ 0 \in Int /\ r.alive
    BY <1>16, <1>23, <2>1 DEF Full, Lives
  <2> QED
    BY <1>1, <1>16, <2>2, LinkedMore
<1>25. Grows(Reply(v, i, j, 0, 0), Full(j, 0, m, k, n, might))
  <2>1. Reply(v, i, j, 0, 0) = Full(j, accepted[v], m, 0, 0, may)
    BY DEF Reply, may, q, m
  <2>2. Grows(Full(j, 0, m, 0, 0, may), Full(j, 0, m, k, n, might))
    BY <1>23
  <2> QED
    BY <2>1, <2>2 DEF Grows, Full
<1> QED
  BY <1>4, <1>23, <1>24, <1>25 DEF CalleeGoes, might, m, s, R, P

\* Whatever the server does, both sides go on.
LEMMA CalleeActs ==
  ASSUME SessionsOK, NetOK, RestOK, RestOK', StreamAssumption, Basic, NEW c \in Connectors,
         NEW r, Acts(Peer(c), r), Fresh(sess[c], opens[c]), Connected(c), Waits(sess[Peer(c)])
  PROVE  /\ \E i \in ISS[c], j \in ISS[Peer(c)], g, h, x, y \in Int :
              Pair(c, i, j, g, h, x, y) /\ CalleeGoes(c, r, i, j, g, h, x, y)
         /\ opens' = opens
<1> DEFINE v == Peer(c)
           q == sess[v]
<1>1. /\ v \in Addr /\ v \notin Connectors /\ c \in Addr /\ Peer(v) = c
  BY StreamFacts
<1>2. PICK i \in ISS[c], j \in ISS[Peer(c)], g \in Int, h \in Int, x \in Int, y \in Int :
        Pair(c, i, j, g, h, x, y)
  BY DEF Connected
<1>3. 0 \in Int
  OBVIOUS
<1>4. ASSUME ~Spoken(q), NEW k \in ISS[v]
      PROVE  Pair(c, i, k, g, h, 0, 0)
  BY <1>2, <1>4, CalleeAnew
<1>5. CASE Uses(v, r)
  <2>1. CalleeGoes(c, r, i, j, g, h, x, y)
    BY <1>2, <1>5, CalleeUses
  <2> QED
    BY <1>2, <1>5, <2>1 DEF Uses
<1>6. ASSUME NEW packet, Takes(v, r, packet)
      PROVE  \E k \in ISS[v], l, n \in Int :
               Pair(c, i, k, g, h, l, n) /\ CalleeGoes(c, r, i, k, g, h, l, n)
  <2>1. PICK k \in ISS[v] : r = input(q, packet, k)
    BY <1>6 DEF Takes
  <2>2. CASE Spoken(q)
    <3>1. CalleeGoes(c, r, i, j, g, h, x, y)
      BY <1>2, <1>6, <2>1, <2>2, CalleeTakes
    <3> QED
      BY <1>2, <3>1
  <2>3. CASE ~Spoken(q)
    <3>1. Pair(c, i, k, g, h, 0, 0)
      BY <1>4, <2>3
    <3>2. CalleeGoes(c, r, i, k, g, h, 0, 0)
      BY <1>3, <1>6, <2>1, <3>1, CalleeTakes
    <3> QED
      BY <1>3, <3>1, <3>2
  <2> QED
    BY <2>2, <2>3
<1>7. ASSUME NEW packet, Begins(v, r, packet)
      PROVE  \E k \in ISS[v], l, n \in Int :
               Pair(c, i, k, g, h, l, n) /\ CalleeGoes(c, r, i, k, g, h, l, n)
  <2>1. PICK k \in ISS[v], initial \in InitialSendSeq :
          r = input(listen(NewSession(v, packet.src, initial)), packet, k)
    BY <1>7 DEF Begins
  <2>2. ~Spoken(q)
    <3>1. packet.src = c
      BY <1>7, ServerTakes
    <3>2. q.remote = c
      BY <1>1 DEF Basic, Placed
    <3> QED
      BY <1>7, <3>1, <3>2 DEF Begins, HasSessionFor, Spoken
  <2>3. Pair(c, i, k, g, h, 0, 0)
    BY <1>4, <2>2
  <2>4. CalleeGoes(c, r, i, k, g, h, 0, 0)
    BY <1>7, <2>1, <2>2, <2>3, CalleeBegins
  <2> QED
    BY <1>3, <2>3, <2>4
<1>8. ~Ends(v, r)
  <2>1. q.state \notin Late
    BY <1>2 DEF Pair, Linked
  <2> QED
    BY <2>1 DEF Ends, Waits, Late
<1>9. ~Opens(v, r)
  BY <1>1 DEF Opens
<1>10. CASE \E packet : Takes(v, r, packet)
  BY <1>6, <1>10 DEF Takes
<1>11. CASE \E packet : Begins(v, r, packet)
  BY <1>7, <1>11 DEF Begins
<1> QED
  BY <1>5, <1>8, <1>9, <1>10, <1>11 DEF Acts

\* A step of the server.
LEMMA CalleeStep ==
  ASSUME SessionsOK, NetOK, RestOK, RestOK', StreamAssumption, Basic, NEW c \in Connectors,
         NEW r, Acts(Peer(c), r), Connected(c), Waits(sess[Peer(c)])
  PROVE  Connected(c)'
<1> DEFINE v == Peer(c)
           p == sess'[v]
           P == delivered'[v] \o r.recv_buffer
<1>1. /\ c \in Addr /\ v \in Addr /\ v # c /\ MaxBytes[v] \in Nat /\ MaxBytes[v] + 2 < SeqMod
      /\ ISS[v] \in SUBSET Word /\ accepted'[v] \in Nat /\ ClientServer
  BY StreamFacts DEF RestOK
<1>2. Commits(v, r) /\ WellFormed(r)
  BY DEF Acts, Commits, SessionInv
<1>3. Committed(v, r)
  BY <1>1, ActsBasic
<1>4. p = [r EXCEPT !.out = NothingSent] /\ sess'[c] = sess[c]
  BY <1>1, <1>3 DEF Committed, SessionsOK
<1>5. \A a : Bound(c, a) => Bound(c, a)'
  <2>1. \A a : NetOf(net, c, a) => NetOf(net', c, a)
    BY <1>1, <1>3 DEF Committed
  <2> QED
    BY <1>4, <2>1 DEF Bound
<1>6. accepted'[c] = accepted[c] /\ delivered'[c] = delivered[c]
  BY <1>1, ActsRest
<1> HIDE DEF p
<1>7. /\ p.recv_buffer = r.recv_buffer
      /\ \A b : Marks(r, b) <=> Marks(p, b)
      /\ \A i, j, n : Answers(p, i, j, n) = Answers(r, i, j, n)
      /\ \A s, R, Q, i, j, g, x, y :
              Linked(s, p, R, Q, i, j, g, x, y) <=> Linked(s, r, R, Q, i, j, g, x, y)
  BY <1>2, <1>4, SameSides
<1> SUFFICES ASSUME Fresh(sess[c], opens'[c])
             PROVE  \E i \in ISS[c], j \in ISS[v], g, h, x, y \in Int :
                      Pair(c, i, j, g, h, x, y)'
  BY <1>4 DEF Connected
<1>8. opens' = opens
  BY <1>1, StreamFacts DEF Acts, Opens, Uses, Ends, Takes, Begins
<1>9. PICK i \in ISS[c], j \in ISS[v], g \in Int, h \in Int, x \in Int, y \in Int :
              Pair(c, i, j, g, h, x, y) /\ CalleeGoes(c, r, i, j, g, h, x, y)
  BY <1>8, CalleeActs
<1>10. PICK k \in Int, l \in Int :
        LET d == Full(j, accepted'[v], MaxBytes[v], k, l, Answers(r, i, j, Len(P)))
        IN  /\ Holds(r, d) /\ Mail(r, d) /\ Marks(r, d) /\ Grows(Reply(v, i, j, x, y), d)
            /\ Linked(sess[c], r, Received(c), P, i, j, g, k, l)
  BY <1>9 DEF CalleeGoes
<1>11. PICK d : d = Full(j, accepted'[v], MaxBytes[v], k, l, Answers(r, i, j, Len(P)))
  OBVIOUS
<1>12. /\ Holds(r, d) /\ Mail(r, d) /\ Marks(r, d) /\ Grows(Reply(v, i, j, x, y), d)
       /\ Linked(sess[c], r, Received(c), P, i, j, g, k, l)
  BY <1>10, <1>11
<1>13. Pledge(d)
  <2>1. j \in Word
    BY <1>1
  <2> QED
    BY <1>1, <1>11, <2>1 DEF Full, Pledge
<1>14. Bound(v, d)'
  <2>1. PICK b : ReplySays(b, v, i, j, x, y)
    BY <1>9, PairSays
  <2>2. Pledge(b) /\ Bound(v, b) /\ Grows(b, d)
    BY <1>12, <2>1 DEF ReplySays
  <2> QED
    BY <1>1, <1>2, <1>12, <1>13, <2>2, ActsBound
<1>15. PICK b : b = Dial(c, i, j, g, h)
  OBVIOUS
<1>16. Bound(c, b)' /\ Marks(sess'[c], b) /\ (sess[c].state # "CLOSED" => opens[c] > 0)
  <2>1. Bound(c, b) /\ Marks(sess[c], b) /\ (sess[c].state # "CLOSED" => opens[c] > 0)
    BY <1>9, <1>15 DEF Pair
  <2> QED
    BY <1>4, <1>5, <2>1
<1>17. b = Full(i, accepted'[c], MaxBytes[c], g, h,
                Asks(sess'[c], v, i, j, Len(delivered'[c] \o sess'[c].recv_buffer)))
  BY <1>4, <1>6, <1>15 DEF Dial, Received
<1>18. d = Full(j, accepted'[v], MaxBytes[v], k, l,
                Answers(p, i, j, Len(delivered'[v] \o p.recv_buffer)))
  BY <1>7, <1>11
<1>19. Linked(sess'[c], p, delivered'[c] \o sess'[c].recv_buffer,
              delivered'[v] \o p.recv_buffer, i, j, g, k, l)
  BY <1>4, <1>6, <1>7, <1>12 DEF Received
<1>20. sess'[c].state # "CLOSED" => opens'[c] > 0
  BY <1>4, <1>8, <1>16
<1>21. Marks(p, d)
  BY <1>7, <1>12
<1>22. Pair(c, i, j, g, h, k, l)'
  BY <1>14, <1>16, <1>17, <1>18, <1>19, <1>20, <1>21 DEF Pair, Dial, Reply, Received, p
<1> QED
  BY <1>22

\* Faults of the network.
LEMMA ConnectedIdle ==
  ASSUME StreamAssumption, NEW c \in Connectors, Connected(c), Idle
  PROVE  Connected(c)'
<1> DEFINE v == Peer(c)
<1>1. /\ sess' = sess /\ accepted' = accepted /\ delivered' = delivered /\ opens' = opens
      /\ c \in Addr /\ v \in Addr
  BY StreamFacts DEF Idle
<1>2. \A e \in Addr : \A b : Bound(e, b) => Bound(e, b)'
  BY <1>1 DEF Idle, Bound
<1> SUFFICES ASSUME Fresh(sess[c], opens[c])
             PROVE  \E i \in ISS[c], j \in ISS[v], g, h, x, y \in Int :
                      Pair(c, i, j, g, h, x, y)'
  BY <1>1 DEF Connected
<1>3. PICK i \in ISS[c], j \in ISS[v], g \in Int, h \in Int, x \in Int, y \in Int :
        Pair(c, i, j, g, h, x, y)
  BY DEF Connected
<1>4. PICK b : b = Dial(c, i, j, g, h)
  OBVIOUS
<1>5. PICK d : d = Reply(v, i, j, x, y)
  OBVIOUS
<1>6. /\ Bound(c, b) /\ Marks(sess[c], b) /\ Bound(v, d) /\ Marks(sess[v], d)
      /\ Linked(sess[c], sess[v], Received(c), Received(v), i, j, g, x, y)
      /\ sess[c].state # "CLOSED" => opens[c] > 0
  BY <1>3, <1>4, <1>5 DEF Pair
<1>7. Bound(c, b)' /\ Bound(v, d)'
  BY <1>1, <1>2, <1>6
<1>8. b = Dial(c, i, j, g, h)' /\ d = Reply(v, i, j, x, y)'
  BY <1>1, <1>4, <1>5 DEF Dial, Reply, Received
<1>9. Pair(c, i, j, g, h, x, y)'
  BY <1>1, <1>6, <1>7, <1>8 DEF Pair, Received
<1> QED
  BY <1>9

\* At first nothing has been said.
LEMMA ConnectedInit ==
  ASSUME StreamAssumption, Init, NEW c \in Connectors
  PROVE  Connected(c)
<1> DEFINE v == Peer(c)
<1>1. /\ c \in Addr /\ v \in Addr /\ ISS[c] # {} /\ ISS[v] # {} /\ v \notin Connectors
      /\ ISS[c] \in SUBSET Word /\ ISS[v] \in SUBSET Word
      /\ MaxBytes[c] \in Nat /\ MaxBytes[v] \in Nat
      /\ MaxBytes[c] + 2 < SeqMod /\ MaxBytes[v] + 2 < SeqMod
  BY StreamFacts
<1>2. PICK i \in ISS[c], j \in ISS[v] : TRUE
  BY <1>1
<1>3. i \in Word /\ j \in Word
  BY <1>1
<1>4. PICK b : b = Full(i, 0, MaxBytes[c], 0, 0, Asks(sess[c], v, i, j, Len(Received(c))))
  OBVIOUS
<1>5. PICK d : d = Full(j, 0, MaxBytes[v], 0, 0, Answers(sess[v], i, j, Len(Received(v))))
  OBVIOUS
<1>6. /\ Pledge(b) /\ b.A = 0 /\ b.i \in b.I /\ b.g = 0 /\ b.h = 0 /\ b.m = MaxBytes[c]
      /\ Pledge(d) /\ d.A = 0 /\ d.i \in d.I /\ d.g = 0 /\ d.h = 0 /\ d.m = MaxBytes[v]
  BY <1>1, <1>3, <1>4, <1>5 DEF Full, Pledge
<1>7. /\ Bound(c, b) /\ sess[c].state = "CLOSED" /\ Received(c) = <<>> /\ accepted[c] = 0
  BY <1>1, <1>6, UnusedInit
<1>8. /\ Bound(v, d) /\ sess[v].state = "CLOSED" /\ Received(v) = <<>> /\ accepted[v] = 0
      /\ ~sess[v].alive
  BY <1>1, <1>6, UnusedInit
<1>9. Marks(sess[c], b) /\ Marks(sess[v], d)
  BY <1>1, <1>6, <1>7, <1>8 DEF Marks, Streaming, Crossing
<1>10. Linked(sess[c], sess[v], Received(c), Received(v), i, j, 0, 0, 0)
  <2>1. Reads(sess[c], Received(c), {j}, 0) /\ Reads(sess[v], Received(v), {i}, 0)
    BY <1>7, <1>8 DEF Reads
  <2> QED
    BY <1>7, <1>8, <2>1 DEF Linked, Spoken, Late
<1>11. b = Dial(c, i, j, 0, 0) /\ d = Reply(v, i, j, 0, 0)
  BY <1>4, <1>5, <1>7, <1>8 DEF Dial, Reply
<1>12. Pair(c, i, j, 0, 0, 0, 0)
  BY <1>7, <1>8, <1>9, <1>10, <1>11 DEF Pair
<1>13. 0 \in Int
  OBVIOUS
<1> QED
  BY <1>12, <1>13 DEF Connected

\* Both sides go on until the first connection ends.
Sync == (\A e \in Addr : Waits(sess[e])) /\ \A c \in Connectors : Connected(c)

\* At first,
LEMMA SyncInit == ASSUME StreamAssumption, Init PROVE Sync
<1>1. ASSUME NEW e \in Addr PROVE Waits(sess[e])
  <2>1. PICK b : b = Full(0, 0, MaxBytes[e], 0, 0, Asks(sess[e], e, 0, 0, 0))
    OBVIOUS
  <2>2. MaxBytes[e] \in Nat /\ MaxBytes[e] + 2 < SeqMod /\ 0 \in Word
    BY ConnectionAssumption, WordArith DEF StreamAssumption
  <2>3. Pledge(b) /\ b.A = 0
    BY <2>1, <2>2 DEF Full, Pledge
  <2> QED
    BY <2>3, UnusedInit DEF Waits
<1> QED
  BY <1>1, ConnectedInit DEF Sync

\* and by every step.
LEMMA SyncStep ==
  ASSUME StreamAssumption, MaxOpens <= 1, SessionsOK, NetOK, RestOK, RestOK', Basic, Sync,
         [Next]_vars
  PROVE  Sync'
<1>1. CASE Idle
  <2>1. \A c \in Connectors : Connected(c)'
    BY <1>1, ConnectedIdle DEF Sync
  <2>2. \A e \in Addr : Waits(sess'[e])
    BY <1>1 DEF Idle, Sync
  <2> QED
    BY <2>1, <2>2 DEF Sync
<1>2. ASSUME NEW e \in Addr, NEW r, Acts(e, r)
      PROVE  Sync'
  <2>1. PICK c : c \in Connectors
    BY DEF StreamAssumption, ClientServer
  <2>2. Connectors = {c} /\ (e = c \/ e = Peer(c)) /\ ClientServer /\ Peer(c) \in Addr
    BY <2>1, StreamFacts
  <2>3. Connected(c)'
    <3>1. Connected(c) /\ Waits(sess[Peer(c)])
      BY <2>1, <2>2 DEF Sync
    <3>2. CASE e = c
      BY <1>2, <2>1, <3>1, <3>2, CallerStep
    <3>3. CASE e = Peer(c)
      BY <1>2, <2>1, <3>1, <3>3, CalleeStep
    <3> QED
      BY <2>2, <3>2, <3>3
  <2>4. ASSUME NEW d \in Addr PROVE Waits(sess'[d])
    <3>1. Committed(e, r) /\ WellFormed(r)
      BY <1>2, <2>2, ActsBasic DEF Acts, Commits, SessionInv
    <3>2. CASE d = e
      <4>1. Waits(r)
        BY <1>2, ActsWaits DEF Sync
      <4>2. sess'[e] = [r EXCEPT !.out = NothingSent]
        BY <3>1 DEF Committed, SessionsOK
      <4>3. sess'[e].msl_timer = r.msl_timer /\ sess'[e].state = r.state
        BY <3>1, <4>2 DEF WellFormed, Session
      <4> QED
        BY <3>2, <4>1, <4>3 DEF Waits
    <3>3. CASE d # e
      <4>1. sess'[d] = sess[d]
        BY <3>1, <3>3 DEF Committed, SessionsOK
      <4> QED
        BY <4>1 DEF Sync
    <3> QED
      BY <3>2, <3>3
  <2> QED
    BY <2>2, <2>3, <2>4 DEF Sync
<1> QED
  BY <1>1, <1>2, StepKinds DEF StreamAssumption

\* What a sender that is established knows of its peer, which has received n bytes
\* and expects the number z next: g is the last byte that the sender has sent.
LEMMA WindowBounds ==
  ASSUME NEW r, WellFormed(r), r.alive, r.state = "ESTABLISHED", NEW d, Pledge(d), ~d.any,
         Holds(r, d), Marks(r, d), NEW n \in Nat, n <= d.g, r.send_unack \in Upto(d.i, n),
         NEW z \in Word, Off(d.i, z) = 1 + n
  PROVE  /\ d.A - Len(r.send_buffer) <= n
         /\ Minus(z, r.send_unack) <= Minus(r.send_next, r.send_unack)
<1> DEFINE u == Off(d.i, r.send_unack)
           w == Off(d.i, r.send_next)
           l == Len(r.send_buffer)
           A == d.A
           g == d.g
<1>1. u = 1 + A - l /\ u \in Nat /\ l \in Nat
  BY UnackBound
<1>2. u <= 1 + n
  BY DEF Upto
<1>3. w \in Nat /\ r.send_next \in Word /\ r.send_unack \in Word /\ d.i \in Word /\ A \in Nat
  BY NumberFacts DEF Pledge
<1>4. g = w - 1 /\ n <= g
  BY DEF Marks, Streaming, Top
<1>5. Off(d.i, z) = 1 + n
  OBVIOUS
<1>6. /\ u <= Off(d.i, z) => Minus(z, r.send_unack) = Off(d.i, z) - u
      /\ u <= w => Minus(r.send_next, r.send_unack) = w - u
  BY <1>3, OffArith
<1>7. u <= Off(d.i, z)
  BY <1>2, <1>5
<1>8. Minus(z, r.send_unack) = Off(d.i, z) - u
  BY <1>6, <1>7
<1> DEFINE o == Off(d.i, z)
           p == Minus(z, r.send_unack)
           q == Minus(r.send_next, r.send_unack)
<1>9. o = 1 + n /\ p = o - u /\ u <= o /\ (u <= w => q = w - u)
  BY <1>5, <1>6, <1>7, <1>8
<1> HIDE DEF u, w, l, A, g, o, p, q
<1>10. A - l <= n
  BY <1>1, <1>2, <1>3
<1>11. p <= q
  BY <1>1, <1>3, <1>4, <1>9
<1> QED
  BY <1>10, <1>11 DEF A, l, p, q

\* While both sides are established, each knows as much of the other.
LEMMA InSyncBounds ==
  ASSUME StreamAssumption, SessionsOK, RestOK, Sync, NEW e \in Addr, InSync(e)
  PROVE  /\ accepted[e] - Len(sess[e].send_buffer) <= Len(Received(Peer(e)))
         /\ Minus(sess[Peer(e)].recv_next, sess[e].send_unack)
              <= Minus(sess[e].send_next, sess[e].send_unack)
<1>1. PICK c : c \in Connectors
  BY DEF StreamAssumption, ClientServer
<1> DEFINE v == Peer(c)
<1>2. c \in Addr /\ v \in Addr /\ Peer(v) = c /\ (e = c \/ e = v)
  BY <1>1, StreamFacts
<1>3. /\ sess[c].alive /\ sess[c].state = "ESTABLISHED" /\ WellFormed(sess[c])
      /\ sess[v].alive /\ sess[v].state = "ESTABLISHED" /\ WellFormed(sess[v])
  BY <1>2 DEF InSync, SessionsOK, SessionInv
<1>4. sess[c].recv_next \in Word /\ sess[v].recv_next \in Word
  BY <1>3 DEF WellFormed, Session
<1>5. Len(Received(c)) \in Nat /\ Len(Received(v)) \in Nat
  BY <1>2, ReceivedType
<1>6. Connected(c) /\ Fresh(sess[c], opens[c])
  BY <1>1, <1>3 DEF Sync, Fresh
<1>7. PICK i \in ISS[c], j \in ISS[v], g \in Int, h \in Int, x \in Int, y \in Int :
        Pair(c, i, j, g, h, x, y)
  BY <1>6 DEF Connected
<1>8. Linked(sess[c], sess[v], Received(c), Received(v), i, j, g, x, y)
  BY <1>7 DEF Pair
<1>9. PICK b : DialSays(b, c, i, j, g, h)
  BY <1>1, <1>7, PairSays
<1>10. PICK d : ReplySays(d, v, i, j, x, y)
  BY <1>1, <1>7, PairSays
<1>11. /\ Pledge(b) /\ ~b.any /\ b.i = i /\ b.g = g /\ b.A = accepted[c]
       /\ Holds(sess[c], b) /\ Marks(sess[c], b)
  BY <1>9 DEF DialSays, Bound
<1>12. /\ Pledge(d) /\ ~d.any /\ d.i = j /\ d.g = x /\ d.A = accepted[v]
       /\ Holds(sess[v], d) /\ Marks(sess[v], d)
  BY <1>10 DEF ReplySays, Bound
<1> HIDE DEF v
<1>13. CASE e = c
  <2>1. /\ Len(Received(v)) <= g /\ sess[c].send_unack \in Upto(i, Len(Received(v)))
        /\ Off(i, sess[v].recv_next) = 1 + Len(Received(v))
    BY <1>3, <1>8 DEF Linked, Reads
  <2>2. /\ accepted[c] - Len(sess[c].send_buffer) <= Len(Received(v))
        /\ Minus(sess[v].recv_next, sess[c].send_unack)
             <= Minus(sess[c].send_next, sess[c].send_unack)
    BY <1>3, <1>4, <1>5, <1>11, <2>1, WindowBounds
  <2> QED
    BY <1>13, <2>2 DEF v
<1>14. CASE e = v
  <2>1. /\ Len(Received(c)) <= x /\ sess[v].send_unack \in Upto(j, Len(Received(c)))
        /\ Off(j, sess[c].recv_next) = 1 + Len(Received(c))
    BY <1>3, <1>8 DEF Linked, Reads
  <2>2. /\ accepted[v] - Len(sess[v].send_buffer) <= Len(Received(c))
        /\ Minus(sess[c].recv_next, sess[v].send_unack)
             <= Minus(sess[v].send_next, sess[v].send_unack)
    BY <1>3, <1>4, <1>5, <1>12, <2>1, WindowBounds
  <2> QED
    BY <1>2, <1>14, <2>2
<1> QED
  BY <1>2, <1>13, <1>14

\* Both sides of the first connection are in step with each other.
LEMMA SyncInvariant ==
  ASSUME StreamAssumption, MaxOpens <= 1
  PROVE  /\ Init => IInv /\ Basic /\ Sync
         /\ IInv /\ Basic /\ Sync /\ [Next]_vars => IInv' /\ Basic' /\ Sync'
<1>1. Init => IInv /\ Basic /\ Sync
  BY InitInv, BasicInit, SyncInit
<1>2. ASSUME IInv, Basic, Sync, [Next]_vars PROVE IInv' /\ Basic' /\ Sync'
  <2>1. IInv'
    BY <1>2, StepInv
  <2>2. SessionsOK /\ NetOK /\ RestOK /\ RestOK'
    <3>1. RestOK'
      BY <2>1 DEF IInv, TypeOK, RestOK
    <3> QED
      BY <1>2, <3>1, Parts
  <2>3. ClientServer
    BY DEF StreamAssumption
  <2> QED
    BY <1>2, <2>1, <2>2, <2>3, BasicStep, SyncStep
<1> QED
  BY <1>1, <1>2

\* While both sides are established, send_buffer_ gives up a byte only after the
\* peer has it: whatever UDP does to the acknowledgements, _handle_ack releases no
\* data that could still have to be sent again.  Hypotheses: those of
\* StreamsArePrefixes, and that connect() is called at most once: the RST of an
\* attempt that was given up can come late and end the server's session, and a
\* repeated SYN with the same numbers starts another, which has none of the data
\* (TLC finds this with MaxOpens = 2).
THEOREM AckedIsReceived ==
  ASSUME StreamAssumption, MaxOpens <= 1 PROVE Spec => []AckedWasReceived
<1>1. IInv /\ Sync => AckedWasReceived
  BY InSyncBounds, Parts DEF AckedWasReceived
<1>2. Init => IInv /\ Basic /\ Sync
  BY SyncInvariant
<1>3. IInv /\ Basic /\ Sync /\ [Next]_vars => IInv' /\ Basic' /\ Sync'
  BY SyncInvariant
<1> QED
  BY <1>1, <1>2, <1>3, PTL DEF Spec

\* While both sides are established, the number that the receiver expects next
\* lies between the sender's send_unack_ and send_next_: neither side believes the
\* other further than it is, and every acknowledgement that the receiver sends
\* is one that _handle_ack was waiting for.  Hypotheses: those of AckedIsReceived.
THEOREM WindowsInStep ==
  ASSUME StreamAssumption, MaxOpens <= 1 PROVE Spec => []WindowsAgree
<1>1. IInv /\ Sync => WindowsAgree
  BY InSyncBounds, Parts DEF WindowsAgree
<1>2. Init => IInv /\ Basic /\ Sync
  BY SyncInvariant
<1>3. IInv /\ Basic /\ Sync /\ [Next]_vars => IInv' /\ Basic' /\ Sync'
  BY SyncInvariant
<1> QED
  BY <1>1, <1>2, <1>3, PTL DEF Spec

-----------------------------------------------------------------------------
(* The connection carries two streams of bytes.                            *)

\* The received bytes that the abstract specification counts.
Arrived == [e \in Addr |-> Len(Received(e))]

\* The stacks that have a session.
Alive == [e \in Addr |-> sess[e].alive]

\* A packet that an established session takes holds bytes that the peer's
\* application has written.
LEMMA TakesWritten ==
  ASSUME StreamAssumption, SessionsOK, NetOK, RestOK, Basic, Streams, Sync, NEW e \in Addr,
         NEW r, NEW packet, Takes(e, r, packet), sess[e].alive, sess[e].state = "ESTABLISHED"
  PROVE  \E lim \in Nat, J \in SUBSET Word :
           /\ lim <= accepted[Peer(e)] /\ Reads(sess[e], Received(e), J, lim)
           /\ Proper(packet, J, lim)
<1>1. PICK c : c \in Connectors
  BY DEF StreamAssumption, ClientServer
<1> DEFINE v == Peer(c)
<1>2. /\ c \in Addr /\ v \in Addr /\ Peer(v) = c /\ (e = c \/ e = v)
      /\ ISS[v] \in SUBSET Word /\ ISS[c] \in SUBSET Word /\ MaxBytes[v] \in Nat
      /\ MaxBytes[c] \in Nat
  BY <1>1, StreamFacts
<1>3. CASE e = c
  <2>1. Connected(c) /\ Fresh(sess[c], opens[c])
    BY <1>1, <1>3 DEF Sync, Fresh
  <2>2. PICK i \in ISS[c], j \in ISS[v], g \in Int, h \in Int, x \in Int, y \in Int :
          Pair(c, i, j, g, h, x, y)
    BY <2>1 DEF Connected
  <2>3. Proper(packet, {j}, x)
    BY <1>1, <1>3, <2>1, <2>2, CallerHears
  <2>4. Linked(sess[c], sess[v], Received(c), Received(v), i, j, g, x, y)
    BY <2>2 DEF Pair
  <2>5. Reads(sess[c], Received(c), {j}, x)
    BY <2>4 DEF Linked
  <2>6. PICK d : ReplySays(d, v, i, j, x, y)
    BY <1>1, <2>2, PairSays
  <2>7. x \in Nat /\ x <= accepted[v] /\ {j} \in SUBSET Word
    BY <1>2, <2>6 DEF ReplySays
  <2> QED
    BY <1>3, <2>3, <2>5, <2>7
<1>4. CASE e = v
  <2> DEFINE f == ~YoungSession(sess[c])
  <2>1. PICK i \in ISS[c], g \in Int, h \in Int :
          LET b == ClientPledge(c, i, accepted[c], g, h, f)
          IN  Bound(c, b) /\ Marks(sess[c], b) /\ Reads(sess[v], Received(v), ISS[c], g)
    BY <1>1 DEF Streams, ClientSends
  <2>2. PICK b : b = ClientPledge(c, i, accepted[c], g, h, f)
    OBVIOUS
  <2>3. Bound(c, b) /\ Marks(sess[c], b) /\ Reads(sess[v], Received(v), ISS[c], g)
    BY <2>1, <2>2
  <2>4. b.g = g /\ b.h = h /\ b.m = MaxBytes[c] /\ b.A = accepted[c]
    BY <2>2 DEF ClientPledge
  <2>5. /\ g \in 0..MaxBytes[c] /\ h \in 0..(MaxBytes[c] + 1) /\ g <= accepted[c]
        /\ accepted[c] \in Nat
    BY <1>2, <2>3, <2>4 DEF Marks, RestOK
  <2>6. packet.src = c /\ Arrives(v, packet) /\ packet \in myu_tcp_packet
    BY <1>1, <1>4, ServerTakes
  <2>7. PacketOK(b, v, packet)
    BY <1>2, <2>3, <2>6, ArrivesOK
  <2> HIDE DEF f
  <2>8. Proper(packet, ISS[c], g)
    BY <1>1, <2>2, <2>5, <2>6, <2>7, ClientProper
  <2>9. g \in Nat
    BY <1>2, <2>5
  <2> QED
    BY <1>2, <1>4, <2>3, <2>5, <2>8, <2>9
<1> QED
  BY <1>2, <1>3, <1>4

\* So the session has received no more than has been written.
LEMMA AcceptedWritten ==
  ASSUME NEW s, NEW r, NEW packet \in myu_tcp_packet, s.alive, Accepted(r, s, packet),
         NEW R \in Seq(Byte), NEW J, NEW lim \in Nat, Reads(s, R, J, lim),
         Proper(packet, J, lim)
  PROVE  Len(R) + Len(packet.payload) <= lim
<1> DEFINE k == Len(R)
<1>1. s.state = "ESTABLISHED" /\ packet.payload # <<>> /\ packet.seq = s.recv_next
  BY DEF Accepted
<1>2. k <= lim /\ \E j \in J : Off(j, s.recv_next) = 1 + k
  BY <1>1 DEF Reads
<1>3. k \in Nat
  BY LenProperties
<1>4. k \in 0..lim
  BY <1>2, <1>3
<1> HIDE DEF k
<1>5. k + Len(packet.payload) <= lim
  BY <1>1, <1>2, <1>4 DEF Proper
<1> QED
  BY <1>5 DEF k

\* Where a step of one stack takes the streams.
LEMMA ArrivedNow ==
  ASSUME SessionsOK, NetOK, RestOK, ClientServer, Basic, NEW e \in Addr, NEW r, Acts(e, r)
  PROVE  /\ Arrived \in [Addr -> Nat] /\ Arrived[e] = Len(Received(e))
         /\ Arrived' = [Arrived EXCEPT ![e] = Len(delivered'[e] \o r.recv_buffer)]
         /\ Alive' = [Alive EXCEPT ![e] = r.alive]
         /\ r.alive = sess[e].alive => Alive' = Alive
<1>1. Committed(e, r) /\ WellFormed(r)
  BY ActsBasic DEF Acts, Commits, SessionInv
<1>2. sess' = [sess EXCEPT ![e] = [r EXCEPT !.out = NothingSent]] /\ sess \in [Addr -> Session]
  BY <1>1 DEF Committed, SessionsOK
<1>3. \A d \in Addr : Len(Received(d)) \in Nat
  BY ReceivedType
<1>4. sess'[e].recv_buffer = r.recv_buffer
  BY <1>1, <1>2 DEF WellFormed, Session
<1>5. \A d \in Addr \ {e} : sess'[d] = sess[d] /\ delivered'[d] = delivered[d]
  BY <1>2, ActsRest
<1>6. \A d \in Addr : Len(delivered'[d] \o sess'[d].recv_buffer)
                        = IF d = e THEN Len(delivered'[e] \o r.recv_buffer) ELSE Len(Received(d))
  BY <1>4, <1>5 DEF Received
<1>7. Arrived' = [d \in Addr |-> Len(delivered'[d] \o sess'[d].recv_buffer)]
  BY DEF Arrived, Received
<1>8. sess'[e].alive = r.alive
  BY <1>1, <1>2 DEF WellFormed, Session
<1>9. /\ Alive' = [Alive EXCEPT ![e] = r.alive]
      /\ r.alive = sess[e].alive => Alive' = Alive
  BY <1>5, <1>8 DEF Alive
<1> QED
  BY <1>3, <1>6, <1>7, <1>9 DEF Arrived

\* A step that leaves alone the sessions and what has been written, received and read.
StreamsStay ==
  Alive' = Alive /\ accepted' = accepted /\ Arrived' = Arrived /\ delivered' = delivered

\* The steps of the abstract specification, in the terms of the connection.
LEMMA StreamSteps ==
  ASSUME NEW e \in Addr
  PROVE  /\ StreamsStay => UNCHANGED Stream!vars
         /\ Stream!Write(e) \/ Stream!Arrive(e) \/ Stream!Read(e) \/ Stream!End(e)
              \/ Stream!Begin(e) => Stream!Next
         /\ (\E n \in 0..BufferCapacity : accepted' = [accepted EXCEPT ![e] = @ + n])
              /\ sess[e].alive /\ Alive' = Alive
              /\ Arrived' = Arrived /\ delivered' = delivered => Stream!Write(e)
         /\ \A n \in Arrived[e]..accepted[Peer(e)] :
              /\ sess[e].alive /\ Alive' = Alive
              /\ n - Len(delivered[e]) <= BufferCapacity
              /\ Arrived' = [Arrived EXCEPT ![e] = n]
              /\ accepted' = accepted /\ delivered' = delivered
              => Stream!Arrive(e)
         /\ \A n \in Len(delivered[e])..Arrived[e] :
              /\ sess[e].alive /\ Alive' = Alive
              /\ delivered' = [delivered EXCEPT ![e] = [i \in 1..n |-> i]]
              /\ accepted' = accepted /\ Arrived' = Arrived
              => Stream!Read(e)
         /\ sess[e].alive /\ Alive' = [Alive EXCEPT ![e] = FALSE]
              /\ Arrived' = [Arrived EXCEPT ![e] = Len(delivered[e])] /\ accepted' = accepted
              /\ delivered' = delivered => Stream!End(e)
         /\ e \in Listeners /\ ~sess[e].alive /\ Alive' = [Alive EXCEPT ![e] = TRUE]
              /\ accepted' = [accepted EXCEPT ![e] = 0]
              /\ Arrived' = [Arrived EXCEPT ![e] = 0] /\ delivered' = [delivered EXCEPT ![e] = <<>>]
              => Stream!Begin(e)
<1>0. Alive[e] = sess[e].alive
  BY DEF Alive
<1>1. StreamsStay => UNCHANGED Stream!vars
  BY DEF StreamsStay, Arrived, Alive, Stream!vars
<1>2. Stream!Write(e) \/ Stream!Arrive(e) \/ Stream!Read(e) \/ Stream!End(e)
        \/ Stream!Begin(e) => Stream!Next
  BY DEF Stream!Next
<1>3. (\E n \in 0..BufferCapacity : accepted' = [accepted EXCEPT ![e] = @ + n])
        /\ sess[e].alive /\ Alive' = Alive
        /\ Arrived' = Arrived /\ delivered' = delivered => Stream!Write(e)
  BY DEF Arrived, Alive, Stream!Write
<1>4. ASSUME NEW n \in Arrived[e]..accepted[Peer(e)], sess[e].alive, Alive' = Alive,
             n - Len(delivered[e]) <= BufferCapacity,
             Arrived' = [Arrived EXCEPT ![e] = n], accepted' = accepted,
             delivered' = delivered
      PROVE  Stream!Arrive(e)
  BY <1>4 DEF Arrived, Alive, Stream!Arrive, Stream!Other, Peer
<1>5. ASSUME NEW n \in Len(delivered[e])..Arrived[e], sess[e].alive, Alive' = Alive,
             delivered' = [delivered EXCEPT ![e] = [i \in 1..n |-> i]],
             accepted' = accepted, Arrived' = Arrived
      PROVE  Stream!Read(e)
  BY <1>5 DEF Arrived, Alive, Stream!Read
<1>6. sess[e].alive /\ Alive' = [Alive EXCEPT ![e] = FALSE]
        /\ Arrived' = [Arrived EXCEPT ![e] = Len(delivered[e])] /\ accepted' = accepted
        /\ delivered' = delivered => Stream!End(e)
  BY DEF Arrived, Alive, Stream!End
<1>7. e \in Listeners /\ ~sess[e].alive /\ Alive' = [Alive EXCEPT ![e] = TRUE]
        /\ accepted' = [accepted EXCEPT ![e] = 0]
        /\ Arrived' = [Arrived EXCEPT ![e] = 0] /\ delivered' = [delivered EXCEPT ![e] = <<>>]
        => Stream!Begin(e)
  BY DEF Arrived, Alive, Stream!Begin
<1> QED
  BY <1>1, <1>2, <1>3, <1>4, <1>5, <1>6, <1>7

\* A packet adds what it holds to what has been received, or ends the session.
LEMMA TakesStream ==
  ASSUME StreamAssumption, SessionsOK, NetOK, RestOK, Basic, Streams, Sync, NEW e \in Addr,
         NEW r, Acts(e, r), NEW packet, Takes(e, r, packet)
  PROVE  StreamsStay \/ Stream!Arrive(e) \/ Stream!End(e)
<1> DEFINE s == sess[e]
           R == Received(e)
           d == delivered[e]
           p == packet.payload
<1>1. ClientServer /\ Peer(e) \in Addr /\ WellFormed(r) /\ WellFormed(s)
  BY PeerType DEF StreamAssumption, Acts, Commits, SessionInv, SessionsOK
<1>2. /\ s.alive /\ Follows(r, s, packet) /\ accepted' = accepted /\ delivered' = delivered
      /\ packet \in myu_tcp_packet
  BY <1>1, TakesFollows DEF Unread
<1>3. /\ Arrived \in [Addr -> Nat] /\ Arrived[e] = Len(R)
      /\ Arrived' = [Arrived EXCEPT ![e] = Len(d \o r.recv_buffer)]
      /\ Alive' = [Alive EXCEPT ![e] = r.alive] /\ (r.alive = s.alive => Alive' = Alive)
  BY <1>1, <1>2, ArrivedNow
<1>4. /\ R \in Seq(Byte) /\ d \in Seq(Byte) /\ s.recv_buffer \in Seq(Byte)
      /\ r.recv_buffer \in Seq(Byte) /\ Len(r.recv_buffer) <= BufferCapacity
      /\ p \in Seq(Byte) /\ R = d \o s.recv_buffer /\ BufferCapacity \in Nat
  BY <1>1, <1>2, ReceivedType, SessionAssumption
     DEF WellFormed, Session, myu_tcp_packet, Received
<1> HIDE DEF R, d
<1>8. sess[e].alive
  BY <1>2
<1> HIDE DEF s
<1>5. CASE r.recv_buffer = s.recv_buffer /\ r.alive = s.alive
  <2>1. Arrived' = Arrived /\ Alive' = Alive
    BY <1>3, <1>4, <1>5
  <2> QED
    BY <1>2, <2>1 DEF StreamsStay
<1>6. CASE Gone(r, s, packet)
  <2>1. d \o r.recv_buffer = d /\ r.alive = FALSE
    BY <1>4, <1>6 DEF Gone
  <2>2. /\ Arrived' = [Arrived EXCEPT ![e] = Len(delivered[e])]
        /\ Alive' = [Alive EXCEPT ![e] = FALSE]
    BY <1>3, <2>1 DEF d
  <2> QED
    BY <1>2, <1>8, <2>2, StreamSteps
<1>7. CASE Accepted(r, s, packet)
  <2> DEFINE n == Len(d \o r.recv_buffer)
  <2>1. s.state = "ESTABLISHED" /\ r.recv_buffer = s.recv_buffer \o p
    BY <1>7 DEF Accepted
  <2>2. PICK lim \in Nat, J \in SUBSET Word :
           /\ lim <= accepted[Peer(e)] /\ Reads(s, R, J, lim)
           /\ Proper(packet, J, lim)
    BY <1>2, <2>1, TakesWritten DEF s, R
  <2>3. Len(R) + Len(p) <= lim
    BY <1>2, <1>4, <1>7, <2>2, AcceptedWritten
  <2>4. /\ n = Len(d) + Len(r.recv_buffer) /\ Len(d) \in Nat /\ Len(r.recv_buffer) \in Nat
    BY <1>4, ConcatFacts
  <2>5. /\ Len(r.recv_buffer) = Len(s.recv_buffer) + Len(p) /\ Len(p) \in Nat
        /\ Len(s.recv_buffer) \in Nat
    BY <1>4, <2>1, ConcatFacts
  <2>6. Len(R) = Len(d) + Len(s.recv_buffer)
    BY <1>4, ConcatFacts
  <2>7. accepted[Peer(e)] \in Nat
    BY <1>1 DEF RestOK
  <2> DEFINE a == accepted[Peer(e)]
             k == Len(R)
             x == Len(p)
             y == Len(d)
             z == Len(s.recv_buffer)
             w == Len(r.recv_buffer)
  <2>8. /\ a \in Nat /\ x \in Nat /\ y \in Nat /\ z \in Nat /\ w \in Nat /\ lim <= a
        /\ k + x <= lim /\ n = y + w /\ w = z + x /\ k = y + z /\ w <= BufferCapacity
    BY <1>4, <2>2, <2>3, <2>4, <2>5, <2>6, <2>7
  <2> HIDE DEF a, k, x, y, z, w, n
  <2>9. n \in k..a /\ n - y <= BufferCapacity
    BY <1>4, <2>8
  <2>10. n \in Arrived[e]..accepted[Peer(e)] /\ n - Len(delivered[e]) <= BufferCapacity
    BY <1>3, <2>9 DEF k, a, y, d
  <2>11. Arrived' = [Arrived EXCEPT ![e] = n] /\ Alive' = Alive
    BY <1>3, <1>7 DEF n, Accepted
  <2> QED
    BY <1>2, <1>8, <2>10, <2>11, StreamSteps
<1> QED
  BY <1>2, <1>5, <1>6, <1>7 DEF Follows, Kept, Opened, Joined

\* A call writes or reads.
LEMMA UsesStream ==
  ASSUME StreamAssumption, SessionsOK, NetOK, RestOK, RestOK', Basic, Streams, NEW e \in Addr,
         NEW r, Acts(e, r), Uses(e, r)
  PROVE  Stream!Write(e) \/ Stream!Read(e)
<1> DEFINE s == sess[e]
           R == Received(e)
           d == delivered[e]
           q == delivered'[e]
<1>1. /\ ClientServer /\ Called(e, r) /\ q \o r.recv_buffer = R /\ WellFormed(r)
      /\ sess[e].alive /\ r.alive = sess[e].alive
  BY UsesSteady DEF StreamAssumption, Acts, Commits, SessionInv, Steady
<1>2. Arrived' = [Arrived EXCEPT ![e] = Len(R)] /\ Arrived[e] = Len(R) /\ Arrived \in [Addr -> Nat]
  BY <1>1, ArrivedNow
<1>3. Arrived' = Arrived /\ Alive' = Alive
  BY <1>1, <1>2, ArrivedNow
<1>4. /\ R \in Seq(Byte) /\ d \in Seq(Byte) /\ q \in Seq(Byte) /\ r.recv_buffer \in Seq(Byte)
      /\ delivered \in [Addr -> Seq(Byte)] /\ s.recv_buffer \in Seq(Byte)
  BY <1>1, ReceivedType DEF RestOK, WellFormed, Session
<1>5. CASE delivered' = delivered
  <2>1. \E n \in 0..BufferCapacity : accepted' = [accepted EXCEPT ![e] = @ + n]
    BY <1>1, CallWrites
  <2> QED
    BY <1>1, <1>3, <1>5, <2>1, StreamSteps
<1>6. ASSUME NEW n \in Nat, delivered' = [delivered EXCEPT ![e] = @ \o Readable(s, n)],
             accepted' = accepted
      PROVE  Stream!Read(e)
  <2>1. q = d \o Readable(s, n)
    BY <1>4, <1>6
  <2>2. Readable(s, n) \in Seq(Byte)
    BY <1>4, <1>6 DEF Readable
  <2> HIDE DEF R, s
  <2>3. Len(q) = Len(d) + Len(Readable(s, n)) /\ Len(d) \in Nat /\ Len(Readable(s, n)) \in Nat
    <3> HIDE DEF q, d
    <3> QED
      BY <1>4, <2>1, <2>2, ConcatFacts
  <2>4. /\ Len(R) = Len(q) + Len(r.recv_buffer) /\ Len(q) \in Nat /\ Len(r.recv_buffer) \in Nat
        /\ \A i \in 1..Len(q) : R[i] = q[i] /\ i \in 1..Len(R)
    <3> HIDE DEF q, d
    <3> QED
      BY <1>1, <1>4, ConcatFacts
  <2>5. \A i \in 1..Len(R) : R[i] = i
    BY StreamsPrefix DEF StreamPrefix, R
  <2> DEFINE m == Len(q)
  <2>6. m \in Nat /\ \A i \in 1..m : q[i] = i
    BY <2>4, <2>5
  <2>7. q = [i \in 1..m |-> i]
    <3> HIDE DEF q
    <3>1. q = [i \in 1..Len(q) |-> q[i]]
      BY <1>4
    <3> QED
      BY <2>6, <3>1
  <2>8. delivered' = [delivered EXCEPT ![e] = [i \in 1..m |-> i]]
    <3>1. delivered' = [delivered EXCEPT ![e] = q]
      BY <1>4, <1>6
    <3> HIDE DEF m, q
    <3> QED
      BY <2>7, <3>1
  <2> DEFINE k == Len(d)
             l == Len(R)
             x == Len(Readable(s, n))
             y == Len(r.recv_buffer)
  <2>9. m \in Nat /\ k \in Nat /\ x \in Nat /\ y \in Nat /\ m = k + x /\ l = m + y
    BY <2>3, <2>4
  <2> HIDE DEF m, k, l, x, y, q
  <2>10. m \in k..l
    BY <2>9
  <2>11. m \in Len(delivered[e])..Arrived[e]
    BY <1>2, <2>10 DEF k, l
  <2> QED
    BY <1>1, <1>3, <1>6, <2>8, <2>11, StreamSteps
<1> QED
  BY <1>1, <1>5, <1>6 DEF Called

\* A new session starts both streams of the server again.
LEMMA BeginsStream ==
  ASSUME SessionsOK, NetOK, RestOK, ClientServer, Basic, NEW e \in Addr, NEW r, Acts(e, r),
         NEW packet, Begins(e, r, packet)
  PROVE  Stream!Begin(e)
<1> DEFINE B == Anything(Opener(e))
<1>1. /\ Pledge(B) /\ B.any = TRUE /\ B.joins = Word
  BY AnythingType
<1>2. PICK iss \in ISS[e], initial \in InitialSendSeq :
        r = input(listen(NewSession(e, packet.src, initial)), packet, iss)
  BY DEF Begins
<1> DEFINE l == listen(NewSession(e, packet.src, initial))
<1>3. iss \in Word
  BY ConnectionAssumption
<1> HIDE DEF B
<1>4. Follows(r, l, packet) /\ l.recv_buffer = <<>> /\ l.state = "LISTEN" /\ l.alive
  BY <1>1, <1>2, <1>3, BeginsCarries
<1> HIDE DEF l
<1>9. Arrives(e, packet) /\ packet.flags = {"SYN"} /\ ~HasSessionFor(e, packet)
  BY DEF Begins
<1>5. r.recv_buffer = <<>> /\ r.alive
  BY <1>4, <1>9 DEF Follows, Gone, Kept, Opened, Joined, Accepted
<1>10. ~sess[e].alive
  <2>1. packet.src = Peer(e)
    BY <1>9, SynArrives
  <2>2. sess[e].remote = Peer(e)
    BY DEF Basic, Placed
  <2> QED
    BY <1>9, <2>1, <2>2 DEF HasSessionFor
<1>6. /\ e \in Listeners /\ accepted' = [accepted EXCEPT ![e] = 0]
      /\ delivered' = [delivered EXCEPT ![e] = <<>>] /\ delivered'[e] = <<>>
  BY DEF Begins, RestOK
<1>7. Len(delivered'[e] \o r.recv_buffer) = 0
  BY <1>5, <1>6
<1>8. Arrived' = [Arrived EXCEPT ![e] = 0] /\ Alive' = [Alive EXCEPT ![e] = TRUE]
  <2>1. r.alive = TRUE
    BY <1>5, ActsBasic DEF Acts, Commits, SessionInv, WellFormed, Session
  <2> QED
    BY <1>7, <2>1, ArrivedNow
<1> QED
  BY <1>6, <1>8, <1>10, StreamSteps

\* Every step of a stack is a step of the abstract specification.
LEMMA ActsStream ==
  ASSUME StreamAssumption, SessionsOK, NetOK, RestOK, RestOK', Basic, Streams, Sync,
         NEW e \in Addr, NEW r, Acts(e, r)
  PROVE  Stream!Next \/ UNCHANGED Stream!vars
<1>1. /\ ClientServer /\ delivered \in [Addr -> Seq(Byte)] /\ SessionInv(sess[e])
      /\ sess[e].recv_buffer \in Seq(Byte)
  BY DEF StreamAssumption, RestOK, SessionsOK, Session
<1>2. /\ Arrived \in [Addr -> Nat] /\ Arrived[e] = Len(Received(e))
      /\ Arrived' = [Arrived EXCEPT ![e] = Len(delivered'[e] \o r.recv_buffer)]
      /\ Alive' = [Alive EXCEPT ![e] = r.alive] /\ (r.alive = sess[e].alive => Alive' = Alive)
  BY <1>1, ArrivedNow
<1>3. CASE Opens(e, r)
  <2> DEFINE B == Anything(Opener(e))
  <2>1. /\ Pledge(B) /\ B.any = TRUE /\ Holds(sess[e], B)
    BY AnythingType DEF Basic, Bound
  <2> HIDE DEF B
  <2>2. PICK iss \in ISS[e] : r = connect(sess[e], iss)
    BY <1>3 DEF Opens
  <2>3. iss \in Word
    BY ConnectionAssumption
  <2>4. sess[e].alive /\ sess[e].state = "CLOSED" /\ accepted' = accepted /\ delivered' = delivered
    BY <1>3 DEF Opens, Unread
  <2>5. r.recv_buffer = sess[e].recv_buffer /\ r.alive
    BY <1>1, <2>1, <2>2, <2>3, <2>4, ConnectCarries
  <2>7. r.alive = sess[e].alive
    BY <1>1, <2>4, <2>5 DEF Acts, Commits, SessionInv, WellFormed, Session
  <2>6. Arrived' = Arrived /\ Alive' = Alive
    BY <1>2, <2>4, <2>5, <2>7 DEF Received
  <2> QED
    BY <2>4, <2>6, StreamSteps DEF StreamsStay
<1>4. CASE Uses(e, r)
  BY <1>4, UsesStream, StreamSteps
<1>5. CASE Ends(e, r)
  <2>1. /\ r.recv_buffer = <<>> /\ accepted' = accepted /\ delivered' = delivered
        /\ r.alive = FALSE
    BY <1>5, EndsCarries DEF Ends, Unread
  <2>3. sess[e].alive
    <3>1. Flight(sess[e])
      BY DEF Basic, Bound, Holds
    <3> QED
      BY <1>1, <1>5, <3>1 DEF Ends, SessionInv, Quiet, Flight
  <2>2. delivered'[e] \o r.recv_buffer = delivered[e]
    BY <1>1, <2>1
  <2> QED
    BY <1>2, <2>1, <2>2, <2>3, StreamSteps
<1>6. ASSUME NEW packet, Takes(e, r, packet) PROVE Stream!Next \/ UNCHANGED Stream!vars
  BY <1>6, TakesStream, StreamSteps
<1>7. ASSUME NEW packet, Begins(e, r, packet) PROVE Stream!Next
  BY <1>1, <1>7, BeginsStream, StreamSteps
<1> QED
  BY <1>3, <1>4, <1>5, <1>6, <1>7 DEF Acts

\* At first nothing has been written, received or read.
LEMMA StreamsStart == ASSUME StreamAssumption, Init PROVE Stream!Init
<1>1. accepted = [e \in Addr |-> 0] /\ delivered = [e \in Addr |-> <<>>]
  BY DEF Init
<1>2. ASSUME NEW e \in Addr PROVE Received(e) = <<>>
  <2>1. PICK b : b = Anything(Opener(e))
    OBVIOUS
  <2>2. Pledge(b) /\ b.A = 0
    BY <2>1, AnythingType DEF Anything
  <2> QED
    BY <2>2, UnusedInit
<1>3. [e \in Addr |-> Len(Received(e))] = [e \in Addr |-> 0]
  BY <1>2
<1>4. [e \in Addr |-> sess[e].alive] = [e \in Addr |-> e \notin Listeners]
  <2>1. PICK k \in [Addr -> InitialSendSeq] :
          sess = [e \in Addr |-> IF e \in Connectors THEN NewSession(e, Peer(e), k[e])
                                                     ELSE NoSession(e)]
    BY DEF Init
  <2>2. \A e \in Addr : /\ NoSession(e).alive = FALSE
                        /\ NewSession(e, Peer(e), k[e]).alive = TRUE
    BY DEF NoSession, NewSession
  <2>3. \A e \in Addr : sess[e].alive = (e \notin Listeners)
    BY <2>1, <2>2 DEF Listeners
  <2> QED
    BY <2>3
<1> QED
  BY <1>1, <1>3, <1>4 DEF Stream!Init

\* The connection is two streams of bytes, one in each direction: no byte is
\* received before the peer's application has written it, the receive buffer
\* holds at most what it has room for, received bytes are only added to as long as
\* the session is alive and lost only by the step that erases it, a dead session
\* writes, receives and reads nothing, and the application reads in order
\* (_handle_incoming_packet, recv(), send(), on_closed_cb_).  Hypotheses: those
\* of AckedIsReceived.  The RST of a first attempt that comes late ends the
\* server's session while data that it has sent is on its way, and the client
\* receives that data when the server has started anew and written nothing
\* (TLC finds this with MaxOpens = 2).
THEOREM StreamsImplemented ==
  ASSUME StreamAssumption, MaxOpens <= 1 PROVE Spec => StreamSpec
<1>1. Init => IInv /\ Basic /\ Sync /\ Streams /\ Stream!Init
  BY SyncInvariant, StreamsInit, StreamsStart
<1>2. ASSUME IInv, Basic, Sync, Streams, [Next]_vars
      PROVE  IInv' /\ Basic' /\ Sync' /\ Streams' /\ [Stream!Next]_(Stream!vars)
  <2>1. IInv' /\ Basic' /\ Sync'
    BY <1>2, SyncInvariant
  <2>2. SessionsOK /\ NetOK /\ RestOK /\ RestOK'
    <3>1. RestOK'
      BY <2>1 DEF IInv, TypeOK, RestOK
    <3> QED
      BY <1>2, <3>1, Parts
  <2>3. Streams'
    BY <1>2, <2>2, StreamsStep
  <2>4. Stream!Next \/ UNCHANGED Stream!vars
    <3>1. CASE Idle
      <4>1. StreamsStay
        BY <3>1 DEF StreamsStay, Idle, Arrived, Alive, Received
      <4> QED
        BY <4>1, PeerType, StreamSteps, ConnectionAssumption
    <3>2. ASSUME NEW e \in Addr, NEW r, Acts(e, r) PROVE Stream!Next \/ UNCHANGED Stream!vars
      BY <1>2, <2>2, <3>2, ActsStream
    <3> QED
      BY <1>2, <2>2, <3>1, <3>2, StepKinds DEF StreamAssumption
  <2> QED
    BY <2>1, <2>3, <2>4
<1> QED
  BY <1>1, <1>2, PTL DEF Spec, StreamSpec, Stream!Spec

-----------------------------------------------------------------------------
(* The oldest packet that is not acknowledged has a timer.                 *)

\* The pledge of a stack that acknowledges no number outside K, and whose SYNs go
\* to O.
Acking(O, K) == [Anything(O) EXCEPT !.acks = K]

\* It is a pledge.
LEMMA AckingType ==
  ASSUME NEW O, NEW K, NEW b, b = Acking(O, K)
  PROVE  Pledge(b) /\ b.any = TRUE
<1>1. 0 \in Word /\ 0 + 2 < SeqMod
  BY SessionAssumption DEF Word
<1> QED
  BY <1>1 DEF Acking, Anything, Pledge

\* More numbers, more acknowledgements.
LEMMA AckingMore ==
  ASSUME SessionsOK, NetOK, NEW e \in Addr, NEW O, NEW K, NEW L, K \subseteq L,
         Bound(e, Acking(O, K))
  PROVE  Bound(e, Acking(O, L))
<1> DEFINE b == Acking(O, K)
           c == Acking(O, L)
<1>0. b = Acking(O, K) /\ c = Acking(O, L)
  OBVIOUS
<1> HIDE DEF b, c
<1>1. /\ Pledge(b) /\ b.ends = Word /\ b.syn = Word /\ b.joins = Word
      /\ b.open = O /\ b.acks = K /\ b.fin = TRUE /\ b.rst = TRUE
  BY <1>0, AckingType DEF Acking, Anything
<1>2. /\ Pledge(c) /\ c.any = TRUE /\ c.ends = Word /\ c.syn = Word /\ c.joins = Word
      /\ c.open = O /\ c.acks = L /\ c.fin = TRUE /\ c.rst = TRUE
  BY <1>0, AckingType DEF Acking, Anything
<1>3. Bound(e, b)
  BY <1>0
<1>4. Grows(b, c)
  BY <1>1, <1>2 DEF Grows
<1>5. Holds(sess[e], c)
  BY <1>2, <1>3 DEF Bound, Holds
<1>6. Bound(e, c)
  BY <1>1, <1>2, <1>3, <1>4, <1>5, BoundMore
<1> QED
  BY <1>6 DEF c

\* Who acknowledges nothing acknowledges no number outside K.
LEMMA MuteMail ==
  ASSUME NEW O, NEW K, NEW d, d.acks = {}
  PROVE  /\ \A s : Mail(s, d) /\ Mail(s, Anything(O)) => Mail(s, Acking(O, K))
         /\ \A e : Bound(e, d) /\ Bound(e, Anything(O)) => Bound(e, Acking(O, K))
<1> DEFINE a == Anything(O)
           b == Acking(O, K)
<1>0. b = Acking(O, K)
  OBVIOUS
<1> HIDE DEF b
<1>1. /\ b.any = TRUE /\ b.ends = Word /\ b.syn = Word /\ b.joins = Word
      /\ b.open = O /\ b.fin = TRUE /\ b.rst = TRUE
  BY <1>0, AckingType DEF Acking, Anything
<1>2. /\ a.any = TRUE /\ a.ends = Word /\ a.syn = Word /\ a.joins = Word /\ a.open = O
  BY DEF Anything
<1> HIDE DEF a
<1>3. ASSUME NEW seq, NEW payload, DataOK(a, seq, payload) PROVE DataOK(b, seq, payload)
  BY <1>1, <1>2, <1>3 DEF DataOK
<1>4. ASSUME NEW to, NEW p, PacketOK(d, to, p), PacketOK(a, to, p) PROVE PacketOK(b, to, p)
  BY <1>1, <1>2, <1>3, <1>4 DEF PacketOK
<1>5. ASSUME NEW t, TimerOK(d, t), TimerOK(a, t) PROVE TimerOK(b, t)
  BY <1>1, <1>2, <1>3, <1>5 DEF TimerOK
<1>6. ASSUME NEW s, Mail(s, d), Mail(s, a) PROVE Mail(s, b)
  BY <1>4, <1>5, <1>6 DEF Mail
<1>7. ASSUME NEW e, Bound(e, d), Bound(e, a) PROVE Bound(e, b)
  BY <1>1, <1>4, <1>6, <1>7 DEF Bound, NetOf, Holds
<1> QED
  BY <1>6, <1>7 DEF a, b

\* Who has sent no data has ended no packet.
LEMMA SilentEnds ==
  ASSUME NetOK, NEW b, Pledge(b), ~b.any, b.g = 0, b.h = 0, NEW K
  PROVE  /\ \A s : WellFormed(s) /\ Mail(s, b) => Mail(s, Ending(K))
         /\ \A e : NetOf(net, e, b) => NetOf(net, e, Ending(K))
<1> DEFINE c == Ending(K)
<1>1. /\ c.any = TRUE /\ c.syn = Word /\ c.joins = Word /\ c.open = Addr \cup {DefaultAddr}
      /\ c.acks = Word /\ c.fin = TRUE /\ c.rst = TRUE
  BY DEF Ending
<1> HIDE DEF c
<1>2. ASSUME NEW seq \in Word, NEW payload \in Seq(Byte), payload # <<>>
      PROVE  ~DataOK(b, seq, payload)
  <2> SUFFICES ASSUME NEW i \in b.I,
                      LET k == Off(i, seq) - 1
                      IN  k >= 0 /\ (k + Len(payload) <= 0 \/ (0 < k /\ k + Len(payload) <= 0))
               PROVE  FALSE
    BY DEF DataOK
  <2>1. Off(i, seq) \in Nat
    BY OffArith DEF Pledge
  <2>2. Len(payload) \in Nat \ {0}
    BY <1>2, LenProperties, EmptySeq
  <2> QED
    BY <2>1, <2>2
<1>3. ASSUME NEW to \in Addr, NEW p \in myu_tcp_packet, PacketOK(b, to, p)
      PROVE  PacketOK(c, to, p)
  <2>1. p.seq \in Word /\ p.ack \in Word /\ p.payload \in Seq(Byte)
    BY DEF myu_tcp_packet
  <2>2. p.payload = <<>>
    BY <1>2, <1>3, <2>1 DEF PacketOK
  <2> QED
    BY <1>1, <2>1, <2>2 DEF PacketOK
<1>4. ASSUME NEW t \in RetransmitTimer, TimerOK(b, t) PROVE TimerOK(c, t)
  <2>1. t.seq \in Word /\ t.payload \in Seq(Byte) /\ t.dest \in Addr \cup {DefaultAddr}
    BY DEF RetransmitTimer
  <2>2. t.payload = <<>>
    BY <1>2, <1>4, <2>1 DEF TimerOK
  <2>3. c.acks # {}
    BY <1>1, WordArith
  <2> QED
    BY <1>1, <1>4, <2>1, <2>2, <2>3 DEF TimerOK
<1>5. ASSUME NEW s, WellFormed(s), Mail(s, b) PROVE Mail(s, c)
  <2>1. s.timers \subseteq RetransmitTimer /\ s.out \in [Addr -> Seq(myu_tcp_packet)]
    BY <1>5 DEF WellFormed, Session
  <2>2. ASSUME NEW d \in Addr, NEW x \in 1..Len(s.out[d]) PROVE s.out[d][x] \in myu_tcp_packet
    BY <2>1
  <2> QED
    BY <1>3, <1>4, <1>5, <2>1, <2>2 DEF Mail
<1>6. ASSUME NEW e, NetOf(net, e, b) PROVE NetOf(net, e, c)
  <2>1. ASSUME NEW d \in Addr, NEW x \in 1..Len(net[d]) PROVE net[d][x] \in myu_tcp_packet
    BY DEF NetOK
  <2> QED
    BY <1>3, <1>6, <2>1 DEF NetOf
<1> QED
  BY <1>5, <1>6 DEF c

\* The session s, which has accepted A bytes, counts from i.
Rooted(s, A, i) ==
  /\ s.state \in Live /\ i \in Word
  /\ s.state \in {"SYN_SENT", "SYN_RECEIVED"} => s.send_unack = i
  /\ s.state = "ESTABLISHED" => Off(i, s.send_unack) = 1 + A - Len(s.send_buffer)

\* It counts from the number in its pledge,
LEMMA RootedHolds ==
  ASSUME NEW s, NEW b, Pledge(b), ~b.any, Holds(s, b), s.state \in Live
  PROVE  Rooted(s, b.A, b.i) /\ s.alive
<1>1. s.alive
  BY DEF Holds, Flight, Live
<1>2. Numbered(s, b)
  BY DEF Holds
<1> QED
  BY <1>1, <1>2 DEF Rooted, Numbered, Pledge, Streaming

\* and from no other.
LEMMA RootedOnce ==
  ASSUME NEW s, WellFormed(s), NEW A, NEW i, NEW k, Rooted(s, A, i), Rooted(s, A, k)
  PROVE  i = k
<1>1. CASE s.state # "ESTABLISHED"
  BY <1>1 DEF Rooted, Live
<1>2. CASE s.state = "ESTABLISHED"
  <2> DEFINE u == s.send_unack
  <2>1. u \in Word /\ i \in Word /\ k \in Word /\ Minus(u, i) = Minus(u, k)
    BY <1>2, Numbers DEF Rooted, Off
  <2> HIDE DEF u
  <2>2. /\ Minus(u, i) = IF u >= i THEN u - i ELSE u - i + SeqMod
        /\ Minus(u, k) = IF u >= k THEN u - k ELSE u - k + SeqMod
    BY <2>1, MinusWord
  <2>3. /\ u \in Nat /\ u < SeqMod /\ i \in Nat /\ i < SeqMod /\ k \in Nat /\ k < SeqMod
        /\ SeqMod \in Nat
    BY <2>1, MinusWord
  <2> DEFINE a == Minus(u, i)
             b == Minus(u, k)
  <2>4. /\ a = b
        /\ u >= i => a = u - i
        /\ ~(u >= i) => a = u - i + SeqMod
        /\ u >= k => b = u - k
        /\ ~(u >= k) => b = u - k + SeqMod
    BY <2>1, <2>2
  <2> HIDE DEF a, b
  <2> QED
    BY <2>3, <2>4
<1> QED
  BY <1>1, <1>2

\* The number after the first is an edge.
LEMMA StartEdge ==
  ASSUME NEW s, WellFormed(s), NEW b, Pledge(b), ~b.any, Holds(s, b), s.state \in Live
  PROVE  Plus(b.i, 1) \in Edges(s, b.i)
<1> DEFINE i == b.i
           x == Plus(i, 1)
<1>1. /\ i \in Word /\ x \in Word /\ Off(i, x) = 1 /\ s.send_next \in Word
      /\ s.send_unack \in Word
  <2>1. i \in Word
    BY DEF Pledge
  <2>2. x \in Word
    <3>1. 1 \in Nat /\ i \in Nat /\ SeqMod \in Nat \ {0}
      BY <2>1, WordArith, SessionAssumption DEF Word
    <3> QED
      BY <3>1 DEF Plus, Word
  <2>3. Off(i, x) = 1
    BY <2>1, OffNext
  <2>4. s.send_next \in Word /\ s.send_unack \in Word
    BY Numbers
  <2> QED
    BY <2>1, <2>2, <2>3, <2>4
<1>2. s.alive /\ Flight(s) /\ Numbered(s, b)
  BY DEF Holds, Flight, Live
<1>3. CASE s.state # "ESTABLISHED"
  <2>1. s.send_next = x
    BY <1>2, <1>3 DEF Live, Flight, Numbered
  <2>2. Off(i, x) <= Off(i, s.send_next)
    BY <1>1, <2>1
  <2> QED
    BY <1>1, <2>1, <2>2 DEF Edges
<1>4. CASE s.state = "ESTABLISHED"
  <2>1. Off(i, s.send_unack) = 1 + b.A - Len(s.send_buffer) /\ Len(s.send_buffer) <= b.A
    BY <1>2, <1>4 DEF Numbered, Streaming
  <2>2. b.A \in Nat /\ Len(s.send_buffer) \in Nat
    BY NumberFacts
  <2>3. Off(i, x) <= Off(i, s.send_unack)
    BY <1>1, <2>1, <2>2
  <2> QED
    BY <1>1, <2>3 DEF Edges
<1> QED
  BY <1>3, <1>4

\* A session that has given up a packet stays one that has, unless it has ended.
LEMMA Abandons ==
  ASSUME Basic, NetOK, RestOK, [Next]_vars, NEW e \in Addr, abandoned[e]
  PROVE  abandoned'[e] \/ (e \in Listeners /\ ~Spoken(sess[e]))
<1>1. CASE UNCHANGED vars
  BY <1>1 DEF vars
<1>2. ASSUME NEW d \in Addr, Deliver(d)
      PROVE  abandoned'[e] \/ (e \in Listeners /\ ~Spoken(sess[e]))
  <2> DEFINE packet == Head(net[d])
             rest == [net EXCEPT ![d] = Tail(@)]
  <2>1. CASE ToNewSession(d, packet, rest)
    <3>1. /\ d \in Listeners /\ ~HasSessionFor(d, packet) /\ packet.flags = {"SYN"}
          /\ abandoned' = [abandoned EXCEPT ![d] = FALSE]
      BY <2>1 DEF ToNewSession
    <3>2. net[d] \in Seq(myu_tcp_packet) /\ net[d] # <<>>
      BY <1>2 DEF NetOK, Deliver
    <3>3. 1 \in 1..Len(net[d]) /\ packet = net[d][1]
      BY <3>2
    <3>4. Arrives(d, packet)
      BY <3>2, <3>3 DEF Arrives
    <3>5. packet.src = Peer(d)
      BY <3>1, <3>4, SynArrives
    <3>6. sess[d].remote = Peer(d)
      BY DEF Basic, Placed
    <3>7. ~sess[d].alive
      BY <3>1, <3>5, <3>6 DEF HasSessionFor
    <3> QED
      BY <3>1, <3>7 DEF Spoken
  <2>2. CASE ~ToNewSession(d, packet, rest)
    BY <1>2, <2>2 DEF Deliver, ToSession, ToNobody, Refuse
  <2> QED
    BY <2>1, <2>2
<1>3. ASSUME NEW d \in Addr, Timeout(d) PROVE abandoned'[e]
  <2>1. PICK z : abandoned' = [abandoned EXCEPT ![d] = z] /\ (abandoned[d] => z)
    <3>1. PICK t \in sess[d].timers :
            abandoned' = [abandoned EXCEPT ![d] = @ \/ t.count + 1 >= MAX_RETRANSMIT_COUNT]
      BY <1>3 DEF Timeout
    <3> QED
      BY <3>1
  <2> QED
    BY <2>1
<1>4. ASSUME NEW d \in Addr, Application(d) \/ Dispatch(d) \/ MslTimeout(d) \/ Udp(d)
      PROVE  abandoned' = abandoned
  BY <1>4 DEF Application, Connect, Send, Recv, Close, Dispatch, MslTimeout, Udp, Lose, Corrupt,
              Duplicate, Reorder
<1> QED
  BY <1>1, <1>2, <1>3, <1>4 DEF Next, EventLoop

\* The stack knows its peer's initial sequence number.
Synced(e, s) == IF e \in Connectors THEN s.state = "ESTABLISHED" ELSE Spoken(s)

\* The session s of e, which counts from i, has sent packets that end at edges.
Sends(e, s, i) ==
  NetOf(net, e, Ending(Edges(s, i))) /\ Mail(s, Ending(Edges(s, i))) /\ Timed(s)

\* The stack e acknowledges numbers in K only.
Heeds(e, K) ==
  Bound(e, Acking(Opener(e), K)) /\ (Synced(e, sess[e]) => sess[e].recv_next \in K)

\* So it is with the first connection of e, as long as e has not given up a packet.
Timing(e) ==
  \A i \in Word : Rooted(sess[e], accepted[e], i) /\ ~abandoned[e] =>
    Sends(e, sess[e], i) /\ Heeds(Peer(e), Edges(sess[e], i))

\* The stack that acts makes r of the session q.
LEMMA SendsOn ==
  ASSUME SessionsOK, NetOK, NEW e \in Addr, NEW r, WellFormed(r), Committed(e, r),
         NEW q, NEW i, Sends(e, q, i), Heeds(Peer(e), Edges(q, i)), Cuts(r, q, i)
  PROVE  Sends(e, sess[e], i)' /\ Heeds(Peer(e), Edges(sess[e], i))'
<1> DEFINE E == Edges(q, i)
           F == Edges(r, i)
           p == Peer(e)
           z == sess'[e]
<1>1. p \in Addr /\ p # e
  BY PeerFacts
<1>2. E \subseteq F /\ Mail(r, Ending(F)) /\ Timed(r) /\ NetOf(net, e, Ending(E))
  BY DEF Sends, Cuts
<1>3. NetOf(net, e, Ending(F))
  BY <1>2, EndingMail DEF NetOf
<1>4. z = [r EXCEPT !.out = NothingSent] /\ sess'[p] = sess[p]
  BY <1>1 DEF Committed, SessionsOK
<1>5. NetOf(net', e, Ending(F)) /\ \A b : NetOf(net, p, b) => NetOf(net', p, b)
  BY <1>1, <1>2, <1>3 DEF Committed
<1>6. Heeds(p, F)
  BY <1>1, <1>2, AckingMore DEF Heeds
<1> HIDE DEF F, z, p
<1>7. SameTiming(z, r)
  BY <1>4 DEF SameTiming, WellFormed, Session
<1>8. Edges(z, i) = F /\ Timed(z)
  BY <1>2, <1>7 DEF SameTiming, Edges, Timed, F
<1>9. Mail(z, Ending(F))
  BY <1>2, <1>4, OutKept
<1>10. Sends(e, sess[e], i)'
  BY <1>5, <1>8, <1>9 DEF Sends, z
<1>11. Heeds(p, F)'
  BY <1>4, <1>5, <1>6 DEF Heeds, Bound
<1> QED
  BY <1>8, <1>10, <1>11 DEF z, p

\* The peer of e acts, and acknowledges edges.
LEMMA HeedsOn ==
  ASSUME SessionsOK, NetOK, RestOK, ClientServer, Basic, NEW e \in Addr, NEW r,
         Acts(Peer(e), r), NEW i, Sends(e, sess[e], i), Heeds(Peer(e), Edges(sess[e], i)),
         Mail(r, Acking(Opener(Peer(e)), Edges(sess[e], i))),
         Synced(Peer(e), r) => r.recv_next \in Edges(sess[e], i)
  PROVE  Sends(e, sess[e], i)' /\ Heeds(Peer(e), Edges(sess[e], i))'
<1> DEFINE E == Edges(sess[e], i)
           p == Peer(e)
           z == sess'[p]
<1>1. p \in Addr /\ p # e
  BY PeerFacts
<1>0. PICK b : b = Acking(Opener(p), E)
  OBVIOUS
<1>2. WellFormed(r) /\ Commits(p, r) /\ Committed(p, r) /\ Holds(r, Anything(Opener(p)))
  BY <1>1, ActsBasic DEF Acts, Commits, SessionInv
<1>3. z = [r EXCEPT !.out = NothingSent] /\ sess'[e] = sess[e]
  BY <1>1, <1>2 DEF Committed, SessionsOK
<1>4. Pledge(b) /\ b.any = TRUE
  BY <1>0, AckingType
<1>5. Bound(p, b) /\ Mail(r, b)
  BY <1>0 DEF Heeds
<1> HIDE DEF z, E, p
<1>6. Holds(r, b)
  BY <1>2, <1>4 DEF Holds
<1>7. Grows(b, b)
  BY <1>4 DEF Grows
<1>8. Bound(p, b)'
  BY <1>1, <1>2, <1>4, <1>5, <1>6, <1>7, ActsBound
<1>9. z.state = r.state /\ z.alive = r.alive /\ z.recv_next = r.recv_next
  BY <1>2, <1>3, OutKept DEF SameNumbers
<1>10. Synced(p, z) => z.recv_next \in E
  BY <1>9 DEF Synced, Spoken, E, p
<1>11. Edges(sess[e], i)' = E
  BY <1>3 DEF E
<1>12. Heeds(p, E)'
  BY <1>0, <1>3, <1>8, <1>10, <1>11 DEF Heeds, z, E
<1>13. \A a : NetOf(net, e, a) => NetOf(net', e, a)
  BY <1>1, <1>2 DEF Committed
<1>14. Sends(e, sess[e], i)'
  BY <1>3, <1>13 DEF Sends
<1> QED
  BY <1>11, <1>12, <1>14 DEF E, p

\* A call or a timer, as long as no packet is given up.
LEMMA UsesCuts ==
  ASSUME SessionsOK, RestOK, Basic, NEW e \in Addr, NEW r, Uses(e, r), r.state \in Live,
         ~abandoned'[e], NEW b, Pledge(b), ~b.any, Holds(sess[e], b), b.A = accepted[e],
         NEW d, Pledge(d), ~d.any, d.i = b.i, d.m = b.m, d.A = accepted'[e], d.m = MaxBytes[e]
  PROVE  sess[e].state \in Live /\ Cuts(r, sess[e], b.i)
<1> DEFINE s == sess[e]
           q == [s EXCEPT !.is_in_ready_queue = FALSE]
           i == b.i
<1>1. s.alive /\ Steady(r, s) /\ Called(e, r)
  BY UsesSteady
<1>2. /\ r.state = s.state /\ r.send_unack = s.send_unack /\ s.state \in Live
      /\ s.state # "CLOSE_WAIT"
  BY <1>1 DEF Steady, Live
<1>3. SessionInv(s) /\ WellFormed(s) /\ i \in Word
  BY DEF SessionsOK, SessionInv, Pledge
<1>4. Off(i, s.send_next) <= Off(i, r.send_next)
  <2>1. d.any = b.any
    BY DEF Pledge
  <2>2. Accounts(r, s, d, {s.recv_next})
    BY <1>1, <1>2, <2>1, CalledCarries DEF Live, Opening
  <2>3. CASE s.state = "ESTABLISHED"
    BY <1>2, <2>2, <2>3 DEF Accounts, Advances
  <2>4. CASE s.state # "ESTABLISHED"
    <3>1. s.send_next = r.send_next
      BY <1>2, <2>2, <2>4 DEF Accounts, Holds, Flight, Live
    <3>2. s.send_next \in Word
      BY <1>3 DEF WellFormed, Session
    <3>3. Off(i, s.send_next) \in Nat
      BY <1>3, <3>2, OffArith
    <3> QED
      BY <3>1, <3>3
  <2> QED
    BY <2>3, <2>4
<1>5. SessionInv(q) /\ WellFormed(q) /\ SameTiming(q, s) /\ q.out = s.out /\ q.self = s.self
      /\ q.state = s.state
  BY <1>3, QueueAside DEF SameNumbers, SameTiming, SessionInv
<1> HIDE DEF q, i, s
<1>6. Cuts(q, s, i)
  BY <1>5, AsideCuts
<1>7. ASSUME NEW n \in ChunkSizes, r = send(s, Data(e, n))
      PROVE  Cuts(r, s, i)
  <2>1. Data(e, n) \in Seq(Byte)
    BY DataType
  <2> QED
    BY <1>2, <1>3, <1>4, <1>7, <2>1, SendCuts
<1>8. ASSUME NEW n \in Nat, r = recv(s, n) \/ r = recv(q, n)
      PROVE  Cuts(r, s, i)
  <2>1. Cuts(recv(s, n), s, i)
    BY <1>2, <1>3, RecvCuts
  <2>2. Cuts(recv(q, n), q, i)
    BY <1>2, <1>5, RecvCuts
  <2>3. Cuts(recv(q, n), s, i)
    BY <1>6, <2>2, CutsTrans
  <2> QED
    BY <1>8, <2>1, <2>3
<1>9. r # close(s)
  BY <1>2, <1>3, CloseState DEF Live
<1>10. ASSUME NEW t \in s.timers, r = handle_retransmit(s, t),
              t.count + 1 >= MAX_RETRANSMIT_COUNT => abandoned'[e]
       PROVE  Cuts(r, s, i)
  BY <1>3, <1>10, RetransmitCuts
<1>11. Cuts(r, s, i)
  BY <1>1, <1>6, <1>7, <1>8, <1>9, <1>10 DEF Called, q, s
<1> QED
  BY <1>2, <1>11 DEF s, i

\* A packet whose acknowledgement, if it counts, names an edge.
LEMMA TakesCuts ==
  ASSUME SessionsOK, Basic, ClientServer, NEW e \in Addr, NEW r, NEW packet,
         Takes(e, r, packet), r.alive, r.state \in Live, NEW b, Pledge(b), ~b.any,
         Holds(sess[e], b), sess[e].state \in Live \cup {"LISTEN"},
         sess[e].state = "ESTABLISHED" /\ "ACK" \in packet.flags
           /\ AckAcceptable(sess[e], packet.ack) => packet.ack \in Edges(sess[e], b.i)
  PROVE  Cuts(r, sess[e], b.i)
<1>1. SessionInv(sess[e]) /\ sess[e].alive /\ packet \in myu_tcp_packet
  BY DEF SessionsOK, Takes, HasSessionFor, Arrives
<1>2. PICK iss \in ISS[e] : r = input(sess[e], packet, iss)
  BY DEF Takes
<1>3. iss \in Word
  BY ConnectionAssumption
<1>4. sess[e].state = "SYN_SENT" /\ "SYN" \in packet.flags => "ACK" \in packet.flags
  <2> SUFFICES ASSUME sess[e].state = "SYN_SENT", "SYN" \in packet.flags, "ACK" \notin packet.flags
               PROVE  FALSE
    OBVIOUS
  <2>1. e \in Connectors
    BY DEF Basic, Placed
  <2>2. Peer(e) \in Connectors
    BY SynArrives DEF Takes
  <2> QED
    BY <2>1, <2>2, PeerFacts DEF ClientServer
<1> QED
  BY <1>1, <1>2, <1>3, <1>4, InputCuts DEF ClientServer

\* A stack that has sent no data has no edges yet.
LEMMA SilentSends ==
  ASSUME NetOK, NEW e \in Addr, NEW q, WellFormed(q), q.state \notin Live,
         NEW b, Pledge(b), ~b.any, b.g = 0, b.h = 0, Mail(q, b), NetOf(net, e, b), NEW i
  PROVE  Edges(q, i) = {} /\ Sends(e, q, i)
<1>1. Edges(q, i) = {}
  BY DEF Edges
<1>2. Mail(q, Ending({})) /\ NetOf(net, e, Ending({}))
  BY SilentEnds
<1>3. Timed(q)
  BY DEF Timed, Live
<1> QED
  BY <1>1, <1>2, <1>3 DEF Sends

\* A stack that does not know its peer acknowledges nothing.
LEMMA MuteHeeds ==
  ASSUME Basic, NEW p \in Addr, NEW d, d.acks = {}, Bound(p, d), ~Synced(p, sess[p]), NEW K
  PROVE  Heeds(p, K)
<1>1. Bound(p, Anything(Opener(p)))
  BY DEF Basic
<1>2. Bound(p, Acking(Opener(p), K))
  BY <1>1, MuteMail
<1> QED
  BY <1>2 DEF Heeds

\* The client's own packets, which may reach it, neither acknowledge what it has sent
\* nor hold what it expects.
LEMMA CallerOwn ==
  ASSUME SessionsOK, RestOK, StreamAssumption, Basic, NEW c \in Connectors,
         NEW i \in ISS[c], NEW j \in ISS[Peer(c)], NEW g \in Int, NEW h \in Int,
         NEW x \in Int, NEW y \in Int, Pair(c, i, j, g, h, x, y), sess[c].alive,
         NEW packet, Arrives(c, packet), packet.src = c
  PROVE  /\ "ACK" \in packet.flags => ~(Off(i, packet.ack) <= 1 + MaxBytes[c])
         /\ packet.payload # <<>> => ~(Off(j, packet.seq) <= 1 + MaxBytes[Peer(c)])
<1> DEFINE v == Peer(c)
           R == Received(c)
           M == MaxBytes[c]
           N == MaxBytes[v]
<1>1. /\ c \in Addr /\ v \in Addr /\ v # c /\ ISS[v] \in SUBSET Word /\ ISS[c] \in SUBSET Word
      /\ M \in Nat /\ N \in Nat
  BY StreamFacts
<1>2. /\ packet \in myu_tcp_packet /\ packet.ack \in Word /\ packet.seq \in Word
      /\ packet.payload \in Seq(Byte)
  BY DEF Arrives, myu_tcp_packet
<1>3. /\ \E b : DialSays(b, c, i, j, g, h)
      /\ \E d : ReplySays(d, v, i, j, x, y)
      /\ Linked(sess[c], sess[v], R, Received(v), i, j, g, x, y)
  BY PairSays
<1>4. PICK b : DialSays(b, c, i, j, g, h)
  BY <1>3
<1>5. /\ Pledge(b) /\ ~b.any /\ b.I = {i} /\ b.g = g /\ b.h = h
      /\ b.acks = (IF sess[c].state = "ESTABLISHED" THEN Upto(j, Len(R)) ELSE {})
      /\ g \in 0..M /\ h \in 0..(M + 1) /\ i \in Word /\ Bound(c, b)
  BY <1>4 DEF DialSays
<1>6. PICK d : ReplySays(d, v, i, j, x, y)
  BY <1>3
<1>7. x \in 0..N /\ j \in Word
  BY <1>6 DEF ReplySays
<1>8. PacketOK(b, c, packet)
  BY <1>1, <1>5, ArrivesOK
<1>9. Len(R) \in Nat
  BY <1>1, ReceivedType
<1> HIDE DEF v, R, M, N
<1>10. ASSUME NEW w \in Word, Off(i, w) <= 1 + M, Off(j, w) <= 1 + N PROVE FALSE
  <2>1. Minus(w, i) > M + 1 \/ Minus(w, j) > N + 1
    <3>1. <<c, i>> # <<v, j>> /\ i \in ISS[c] /\ j \in ISS[v]
      BY <1>1 DEF v
    <3> QED
      BY <1>1, <3>1 DEF StreamAssumption, Apart, M, N
  <2> DEFINE k == Off(i, w)
             l == Off(j, w)
  <2>2. k \in Nat /\ l \in Nat /\ (k > M + 1 \/ l > N + 1)
    <3>1. k \in Nat /\ l \in Nat
      BY <1>5, <1>7, OffArith
    <3>2. k = Minus(w, i) /\ l = Minus(w, j)
      BY DEF Off
    <3> QED
      BY <2>1, <3>1, <3>2
  <2>3. k <= 1 + M /\ l <= 1 + N
    BY <1>10
  <2> HIDE DEF k, l
  <2> QED
    BY <1>1, <2>2, <2>3
<1>11. ASSUME "ACK" \in packet.flags, Off(i, packet.ack) <= 1 + M PROVE FALSE
  <2>1. packet.ack \in Upto(j, Len(R)) /\ sess[c].state = "ESTABLISHED"
    BY <1>5, <1>8, <1>11 DEF PacketOK
  <2>2. Len(R) <= x
    BY <1>3, <2>1 DEF Linked, Reads
  <2> DEFINE l == Off(j, packet.ack)
             n == Len(R)
  <2>3. l \in Nat /\ l <= 1 + n /\ n <= x /\ n \in Nat
    BY <1>2, <1>7, <1>9, <2>1, <2>2, OffArith DEF Upto
  <2> HIDE DEF l, n
  <2>4. l <= 1 + N
    BY <1>1, <1>7, <2>3
  <2> QED
    BY <1>2, <1>10, <1>11, <2>4 DEF l
<1>12. ASSUME packet.payload # <<>>, Off(j, packet.seq) <= 1 + N PROVE FALSE
  <2>1. DataOK(b, packet.seq, packet.payload)
    BY <1>8, <1>12 DEF PacketOK
  <2> DEFINE k == Off(i, packet.seq) - 1
             n == Len(packet.payload)
  <2>2. k + n <= g \/ k + n <= h
    BY <1>5, <2>1 DEF DataOK
  <2>3. Off(i, packet.seq) \in Nat /\ n \in Nat \ {0}
    BY <1>2, <1>5, <1>12, OffArith, LenProperties, EmptySeq
  <2> DEFINE f == Off(i, packet.seq)
  <2>4. f \in Nat /\ (f - 1 + n <= g \/ f - 1 + n <= h)
    BY <2>2, <2>3
  <2> HIDE DEF f, n
  <2>5. f <= 1 + M
    BY <1>1, <1>5, <2>3, <2>4
  <2> QED
    BY <1>2, <1>10, <1>12, <2>5 DEF f
<1> QED
  BY <1>11, <1>12 DEF M, N, v

\* The number that a session counts from is still that of its pledge.
LEMMA RootedOn ==
  ASSUME SessionsOK, NEW e \in Addr, NEW r, WellFormed(r), Committed(e, r),
         NEW d, Pledge(d), ~d.any, Holds(r, d), NEW k, Rooted(sess'[e], d.A, k)
  PROVE  r.alive /\ r.state \in Live /\ k = d.i
<1> DEFINE z == sess'[e]
<1>1. z = [r EXCEPT !.out = NothingSent]
  BY DEF Committed, SessionsOK
<1> HIDE DEF z
<1>2. SameNumbers(z, r)
  BY <1>1, OutKept
<1>3. Rooted(r, d.A, k)
  BY <1>2 DEF Rooted, SameNumbers, z
<1>4. r.state \in Live
  BY <1>3 DEF Rooted
<1>5. Rooted(r, d.A, d.i) /\ r.alive
  BY <1>4, RootedHolds
<1> QED
  BY <1>3, <1>4, <1>5, RootedOnce

\* What the client sends ends at edges, whatever the client does.
LEMMA CallerSends ==
  ASSUME SessionsOK, NetOK, RestOK, RestOK', StreamAssumption, MaxOpens <= 1, Basic,
         NEW c \in Connectors, NEW r, Acts(c, r), Fresh(r, opens'[c]), Connected(c),
         Timing(c), ~abandoned'[c] => ~abandoned[c]
  PROVE  Timing(c)'
<1> DEFINE v == Peer(c)
           s == sess[c]
<1>1. /\ c \in Addr /\ v \in Addr /\ ClientServer /\ Peer(v) = c /\ v \notin Connectors
      /\ ISS[c] \in SUBSET Word /\ (\A a \in Addr : a = c \/ a = v)
      /\ MaxBytes[c] \in Nat /\ MaxBytes[c] + 2 < SeqMod /\ accepted'[c] \in Nat
  BY StreamFacts DEF RestOK
<1>2. Committed(c, r) /\ WellFormed(r) /\ WellFormed(s) /\ SessionInv(s)
  BY <1>1, ActsBasic DEF Acts, Commits, SessionInv, SessionsOK
<1>3. Fresh(s, opens[c]) /\ ~Ends(c, r) /\ \A packet : ~Begins(c, r, packet)
  BY CallerWasFresh
<1>4. PICK i \in ISS[c], j \in ISS[v], g \in Int, h \in Int, x \in Int, y \in Int :
              Pair(c, i, j, g, h, x, y) /\ CallerGoes(c, r, i, j, g, h, x, y)
  BY CallerActs
<1>5. PICK b : DialSays(b, c, i, j, g, h)
  BY <1>4, PairSays
<1>6. PICK a : ReplySays(a, v, i, j, x, y)
  BY <1>4, PairSays
<1>7. Linked(s, sess[v], Received(c), Received(v), i, j, g, x, y) /\ i \in Word
  BY <1>1, <1>4 DEF Pair
<1>8. \E d : /\ Pledge(d) /\ ~d.any /\ d.i = i /\ d.A = accepted'[c] /\ d.m = MaxBytes[c]
             /\ Holds(r, d)
  <2>1. PICK n : n = Len(delivered'[c] \o r.recv_buffer)
    OBVIOUS
  <2>2. PICK k \in Int, l \in Int :
          Holds(r, Full(i, accepted'[c], MaxBytes[c], k, l, Asks(r, v, i, j, n)))
    BY <1>4, <2>1 DEF CallerGoes
  <2>3. PICK d : d = Full(i, accepted'[c], MaxBytes[c], k, l, Asks(r, v, i, j, n))
    OBVIOUS
  <2>4. /\ Pledge(d) /\ ~d.any /\ d.i = i /\ d.A = accepted'[c] /\ d.m = MaxBytes[c]
    BY <1>1, <1>7, <2>3 DEF Full, Pledge
  <2> QED
    BY <2>2, <2>3, <2>4
<1>9. PICK d : /\ Pledge(d) /\ ~d.any /\ d.i = i /\ d.A = accepted'[c] /\ d.m = MaxBytes[c]
               /\ Holds(r, d)
  BY <1>8
<1>10. /\ Pledge(b) /\ ~b.any /\ b.i = i /\ b.A = accepted[c] /\ b.m = MaxBytes[c]
       /\ b.g = g /\ b.h = h /\ g \in 0..MaxBytes[c]
       /\ Holds(s, b) /\ Mail(s, b) /\ NetOf(net, c, b) /\ Marks(s, b)
  BY <1>5 DEF DialSays, Bound
<1> SUFFICES ASSUME NEW k \in Word, Rooted(sess'[c], accepted'[c], k), ~abandoned'[c]
             PROVE  Sends(c, sess[c], k)' /\ Heeds(Peer(c), Edges(sess[c], k))'
  BY DEF Timing
<1>11. r.alive /\ r.state \in Live /\ k = i
  BY <1>1, <1>2, <1>9, RootedOn
<1>12. s.state \in Live => Sends(c, s, i) /\ Heeds(v, Edges(s, i))
  <2> SUFFICES ASSUME s.state \in Live PROVE Sends(c, s, i) /\ Heeds(v, Edges(s, i))
    OBVIOUS
  <2>1. Rooted(s, accepted[c], i)
    BY <1>10, RootedHolds
  <2> QED
    BY <1>7, <2>1 DEF Timing
<1>13. Sends(c, s, i) /\ Heeds(v, Edges(s, i)) /\ Cuts(r, s, i)
  <2>1. CASE Opens(c, r)
    <3>1. s.alive /\ s.state = "CLOSED"
      BY <2>1 DEF Opens
    <3>2. b.g = 0 /\ b.h = 0 /\ s.state \notin Live
      BY <1>10, <3>1 DEF Marks, Opening, Live
    <3>3. Edges(s, i) = {} /\ Sends(c, s, i)
      BY <1>1, <1>2, <1>10, <3>2, SilentSends
    <3>4. ~Spoken(sess[v])
      BY <1>7, <3>1 DEF Linked
    <3>5. a.acks = {} /\ Bound(v, a)
      BY <1>6, <3>4 DEF ReplySays
    <3>6. ~Synced(v, sess[v])
      BY <1>1, <3>4 DEF Synced
    <3>7. Heeds(v, {})
      BY <1>1, <3>5, <3>6, MuteHeeds
    <3>8. PICK iss \in ISS[c] : r = connect(s, iss)
      BY <2>1 DEF Opens
    <3>9. Cuts(r, s, i)
      BY <1>1, <1>2, <3>1, <3>8, ConnectCuts
    <3> QED
      BY <3>3, <3>7, <3>9
  <2>2. CASE Uses(c, r)
    <3>1. s.state \in Live /\ Cuts(r, s, i)
      BY <1>1, <1>9, <1>10, <1>11, <2>2, UsesCuts
    <3> QED
      BY <1>12, <3>1
  <2>3. ASSUME NEW packet, Takes(c, r, packet)
        PROVE  Sends(c, s, i) /\ Heeds(v, Edges(s, i)) /\ Cuts(r, s, i)
    <3>1. /\ s.alive /\ Arrives(c, packet) /\ packet \in myu_tcp_packet /\ packet.src \in Addr
      BY <1>1, <2>3, TakesFollows
    <3>2. opens[c] > 0
      BY <2>3 DEF Takes
    <3>3. s.state \in {"SYN_SENT", "ESTABLISHED"}
      BY <1>1, <1>3, <3>2 DEF Fresh
    <3>4. Sends(c, s, i) /\ Heeds(v, Edges(s, i))
      BY <1>12, <3>3 DEF Live
    <3>5. ASSUME s.state = "ESTABLISHED", "ACK" \in packet.flags, AckAcceptable(s, packet.ack)
          PROVE  packet.ack \in Edges(s, i)
      <4>1. CASE packet.src = v
        <5>1. PICK e : e = Acking(Opener(v), Edges(s, i))
          OBVIOUS
        <5>2. Bound(packet.src, e)
          BY <3>4, <4>1, <5>1 DEF Heeds
        <5>3. PacketOK(e, c, packet)
          BY <1>1, <3>1, <5>2, ArrivesOK
        <5>4. e.acks = Edges(s, i)
          BY <5>1 DEF Acking, Anything
        <5> QED
          BY <3>5, <5>3, <5>4 DEF PacketOK
      <4>2. CASE packet.src = c
        <5> DEFINE u == s.send_unack
                   w == packet.ack
                   n == s.send_next
        <5>1. u \in Word /\ w \in Word /\ n \in Word /\ u < w /\ w <= n
          BY <1>2, <3>1, <3>5 DEF WellFormed, Session, AckAcceptable, myu_tcp_packet
        <5>2. Off(i, u) <= Off(i, n)
          BY <1>2, <1>10, <3>5, UnackBound
        <5> HIDE DEF u, w, n
        <5>3. Off(i, w) <= Off(i, n)
          BY <1>7, <5>1, <5>2, OffBetween
        <5>4. Off(i, n) = g + 1
          <6>1. Streaming(s)
            BY <3>5 DEF Streaming
          <6>2. g = Off(i, n) - 1
            BY <1>10, <6>1 DEF Marks, Top, n
          <6>3. Off(i, n) \in Nat
            BY <1>7, <5>1, OffArith
          <6> QED
            BY <6>2, <6>3
        <5>5. Off(i, w) \in Nat
          BY <1>7, <5>1, OffArith
        <5> DEFINE f == Off(i, w)
                   m == MaxBytes[c]
        <5>6. f \in Nat /\ f <= g + 1 /\ m \in Nat /\ g \in 0..m
          BY <1>1, <1>10, <5>3, <5>4, <5>5
        <5> HIDE DEF f, m
        <5>7. f <= 1 + m
          BY <5>6
        <5>8. ~(Off(i, w) <= 1 + MaxBytes[c])
          BY <1>4, <3>1, <3>5, <4>2, CallerOwn DEF w
        <5> QED
          BY <5>7, <5>8 DEF f, m
      <4> QED
        BY <1>1, <3>1, <4>1, <4>2
    <3>6. Cuts(r, s, i)
      BY <1>1, <1>10, <1>11, <2>3, <3>3, <3>5, TakesCuts DEF Live
    <3> QED
      BY <3>4, <3>6
  <2> QED
    BY <1>3, <2>1, <2>2, <2>3 DEF Acts
<1> QED
  BY <1>1, <1>2, <1>11, <1>13, SendsOn

\* A session that may come to send data already does, or listens.
LEMMA LiveWas ==
  ASSUME NEW r, NEW s, NEW packet, Follows(r, s, packet), r.alive, r.state \in Live
  PROVE  s.alive /\ s.state \in Live \cup {"LISTEN"}
BY DEF Follows, Gone, Kept, Opened, Joined, Accepted, Live, Opening

\* What the server sends ends at edges, whatever the server does.
LEMMA CalleeSends ==
  ASSUME SessionsOK, NetOK, RestOK, RestOK', StreamAssumption, MaxOpens <= 1, Basic,
         NEW c \in Connectors, NEW r, Acts(Peer(c), r), Fresh(sess[c], opens[c]), Connected(c),
         Waits(sess[Peer(c)]), Timing(Peer(c)),
         ~abandoned'[Peer(c)] /\ Spoken(sess[Peer(c)]) => ~abandoned[Peer(c)]
  PROVE  Timing(Peer(c))'
<1> DEFINE v == Peer(c)
           q == sess[v]
<1>1. /\ c \in Addr /\ v \in Addr /\ ClientServer /\ Peer(v) = c /\ v \notin Connectors
      /\ ISS[v] \in SUBSET Word /\ MaxBytes[v] \in Nat /\ MaxBytes[v] + 2 < SeqMod
      /\ accepted'[v] \in Nat
  BY StreamFacts DEF RestOK
<1>2. Committed(v, r) /\ WellFormed(r) /\ WellFormed(q) /\ SessionInv(q)
  BY <1>1, ActsBasic DEF Acts, Commits, SessionInv, SessionsOK
<1>3. PICK i \in ISS[c], j \in ISS[v], g \in Int, h \in Int, x \in Int, y \in Int :
              Pair(c, i, j, g, h, x, y) /\ CalleeGoes(c, r, i, j, g, h, x, y)
  BY CalleeActs
<1>4. PICK a : DialSays(a, c, i, j, g, h)
  BY <1>3, PairSays
<1>5. PICK b : ReplySays(b, v, i, j, x, y)
  BY <1>3, PairSays
<1>6. Linked(sess[c], q, Received(c), Received(v), i, j, g, x, y) /\ j \in Word
  BY <1>1, <1>3 DEF Pair
<1>7. \E d : /\ Pledge(d) /\ ~d.any /\ d.i = j /\ d.A = accepted'[v] /\ d.m = MaxBytes[v]
             /\ Holds(r, d)
  <2>1. PICK n : n = Len(delivered'[v] \o r.recv_buffer)
    OBVIOUS
  <2>2. PICK k \in Int, l \in Int :
          Holds(r, Full(j, accepted'[v], MaxBytes[v], k, l, Answers(r, i, j, n)))
    BY <1>3, <2>1 DEF CalleeGoes
  <2>3. PICK d : d = Full(j, accepted'[v], MaxBytes[v], k, l, Answers(r, i, j, n))
    OBVIOUS
  <2>4. /\ Pledge(d) /\ ~d.any /\ d.i = j /\ d.A = accepted'[v] /\ d.m = MaxBytes[v]
    BY <1>1, <1>6, <2>3 DEF Full, Pledge
  <2> QED
    BY <2>2, <2>3, <2>4
<1>8. PICK d : /\ Pledge(d) /\ ~d.any /\ d.i = j /\ d.A = accepted'[v] /\ d.m = MaxBytes[v]
               /\ Holds(r, d)
  BY <1>7
<1>9. /\ Pledge(b) /\ ~b.any /\ b.i = j /\ b.A = accepted[v] /\ b.m = MaxBytes[v]
      /\ b.g = x /\ b.h = y
      /\ Holds(q, b) /\ Mail(q, b) /\ NetOf(net, v, b)
  BY <1>5 DEF ReplySays, Bound
<1> SUFFICES ASSUME NEW k \in Word, Rooted(sess'[v], accepted'[v], k), ~abandoned'[v]
             PROVE  Sends(v, sess[v], k)' /\ Heeds(Peer(v), Edges(sess[v], k))'
  BY DEF Timing
<1>10. r.alive /\ r.state \in Live /\ k = j
  BY <1>1, <1>2, <1>8, RootedOn
<1>11. q.state \in Live => Sends(v, q, j) /\ Heeds(c, Edges(q, j))
  <2> SUFFICES ASSUME q.state \in Live PROVE Sends(v, q, j) /\ Heeds(c, Edges(q, j))
    OBVIOUS
  <2>1. Rooted(q, accepted[v], j) /\ q.alive
    BY <1>9, RootedHolds
  <2>2. Spoken(q)
    BY <2>1 DEF Spoken, Live
  <2> QED
    BY <1>1, <1>6, <2>1, <2>2 DEF Timing
<1>12. ASSUME ~Spoken(q), NEW l, WellFormed(l), l.state \notin Live, Mail(l, b)
       PROVE  Sends(v, l, j) /\ Heeds(c, Edges(l, j))
  <2>1. b.g = 0 /\ b.h = 0
    BY <1>6, <1>9, <1>12 DEF Linked
  <2>2. Edges(l, j) = {} /\ Sends(v, l, j)
    BY <1>1, <1>9, <1>12, <2>1, SilentSends
  <2>3. sess[c].state # "ESTABLISHED"
    BY <1>6, <1>12 DEF Linked
  <2>4. a.acks = {} /\ Bound(c, a)
    BY <1>4, <2>3 DEF DialSays
  <2>5. ~Synced(c, sess[c])
    BY <2>3 DEF Synced
  <2>6. Heeds(c, {})
    BY <1>1, <2>4, <2>5, MuteHeeds
  <2> QED
    BY <2>2, <2>6
<1>13. \E l : Sends(v, l, j) /\ Heeds(c, Edges(l, j)) /\ Cuts(r, l, j)
  <2>1. CASE Uses(v, r)
    <3>1. q.state \in Live /\ Cuts(r, q, j)
      BY <1>1, <1>8, <1>9, <1>10, <2>1, UsesCuts
    <3> QED
      BY <1>11, <3>1
  <2>2. ASSUME NEW packet, Takes(v, r, packet)
        PROVE  Sends(v, q, j) /\ Heeds(c, Edges(q, j)) /\ Cuts(r, q, j)
    <3>1. Arrives(v, packet) /\ packet \in myu_tcp_packet /\ packet.src = c
      BY <2>2, ServerTakes
    <3>2. q.alive /\ q.state \in Live \cup {"LISTEN"}
      BY <1>1, <1>10, <2>2, TakesFollows, LiveWas
    <3>3. Sends(v, q, j) /\ Heeds(c, Edges(q, j))
      <4>1. CASE q.state \in Live
        BY <1>11, <4>1
      <4>2. CASE q.state = "LISTEN"
        <5>1. ~Spoken(q) /\ q.state \notin Live
          BY <4>2 DEF Spoken, Live
        <5> QED
          BY <1>2, <1>9, <1>12, <5>1
      <4> QED
        BY <3>2, <4>1, <4>2
    <3>4. ASSUME "ACK" \in packet.flags
          PROVE  packet.ack \in Edges(q, j)
      <4>1. PICK e : e = Acking(Opener(c), Edges(q, j))
        OBVIOUS
      <4>2. Bound(packet.src, e)
        BY <3>1, <3>3, <4>1 DEF Heeds
      <4>3. PacketOK(e, v, packet)
        BY <1>1, <3>1, <4>2, ArrivesOK
      <4>4. e.acks = Edges(q, j)
        BY <4>1 DEF Acking, Anything
      <4> QED
        BY <3>4, <4>3, <4>4 DEF PacketOK
    <3>5. Cuts(r, q, j)
      BY <1>1, <1>9, <1>10, <2>2, <3>2, <3>4, TakesCuts
    <3> QED
      BY <3>3, <3>5
  <2>3. ASSUME NEW packet, Begins(v, r, packet)
        PROVE  \E l : Sends(v, l, j) /\ Heeds(c, Edges(l, j)) /\ Cuts(r, l, j)
    <3>1. Arrives(v, packet) /\ packet \in myu_tcp_packet /\ packet.src = c
      BY <2>3, ServerTakes
    <3>2. PICK iss \in ISS[v], initial \in InitialSendSeq :
            r = input(listen(NewSession(v, packet.src, initial)), packet, iss)
      BY <2>3 DEF Begins
    <3> DEFINE l == listen(NewSession(v, packet.src, initial))
    <3>3. d.A = 0
      BY <1>1, <1>8, <2>3 DEF Begins, RestOK
    <3>4. /\ Mail(l, b) /\ Holds(l, d) /\ l.alive /\ l.state = "LISTEN"
      <4>1. l.timers = {} /\ l.out = NothingSent /\ l.alive /\ l.state = "LISTEN"
        BY DEF listen, NewSession
      <4>2. Unused(l, packet.src, d)
        BY <1>1, <1>8, <3>1, <3>3, FreshCarries
      <4> HIDE DEF l
      <4>3. Mail(l, b)
        BY <4>1 DEF Mail, NothingSent
      <4> QED
        BY <4>1, <4>2, <4>3 DEF Unused
    <3>5. SessionInv(l) /\ WellFormed(l)
      <4>1. initial \in Word
        BY ConnectionAssumption
      <4>2. SessionInv(NewSession(v, packet.src, initial))
        BY <1>1, <3>1, <4>1, NewSessionInv
      <4>3. NewSession(v, packet.src, initial).alive /\ NewSession(v, packet.src, initial).state = "CLOSED"
        BY DEF NewSession
      <4> QED
        BY <4>2, <4>3, ListenCallInv DEF SessionInv
    <3>6. r = input(l, packet, iss)
      BY <3>2
    <3> HIDE DEF l
    <3>7. iss \in Word
      BY <1>1
    <3>8. Cuts(r, l, j)
      BY <1>1, <1>8, <1>10, <3>1, <3>4, <3>5, <3>6, <3>7, InputCuts DEF ClientServer
    <3>9. ~Spoken(q)
      <4>1. q.remote = c
        BY <1>1 DEF Basic, Placed
      <4> QED
        BY <2>3, <3>1, <4>1 DEF Begins, HasSessionFor, Spoken
    <3>10. l.state \notin Live
      BY <3>4 DEF Live
    <3> QED
      BY <1>12, <3>4, <3>5, <3>8, <3>9, <3>10
  <2>4. ~Ends(v, r)
    BY <1>1, <1>10, EndsCarries
  <2>5. ~Opens(v, r)
    BY <1>1 DEF Opens
  <2> QED
    BY <2>1, <2>2, <2>3, <2>4, <2>5 DEF Acts
<1>14. PICK l : Sends(v, l, j) /\ Heeds(c, Edges(l, j)) /\ Cuts(r, l, j)
  BY <1>13
<1> QED
  BY <1>1, <1>2, <1>10, <1>14, SendsOn

\* Data that arrives ends at an edge of who has sent it.
LEMMA DataEnds ==
  ASSUME NEW e \in Addr, NEW s, NEW i, Sends(e, s, i), NEW p \in Addr, NEW packet,
         Arrives(p, packet), packet.src = e, packet.payload # <<>>
  PROVE  Plus(packet.seq, Len(packet.payload)) \in Edges(s, i)
<1>1. PICK b : b = Ending(Edges(s, i))
  OBVIOUS
<1>2. PacketOK(b, p, packet)
  BY <1>1 DEF Sends, NetOf, Arrives
<1>3. b.ends = Edges(s, i)
  BY <1>1 DEF Ending
<1> QED
  BY <1>2, <1>3 DEF PacketOK, DataOK

\* A call acknowledges what it has been acknowledging.
LEMMA UsesHeeds ==
  ASSUME SessionsOK, RestOK, Basic, NEW p \in Addr, NEW r, Uses(p, r), NEW K,
         Heeds(p, K), Synced(p, r)
  PROVE  Mail(r, Acking(Opener(p), K)) /\ r.recv_next \in K
<1> DEFINE s == sess[p]
<1>1. s.alive /\ Steady(r, s) /\ Called(p, r)
  BY UsesSteady
<1>2. Synced(p, s)
  BY <1>1 DEF Steady, Synced, Spoken
<1>3. s.recv_next \in K /\ r.recv_next = s.recv_next
  BY <1>1, <1>2 DEF Heeds, Steady
<1>4. PICK b : b = Acking(Opener(p), K)
  OBVIOUS
<1>5. Pledge(b) /\ b.any = TRUE
  BY <1>4, AckingType
<1>6. b.acks = K /\ b.fin = TRUE /\ b.rst = TRUE
  BY <1>4 DEF Acking, Anything
<1>7. Holds(s, b) /\ Mail(s, b)
  BY <1>4 DEF Heeds, Bound
<1>8. Accounts(r, s, b, {s.recv_next})
  BY <1>1, <1>5, <1>6, <1>7, CalledCarries
<1>9. Mail(r, b)
  BY <1>3, <1>5, <1>6, <1>7, <1>8 DEF Accounts, Fits
<1> QED
  BY <1>3, <1>4, <1>9

\* The client acknowledges edges, whatever it does.
LEMMA CallerHeeds ==
  ASSUME SessionsOK, NetOK, RestOK, RestOK', StreamAssumption, MaxOpens <= 1, Basic,
         NEW c \in Connectors, NEW r, Acts(c, r), Fresh(r, opens'[c]), Connected(c),
         Timing(Peer(c)),
         ~abandoned'[Peer(c)] /\ Spoken(sess[Peer(c)]) => ~abandoned[Peer(c)]
  PROVE  Timing(Peer(c))'
<1> DEFINE v == Peer(c)
           s == sess[c]
           q == sess[v]
<1>1. /\ c \in Addr /\ v \in Addr /\ ClientServer /\ Peer(v) = c /\ v # c /\ v \notin Connectors
      /\ ISS[v] \in SUBSET Word /\ MaxBytes[v] \in Nat /\ (\A a \in Addr : a = c \/ a = v)
  BY StreamFacts
<1>2. /\ Committed(c, r) /\ Mail(r, Anything(Opener(c))) /\ WellFormed(r) /\ WellFormed(q)
      /\ Placed(c, s) /\ WellFormed(s)
  BY <1>1, ActsBasic DEF Acts, Commits, SessionInv, SessionsOK, Basic
<1>3. sess'[v] = q /\ accepted'[v] = accepted[v]
  BY <1>1, <1>2, ActsRest DEF Committed, SessionsOK
<1>4. Fresh(s, opens[c]) /\ ~Ends(c, r) /\ \A packet : ~Begins(c, r, packet)
  BY CallerWasFresh
<1>5. PICK i \in ISS[c], j \in ISS[v], g \in Int, h \in Int, x \in Int, y \in Int :
              Pair(c, i, j, g, h, x, y) /\ CallerGoes(c, r, i, j, g, h, x, y)
  BY CallerActs
<1>6. PICK b : ReplySays(b, v, i, j, x, y)
  BY <1>5, PairSays
<1>7. Linked(s, q, Received(c), Received(v), i, j, g, x, y) /\ j \in Word
  BY <1>1, <1>5 DEF Pair
<1>8. /\ Pledge(b) /\ ~b.any /\ b.i = j /\ b.A = accepted[v] /\ Holds(q, b)
      /\ x \in 0..MaxBytes[v]
  BY <1>6 DEF ReplySays, Bound
<1> SUFFICES ASSUME NEW k \in Word, Rooted(sess'[v], accepted'[v], k), ~abandoned'[v]
             PROVE  Sends(v, sess[v], k)' /\ Heeds(Peer(v), Edges(sess[v], k))'
  BY DEF Timing
<1>9. q.state \in Live /\ Rooted(q, accepted[v], k)
  BY <1>3 DEF Rooted
<1>10. q.alive /\ k = j
  BY <1>2, <1>8, <1>9, RootedHolds, RootedOnce
<1>11. Spoken(q)
  BY <1>9, <1>10 DEF Spoken, Live
<1> DEFINE E == Edges(q, j)
<1>12. Sends(v, q, j) /\ Heeds(c, E)
  BY <1>1, <1>9, <1>10, <1>11 DEF Timing
<1> HIDE DEF E
<1>13. ASSUME r.state # "ESTABLISHED"
       PROVE  Mail(r, Acking(Opener(c), E)) /\ (Synced(c, r) => r.recv_next \in E)
  <2>1. \E d : d.acks = {} /\ Mail(r, d)
    <3>1. PICK n : n = Len(delivered'[c] \o r.recv_buffer)
      OBVIOUS
    <3>2. PICK l \in Int, m \in Int :
            Mail(r, Full(i, accepted'[c], MaxBytes[c], l, m, Asks(r, v, i, j, n)))
      BY <1>5, <3>1 DEF CallerGoes
    <3>3. Full(i, accepted'[c], MaxBytes[c], l, m, Asks(r, v, i, j, n)).acks = {}
      BY <1>13 DEF Full, Asks
    <3> QED
      BY <3>2, <3>3
  <2>2. Mail(r, Acking(Opener(c), E))
    BY <1>2, <2>1, MuteMail
  <2>3. ~Synced(c, r)
    BY <1>13 DEF Synced
  <2> QED
    BY <2>2, <2>3
<1>14. ASSUME r.state = "ESTABLISHED"
       PROVE  Mail(r, Acking(Opener(c), E)) /\ r.recv_next \in E
  <2>0. Synced(c, r)
    BY <1>14 DEF Synced
  <2>1. ~Opens(c, r)
    BY <1>7, <1>11 DEF Opens, Linked
  <2>2. CASE Uses(c, r)
    BY <1>1, <1>12, <2>0, <2>2, UsesHeeds
  <2>3. ASSUME NEW packet, Takes(c, r, packet)
        PROVE  Mail(r, Acking(Opener(c), E)) /\ r.recv_next \in E
    <3>1. /\ s.alive /\ Arrives(c, packet) /\ packet \in myu_tcp_packet /\ packet.src \in Addr
          /\ Follows(r, s, packet)
      BY <1>1, <2>3, TakesFollows
    <3>2. s.state = "ESTABLISHED" => s.recv_next \in E
      BY <1>12 DEF Heeds, Synced
    <3>3. ASSUME Kept(r, s, packet) PROVE r.recv_next \in E
      <4>1. s.state = "ESTABLISHED" /\ r.recv_next = s.recv_next
        BY <1>2, <1>14, <3>3 DEF Kept, Placed, Late
      <4> QED
        BY <3>2, <4>1
    <3>4. ASSUME Joined(r, s, packet) PROVE r.recv_next \in E
      <4>1. packet.seq = j /\ r.recv_next = Plus(packet.seq, 1)
        <5>0. Pair(c, i, j, g, h, x, y) /\ Fresh(sess[c], opens[c])
          BY <1>4, <1>5
        <5>1. "SYN" \in packet.flags => packet.seq = j /\ Spoken(sess[Peer(c)])
          BY <2>3, <5>0, CallerHears
        <5>2. "SYN" \in packet.flags /\ r.recv_next = Plus(packet.seq, 1)
          BY <3>4 DEF Joined
        <5> QED
          BY <5>1, <5>2
      <4>2. Plus(j, 1) \in E
        BY <1>2, <1>8, <1>9, StartEdge DEF E
      <4> QED
        BY <4>1, <4>2
    <3>5. ASSUME Accepted(r, s, packet) PROVE r.recv_next \in E
      <4>1. /\ s.state = "ESTABLISHED" /\ packet.payload # <<>> /\ packet.seq = s.recv_next
            /\ r.recv_next = Plus(packet.seq, Len(packet.payload))
        BY <1>14, <3>5 DEF Accepted
      <4>2. packet.src # c
        <5>1. Len(Received(c)) <= x /\ Off(j, s.recv_next) = 1 + Len(Received(c))
          BY <1>7, <3>1, <4>1 DEF Linked, Reads
        <5>2. Len(Received(c)) \in Nat
          BY <1>1, ReceivedType
        <5> DEFINE f == Off(j, s.recv_next)
                   n == Len(Received(c))
                   m == MaxBytes[v]
        <5>3. n \in Nat /\ m \in Nat /\ x \in 0..m /\ n <= x /\ f = 1 + n
          BY <1>1, <1>8, <5>1, <5>2
        <5> HIDE DEF f, n, m
        <5>4. f <= 1 + m
          BY <5>3
        <5> QED
          BY <1>5, <3>1, <4>1, <5>4, CallerOwn DEF f, m
      <4>3. packet.src = v
        BY <1>1, <3>1, <4>2
      <4> QED
        <5>1. Plus(packet.seq, Len(packet.payload)) \in Edges(q, j)
          BY <1>1, <1>12, <3>1, <4>1, <4>3, DataEnds
        <5> QED
          BY <4>1, <5>1 DEF E
    <3>6. r.recv_next \in E /\ (s.state = "SYN_SENT" \/ s.recv_next \in E)
      <4>1. Kept(r, s, packet) \/ Joined(r, s, packet) \/ Accepted(r, s, packet)
        BY <1>14, <3>1 DEF Follows, Gone, Opened
      <4>2. s.state \in {"SYN_SENT", "ESTABLISHED"}
        BY <1>2, <1>14, <4>1 DEF Kept, Joined, Accepted, Placed
      <4> QED
        BY <3>2, <3>3, <3>4, <3>5, <4>1, <4>2
    <3>7. PICK e : e = Acking(Opener(c), E)
      OBVIOUS
    <3>8. Pledge(e) /\ e.any = TRUE
      BY <3>7, AckingType
    <3>9. e.acks = E /\ e.fin = TRUE /\ e.joins = Word
      BY <3>7 DEF Acking, Anything
    <3>10. Holds(s, e) /\ Mail(s, e)
      BY <1>12, <3>7 DEF Heeds, Bound
    <3>11. PICK iss \in ISS[c] : r = input(s, packet, iss)
      BY <2>3 DEF Takes
    <3>12. iss \in Word
      BY ConnectionAssumption
    <3>13. Accounts(r, s, e, Acks(r, s, packet))
      BY <1>1, <2>3, <3>8, <3>9, <3>10, <3>11, <3>12, TakesCarries
    <3>14. Acks(r, s, packet) \subseteq E
      BY <1>14, <3>6 DEF Acks
    <3> QED
      BY <3>6, <3>7, <3>8, <3>9, <3>10, <3>13, <3>14 DEF Accounts, Fits
  <2> QED
    BY <1>4, <2>1, <2>2, <2>3 DEF Acts
<1>15. Mail(r, Acking(Opener(c), E)) /\ (Synced(c, r) => r.recv_next \in E)
  BY <1>13, <1>14
<1> QED
  BY <1>1, <1>10, <1>12, <1>15, HeedsOn DEF E

\* Only a SYN moves a session that listens.
LEMMA KeptListens ==
  ASSUME NEW r, WellFormed(r), NEW s, NEW packet, Follows(r, s, packet), Kept(r, s, packet),
         "FIN" \notin packet.flags, s.state = "LISTEN"
  PROVE  r.state = "LISTEN"
<1>1. r.state \in TcpState
  BY DEF WellFormed, Session
<1>2. ~Crossing(s)
  BY DEF Crossing
<1>3. r.state \notin {"FIN_WAIT_1", "FIN_WAIT_2", "ESTABLISHED"} \cup Late
  BY <1>2 DEF Follows, Crossing, Kept, Late
<1> QED
  BY <1>1, <1>3 DEF TcpState, Late, Kept, Opening

\* The server acknowledges edges, whatever it does.
LEMMA CalleeHeeds ==
  ASSUME SessionsOK, NetOK, RestOK, RestOK', StreamAssumption, MaxOpens <= 1, Basic,
         NEW c \in Connectors, NEW r, Acts(Peer(c), r), Fresh(sess[c], opens[c]), Connected(c),
         Waits(sess[Peer(c)]), Timing(c), ~abandoned'[c] => ~abandoned[c]
  PROVE  Timing(c)'
<1> DEFINE v == Peer(c)
           s == sess[c]
           q == sess[v]
           O == Opener(v)
<1>1. /\ c \in Addr /\ v \in Addr /\ ClientServer /\ Peer(v) = c /\ v # c /\ v \notin Connectors
      /\ ISS[v] \in SUBSET Word
  BY StreamFacts
<1>2. /\ Committed(v, r) /\ Mail(r, Anything(O)) /\ WellFormed(s) /\ WellFormed(r)
  BY <1>1, ActsBasic DEF Acts, Commits, SessionInv, SessionsOK
<1>3. sess'[c] = s /\ accepted'[c] = accepted[c]
  BY <1>1, <1>2, ActsRest DEF Committed, SessionsOK
<1>4. PICK i \in ISS[c], j \in ISS[v], g \in Int, h \in Int, x \in Int, y \in Int :
        Pair(c, i, j, g, h, x, y) /\ CalleeGoes(c, r, i, j, g, h, x, y)
  BY CalleeActs
<1>5. PICK b : DialSays(b, c, i, j, g, h)
  BY <1>4, PairSays
<1>6. /\ Pledge(b) /\ ~b.any /\ b.i = i /\ b.A = accepted[c] /\ Holds(s, b)
  BY <1>5 DEF DialSays, Bound
<1> SUFFICES ASSUME NEW k \in Word, Rooted(sess'[c], accepted'[c], k), ~abandoned'[c]
             PROVE  Sends(c, sess[c], k)' /\ Heeds(Peer(c), Edges(sess[c], k))'
  BY DEF Timing
<1>7. s.state \in Live /\ Rooted(s, accepted[c], k)
  BY <1>3 DEF Rooted
<1>8. s.alive /\ k = i
  BY <1>2, <1>6, <1>7, RootedHolds, RootedOnce
<1> DEFINE E == Edges(s, i)
<1>9. Sends(c, s, i) /\ Heeds(v, E)
  BY <1>7, <1>8 DEF Timing
<1>10. Plus(i, 1) \in E
  BY <1>2, <1>6, <1>7, StartEdge
<1> HIDE DEF E
<1>11. ASSUME ~Spoken(r)
       PROVE  Mail(r, Acking(O, E))
  <2>1. \E d : d.acks = {} /\ Mail(r, d)
    <3>1. PICK n : n = Len(delivered'[v] \o r.recv_buffer)
      OBVIOUS
    <3>2. PICK l \in Int, m \in Int :
            Mail(r, Full(j, accepted'[v], MaxBytes[v], l, m, Answers(r, i, j, n)))
      BY <1>4, <3>1 DEF CalleeGoes
    <3>3. Full(j, accepted'[v], MaxBytes[v], l, m, Answers(r, i, j, n)).acks = {}
      BY <1>11 DEF Full, Answers
    <3> QED
      BY <3>2, <3>3
  <2> QED
    BY <1>2, <2>1, MuteMail
<1>12. PICK e : e = Acking(O, E)
  OBVIOUS
<1>13. /\ Pledge(e) /\ e.any = TRUE /\ e.acks = E /\ e.fin = TRUE /\ e.joins = Word
       /\ Holds(q, e) /\ Mail(q, e)
  BY <1>9, <1>12, AckingType DEF Heeds, Bound, Acking, Anything
<1>14. ASSUME Spoken(r)
       PROVE  Mail(r, Acking(O, E)) /\ r.recv_next \in E
  <2>1. CASE Uses(v, r)
    <3>1. Synced(v, r)
      BY <1>1, <1>14 DEF Synced
    <3> QED
      BY <1>1, <1>9, <2>1, <3>1, UsesHeeds
  <2>2. ASSUME NEW packet, Takes(v, r, packet)
        PROVE  Mail(r, Acking(O, E)) /\ r.recv_next \in E
    <3>1. /\ q.alive /\ Arrives(v, packet) /\ packet \in myu_tcp_packet /\ packet.src = c
          /\ Follows(r, q, packet)
      BY <1>1, <2>2, TakesFollows, ServerTakes
    <3>2. q.state # "LISTEN" => q.recv_next \in E
      BY <1>1, <1>9, <3>1 DEF Heeds, Synced, Spoken
    <3>3. /\ "FIN" \notin packet.flags /\ ~("RST" \in packet.flags /\ packet.valid)
          /\ "SYN" \in packet.flags => packet.seq = i
      <4>1. Pair(c, i, j, g, h, x, y)
        BY <1>4
      <4>2. Plain(packet, sess[c], i, j, Len(Received(c)))
        BY <2>2, <4>1, CalleeHears
      <4> QED
        BY <4>2 DEF Plain
    <3>4. r.alive /\ r.state # "LISTEN"
      BY <1>14 DEF Spoken
    <3>5. ASSUME Kept(r, q, packet) PROVE r.recv_next \in E /\ q.state # "LISTEN"
      <4>1. r.recv_next = q.recv_next
        BY <3>3, <3>5 DEF Kept
      <4>2. q.state # "LISTEN"
        BY <1>2, <3>1, <3>3, <3>4, <3>5, KeptListens
      <4> QED
        BY <3>2, <4>1, <4>2
    <3>6. ASSUME Opened(r, q, packet) PROVE r.recv_next \in E /\ q.state = "LISTEN"
      BY <1>10, <3>3, <3>6 DEF Opened
    <3>7. ASSUME Accepted(r, q, packet) PROVE r.recv_next \in E /\ q.state = "ESTABLISHED"
      <4>1. /\ q.state = "ESTABLISHED" /\ packet.payload # <<>> /\ packet.seq = q.recv_next
            /\ r.recv_next = Plus(packet.seq, Len(packet.payload))
        BY <3>3, <3>7 DEF Accepted
      <4>2. Plus(packet.seq, Len(packet.payload)) \in Edges(s, i)
        BY <1>1, <1>9, <3>1, <4>1, DataEnds
      <4> QED
        BY <4>1, <4>2 DEF E
    <3>8. ~Gone(r, q, packet)
      BY <3>4 DEF Gone
    <3>9. ~Joined(r, q, packet)
      BY <1>1 DEF Basic, Placed, Joined
    <3>10. Kept(r, q, packet) \/ Opened(r, q, packet) \/ Accepted(r, q, packet)
      BY <3>1, <3>8, <3>9 DEF Follows
    <3>11. r.recv_next \in E /\ (q.state = "LISTEN" \/ q.recv_next \in E)
      BY <3>2, <3>5, <3>6, <3>7, <3>10
    <3>12. PICK iss \in ISS[v] : r = input(q, packet, iss)
      BY <2>2 DEF Takes
    <3>13. iss \in Word
      BY <1>1
    <3>14. Accounts(r, q, e, Acks(r, q, packet))
      BY <1>1, <1>13, <2>2, <3>12, <3>13, TakesCarries
    <3>15. Acks(r, q, packet) \subseteq E
      BY <3>3, <3>11 DEF Acks
    <3>16. Mail(r, e)
      BY <1>13, <3>14, <3>15 DEF Accounts, Fits
    <3> QED
      BY <1>12, <3>11, <3>16
  <2>3. ASSUME NEW packet, Begins(v, r, packet)
        PROVE  Mail(r, Acking(O, E)) /\ r.recv_next \in E
    <3>1. packet.src = c /\ packet \in myu_tcp_packet
      BY <2>3, ServerTakes
    <3>2. PICK iss \in ISS[v], initial \in InitialSendSeq :
            r = input(listen(NewSession(v, packet.src, initial)), packet, iss)
      BY <2>3 DEF Begins
    <3>3. PICK l : l = listen(NewSession(v, packet.src, initial))
      OBVIOUS
    <3>4. iss \in Word
      BY <1>1
    <3>5. /\ Accounts(r, l, e, Acks(r, l, packet)) /\ Follows(r, l, packet)
          /\ Mail(l, e) /\ l.state = "LISTEN"
      BY <1>1, <1>13, <2>3, <3>2, <3>3, <3>4, BeginsCarries
    <3>6. packet.flags = {"SYN"} /\ packet.seq = i
      <4>1. Pair(c, i, j, g, h, x, y)
        BY <1>4
      <4>2. Plain(packet, sess[c], i, j, Len(Received(c)))
        BY <2>3, <4>1, CalleeHears
      <4> QED
        BY <2>3, <4>2 DEF Plain, Begins
    <3>7. r.alive /\ r.state # "LISTEN"
      BY <1>14 DEF Spoken
    <3>8. r.recv_next \in E
      <4>1. ~Gone(r, l, packet) /\ ~Joined(r, l, packet) /\ ~Accepted(r, l, packet)
        BY <3>5, <3>7 DEF Gone, Joined, Accepted
      <4>2. ~Kept(r, l, packet)
        BY <1>2, <3>5, <3>6, <3>7, KeptListens
      <4>3. Opened(r, l, packet)
        BY <3>5, <4>1, <4>2 DEF Follows
      <4> QED
        BY <1>10, <3>6, <4>3 DEF Opened
    <3>9. Acks(r, l, packet) \subseteq E
      BY <3>5, <3>8 DEF Acks
    <3>10. Mail(r, e)
      BY <1>13, <3>5, <3>9 DEF Accounts, Fits
    <3> QED
      BY <1>12, <3>8, <3>10
  <2>4. ~Ends(v, r)
    BY <1>14, <1>1, EndsCarries DEF Spoken
  <2>5. ~Opens(v, r)
    BY <1>1 DEF Opens
  <2> QED
    BY <2>1, <2>2, <2>3, <2>4, <2>5 DEF Acts
<1>15. Mail(r, Acking(O, E)) /\ (Synced(v, r) => r.recv_next \in E)
  BY <1>1, <1>11, <1>14 DEF Synced
<1> QED
  BY <1>1, <1>8, <1>9, <1>15, HeedsOn DEF E

\* So it is at both ends, as long as the first connection lasts.
Clocked ==
  \A c \in Connectors : Fresh(sess[c], opens[c]) => Timing(c) /\ Timing(Peer(c))

\* At first no session has sent anything.
LEMMA ClockedInit == ASSUME StreamAssumption, Init PROVE Clocked
<1>1. ASSUME NEW e \in Addr PROVE Timing(e)
  <2>1. PICK b : b = Full(0, 0, MaxBytes[e], 0, 0, Asks(sess[e], e, 0, 0, 0))
    OBVIOUS
  <2>2. MaxBytes[e] \in Nat /\ MaxBytes[e] + 2 < SeqMod /\ 0 \in Word
    BY ConnectionAssumption, WordArith DEF StreamAssumption
  <2>3. Pledge(b) /\ b.A = 0
    BY <2>1, <2>2 DEF Full, Pledge
  <2>4. sess[e].state = "CLOSED"
    BY <2>3, UnusedInit
  <2> QED
    BY <2>4 DEF Timing, Rooted, Live
<1>2. \A c \in Connectors : c \in Addr /\ Peer(c) \in Addr
  BY StreamFacts
<1> QED
  BY <1>1, <1>2 DEF Clocked

\* A stack that does nothing goes on so,
LEMMA TimingIdle ==
  ASSUME Basic, NetOK, RestOK, [Next]_vars, Idle, NEW e \in Addr, Timing(e)
  PROVE  Timing(e)'
<1> DEFINE p == Peer(e)
<1>1. p \in Addr
  BY PeerFacts
<1>2. /\ sess' = sess /\ accepted' = accepted
      /\ \A d \in Addr : \A b : NetOf(net, d, b) => NetOf(net', d, b)
  BY DEF Idle
<1> SUFFICES ASSUME NEW i \in Word, Rooted(sess[e], accepted[e], i), ~abandoned'[e]
             PROVE  Sends(e, sess[e], i)' /\ Heeds(Peer(e), Edges(sess[e], i))'
  BY <1>2 DEF Timing
<1>3. sess[e].state \in Live
  BY DEF Rooted
<1>4. Spoken(sess[e])
  BY <1>3 DEF Basic, Bound, Holds, Flight, Spoken, Live
<1>5. ~abandoned[e]
  BY <1>4, Abandons
<1>6. Sends(e, sess[e], i) /\ Heeds(p, Edges(sess[e], i))
  BY <1>5 DEF Timing
<1>7. Edges(sess[e], i)' = Edges(sess[e], i)
  BY <1>2
<1>8. Sends(e, sess[e], i)'
  BY <1>2, <1>6, <1>7 DEF Sends
<1>9. \A b : Bound(p, b) => Bound(p, b)'
  BY <1>1, <1>2 DEF Bound
<1> HIDE DEF p
<1>10. Heeds(p, Edges(sess[e], i))'
  BY <1>2, <1>6, <1>7, <1>9 DEF Heeds
<1> QED
  BY <1>8, <1>10 DEF p

\* and every step.
LEMMA ClockedStep ==
  ASSUME StreamAssumption, MaxOpens <= 1, SessionsOK, NetOK, RestOK, RestOK', Basic, Sync,
         Clocked, [Next]_vars
  PROVE  Clocked'
<1> SUFFICES ASSUME NEW c \in Connectors, Fresh(sess'[c], opens'[c])
             PROVE  Timing(c)' /\ Timing(Peer(c))'
  BY DEF Clocked
<1> DEFINE v == Peer(c)
<1>1. /\ c \in Addr /\ v \in Addr /\ v # c /\ ClientServer /\ Listeners = {v}
      /\ Connectors = {c} /\ \A d \in Addr : d = c \/ d = v
  BY StreamFacts
<1>2. Connected(c) /\ Waits(sess[v])
  BY <1>1 DEF Sync
<1>3. /\ ~abandoned'[c] => ~abandoned[c]
      /\ ~abandoned'[v] /\ Spoken(sess[v]) => ~abandoned[v]
  BY <1>1, Abandons
<1>4. CASE Idle
  <2>1. Fresh(sess[c], opens[c])
    BY <1>4 DEF Idle
  <2>2. Timing(c) /\ Timing(v)
    BY <2>1 DEF Clocked
  <2> QED
    BY <1>1, <1>4, <2>2, TimingIdle
<1>5. ASSUME NEW r, Acts(c, r)
      PROVE  Timing(c)' /\ Timing(v)'
  <2>1. Committed(c, r) /\ WellFormed(r)
    BY <1>1, <1>5, ActsBasic DEF Acts, Commits, SessionInv
  <2>2. sess'[c] = [r EXCEPT !.out = NothingSent]
    BY <1>1, <2>1 DEF Committed, SessionsOK
  <2>3. Fresh(r, opens'[c])
    BY <2>1, <2>2, SameSides
  <2>4. Fresh(sess[c], opens[c])
    BY <1>5, <2>3, CallerWasFresh
  <2>5. Timing(c) /\ Timing(v)
    BY <2>4 DEF Clocked
  <2>6. Timing(c)'
    BY <1>2, <1>3, <1>5, <2>3, <2>5, CallerSends
  <2>7. Timing(v)'
    BY <1>2, <1>3, <1>5, <2>3, <2>5, CallerHeeds
  <2> QED
    BY <2>6, <2>7
<1>6. ASSUME NEW r, Acts(v, r)
      PROVE  Timing(c)' /\ Timing(v)'
  <2>1. Committed(v, r)
    BY <1>1, <1>6, ActsBasic
  <2>2. sess'[c] = sess[c]
    BY <1>1, <2>1 DEF Committed, SessionsOK
  <2>3. opens' = opens
    BY <1>1, <1>6 DEF Acts, Opens, Uses, Ends, Takes, Begins
  <2>4. Fresh(sess[c], opens[c])
    BY <2>2, <2>3
  <2>5. Timing(c) /\ Timing(v)
    BY <2>4 DEF Clocked
  <2>6. Timing(c)'
    BY <1>2, <1>3, <1>6, <2>4, <2>5, CalleeHeeds
  <2>7. Timing(v)'
    BY <1>2, <1>3, <1>6, <2>4, <2>5, CalleeSends
  <2> QED
    BY <2>6, <2>7
<1> QED
  BY <1>1, <1>4, <1>5, <1>6, StepKinds

\* What is clocked is timed.
LEMMA ClockedTimes ==
  ASSUME StreamAssumption, SessionsOK, RestOK, Sync, Clocked, NEW c \in Connectors,
         Fresh(sess[c], opens[c]), NEW e \in Addr, sess[e].state = "ESTABLISHED", ~abandoned[e]
  PROVE  Timed(sess[e])
<1>1. c \in Addr /\ Peer(c) \in Addr /\ (e = c \/ e = Peer(c))
  BY StreamFacts
<1>2. PICK i \in ISS[c], j \in ISS[Peer(c)], g \in Int, h \in Int, x \in Int, y \in Int :
        Pair(c, i, j, g, h, x, y)
  BY DEF Sync, Connected
<1>3. \E b : Pledge(b) /\ ~b.any /\ Holds(sess[e], b) /\ b.A = accepted[e]
  <2>1. CASE e = c
    <3>1. PICK b : DialSays(b, c, i, j, g, h)
      BY <1>2, PairSays
    <3> QED
      BY <2>1, <3>1 DEF DialSays, Bound
  <2>2. CASE e = Peer(c)
    <3>1. PICK b : ReplySays(b, Peer(c), i, j, x, y)
      BY <1>2, PairSays
    <3> QED
      BY <2>2, <3>1 DEF ReplySays, Bound
  <2> QED
    BY <1>1, <2>1, <2>2
<1>4. PICK b : Pledge(b) /\ ~b.any /\ Holds(sess[e], b) /\ b.A = accepted[e]
  BY <1>3
<1>5. Rooted(sess[e], accepted[e], b.i) /\ b.i \in Word
  <2>1. sess[e].state \in Live
    BY DEF Live
  <2> QED
    BY <1>4, <2>1, RootedHolds DEF Rooted
<1>6. Timing(e)
  BY <1>1 DEF Clocked
<1>7. Sends(e, sess[e], b.i)
  BY <1>5, <1>6 DEF Timing
<1> QED
  BY <1>7 DEF Sends

\* The client is still in its first connection, or has opened none.
FirstConnection == \A c \in Connectors : Fresh(sess[c], opens[c])

\* As long as the first connection lasts, an established session on either side
\* that has unacknowledged data runs a timer for the oldest of it, unless
\* handle_retransmit_timeout has given a packet up: _handle_ack, which stops the
\* timers below the acknowledged number, never stops one too many, because every
\* acknowledgement names an edge between two packets, so send_unack_ never comes
\* to lie inside a packet whose timer has a smaller number.  Hypotheses: those of
\* AckedIsReceived.  The client's own session is always in its first connection
\* while it is established; the condition is about the server, which after the
\* client has closed can still start a session for a SYN that comes again, and
\* meet acknowledgements of the one before.
THEOREM OldestTimed ==
  ASSUME StreamAssumption, MaxOpens <= 1
  PROVE  Spec => [](FirstConnection => OldestIsTimed)
<1>1. IInv /\ Basic /\ Sync /\ Clocked => (FirstConnection => OldestIsTimed)
  <2> SUFFICES ASSUME IInv, Basic, Sync, Clocked, FirstConnection, NEW e \in Addr,
                      sess[e].state = "ESTABLISHED", sess[e].send_unack # sess[e].send_next,
                      ~abandoned[e]
               PROVE  \E t \in sess[e].timers : t.seq = sess[e].send_unack
    BY DEF OldestIsTimed
  <2>1. PICK c : c \in Connectors
    BY DEF StreamAssumption, ClientServer
  <2>2. Fresh(sess[c], opens[c])
    BY <2>1 DEF FirstConnection
  <2>3. Timed(sess[e])
    BY <2>1, <2>2, Parts, ClockedTimes
  <2> QED
    BY <2>3 DEF Timed
<1>2. Init => IInv /\ Basic /\ Sync /\ Clocked
  BY SyncInvariant, ClockedInit
<1>3. ASSUME IInv, Basic, Sync, Clocked, [Next]_vars
      PROVE  IInv' /\ Basic' /\ Sync' /\ Clocked'
  <2>1. IInv' /\ Basic' /\ Sync'
    BY <1>3, SyncInvariant
  <2>2. SessionsOK /\ NetOK /\ RestOK /\ RestOK'
    <3>1. RestOK'
      BY <2>1 DEF IInv, TypeOK, RestOK
    <3> QED
      BY <1>3, <3>1, Parts
  <2>3. Clocked'
    BY <1>3, <2>2, ClockedStep
  <2> QED
    BY <2>1, <2>3
<1>4. IInv /\ Basic /\ Sync /\ Clocked /\ [Next]_vars => IInv' /\ Basic' /\ Sync' /\ Clocked'
  BY <1>3
<1> QED
  BY <1>1, <1>2, <1>4, PTL DEF Spec

====
