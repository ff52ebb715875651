---------------------------- MODULE TcpConnection ----------------------------
(***************************************************************************)
(* Two MyuTCP stacks, one session each, joined by UDP.                     *)
(*                                                                         *)
(* A stack in Connectors created its session with create_session and calls *)
(* connect(); from then on every datagram it receives goes to that session *)
(* (tcb.cpp, connect).  The other stack has called TcpStack::listen(): it  *)
(* looks the sender up in tcp_sessions_, creates a session for a SYN and   *)
(* answers anything else with a RST.                                       *)
(*                                                                         *)
(* A step is one callback of the libuv loop (a datagram, a timer, the idle *)
(* handle) or one call of the application.  UDP loses, corrupts,           *)
(* duplicates and reorders datagrams, each within a budget.  There is no   *)
(* clock: a timer expires when the network is idle, because the shortest   *)
(* timeout is a second, far above a round trip, and a timer that has been  *)
(* restarted less often goes first, because every restart doubles the      *)
(* timeout.  The budget "early" lets timers expire against these rules.    *)
(***************************************************************************)
EXTENDS TcpSession

CONSTANTS
  Connectors,        \* the stacks whose application calls connect()
  Closers,           \* the stacks whose application calls close()
  Readers,           \* the stacks whose application logic calls read_all()
  ISS,               \* what _generate_initial_seq may return, for each stack
  InitialSendSeq,    \* what the constructor's generator may return
  RecvSizes,         \* buffer sizes with which the application calls recv()
  ChunkSizes,        \* sizes with which the application calls send()
  MaxBytes,          \* bound: bytes each application passes to send()
  MaxOpens,          \* bound: calls of connect() per stack
  MaxLoss, MaxCorrupt, MaxDuplicate, MaxReorder, MaxEarly  \* fault budgets

ASSUME ConnectionAssumption ==
  /\ \E a, b \in Addr : a # b /\ Addr = {a, b}
  /\ Connectors \subseteq Addr /\ Closers \subseteq Addr /\ Readers \subseteq Addr
  /\ ISS \in [Addr -> SUBSET Word] /\ InitialSendSeq \subseteq Word
  /\ InitialSendSeq # {}
  /\ RecvSizes \subseteq Nat /\ ChunkSizes \subseteq Nat \ {0}
  /\ MaxBytes \in [Addr -> Nat] /\ MaxOpens \in Nat
  /\ {MaxLoss, MaxCorrupt, MaxDuplicate, MaxReorder, MaxEarly} \subseteq Nat

VARIABLES
  sess,        \* the session of each stack
  net,         \* the datagrams on their way to each stack, oldest first
  accepted,    \* history: the number of bytes the session took in send()
  delivered,   \* history: the bytes the application has read from the session
  abandoned,   \* history: the session has given up retransmitting some packet
  opens,       \* the number of calls of connect()
  budget       \* the faults that may still happen

vars == <<sess, net, accepted, delivered, abandoned, opens, budget>>

Peer(e) == CHOOSE p \in Addr : p # e

Listeners == Addr \ Connectors

Fault == {"loss", "corrupt", "duplicate", "reorder", "early"}

\* A listening stack has no session until a SYN arrives.
NoSession(e) == [NewSession(e, Peer(e), 0) EXCEPT !.alive = FALSE]

Init ==
  /\ sess \in {[e \in Addr |-> IF e \in Connectors THEN NewSession(e, Peer(e), i[e])
                                                   ELSE NoSession(e)] :
                 i \in [Addr -> InitialSendSeq]}
  /\ net = [e \in Addr |-> <<>>]
  /\ accepted = [e \in Addr |-> 0]
  /\ delivered = [e \in Addr |-> <<>>]
  /\ abandoned = [e \in Addr |-> FALSE]
  /\ opens = [e \in Addr |-> 0]
  /\ budget = [loss |-> MaxLoss, corrupt |-> MaxCorrupt, duplicate |-> MaxDuplicate,
               reorder |-> MaxReorder, early |-> MaxEarly]

\* The session of e becomes s and what it sent joins the datagrams in rest.
\* (The quantifier makes TLC evaluate s once.)
Commit(e, s, rest) ==
  \E r \in {s} :
    /\ sess' = [sess EXCEPT ![e] = [r EXCEPT !.out = NothingSent]]
    /\ net' = [d \in Addr |-> rest[d] \o r.out[d]]

Spend(fault) ==
  /\ budget[fault] > 0
  /\ budget' = [budget EXCEPT ![fault] = @ - 1]

-----------------------------------------------------------------------------
(* What the theorems about the streams suppose.                            *)

\* One stack connects, and never a session that is open; the other listens.
ClientServer == (\E c \in Addr : Connectors = {c}) /\ ConnectsClosed

\* Two initial sequence numbers that the stacks may choose, for whichever of their
\* connections, are so far apart that no number is a position in both streams.
Apart ==
  \A d, e \in Addr : \A i \in ISS[d], j \in ISS[e] : <<d, i>> # <<e, j>> =>
    \A x \in Word : Minus(x, i) > MaxBytes[d] + 1 \/ Minus(x, j) > MaxBytes[e] + 1

\* And no stream is as long as there are numbers.
StreamAssumption ==
  ClientServer /\ Apart /\ \A e \in Addr : ISS[e] # {} /\ MaxBytes[e] + 2 < SeqMod

-----------------------------------------------------------------------------
(* The application.                                                        *)

Connect(e) ==
  /\ e \in Connectors /\ sess[e].alive /\ sess[e].state \in ConnectStates
  /\ opens[e] < MaxOpens
  /\ opens' = [opens EXCEPT ![e] = @ + 1]
  /\ \E iss \in ISS[e] : Commit(e, connect(sess[e], iss), net)
  /\ UNCHANGED <<accepted, delivered, abandoned, budget>>

Send(e) ==
  /\ sess[e].alive
  /\ \E n \in ChunkSizes :
       LET data == [i \in 1..n |-> accepted[e] + i]
       IN  /\ accepted[e] + n <= MaxBytes[e]
           /\ Commit(e, send(sess[e], data), net)
           /\ accepted' = [accepted EXCEPT ![e] = @ + Len(Writable(sess[e], data))]
  /\ UNCHANGED <<delivered, abandoned, opens, budget>>

Recv(e) ==
  /\ sess[e].alive
  /\ \E n \in RecvSizes :
       /\ delivered' = [delivered EXCEPT ![e] = @ \o Readable(sess[e], n)]
       /\ Commit(e, recv(sess[e], n), net)
  /\ UNCHANGED <<accepted, abandoned, opens, budget>>

Close(e) ==
  /\ e \in Closers /\ sess[e].alive
  /\ Commit(e, close(sess[e]), net)
  /\ UNCHANGED <<accepted, delivered, abandoned, opens, budget>>

\* TcpStack::_on_idle_dispatch: the session leaves the ready queue and the
\* application logic, if there is one, reads everything.
Dispatch(e) ==
  LET s == [sess[e] EXCEPT !.is_in_ready_queue = FALSE]
  IN  /\ sess[e].alive /\ sess[e].is_in_ready_queue
      /\ IF e \in Readers
           THEN /\ Commit(e, read_all(s), net)
                /\ delivered' = [delivered EXCEPT ![e] = @ \o s.recv_buffer]
           ELSE /\ Commit(e, s, net)
                /\ UNCHANGED delivered
      /\ UNCHANGED <<accepted, abandoned, opens, budget>>

-----------------------------------------------------------------------------
(* Timers.                                                                 *)

NetworkIdle == \A e \in Addr : net[e] = <<>>

Expires(early) == IF early THEN Spend("early") ELSE UNCHANGED budget

Timeout(e) ==
  /\ \E t \in sess[e].timers :
       /\ Commit(e, handle_retransmit(sess[e], t), net)
       /\ abandoned' = [abandoned EXCEPT ![e] = @ \/ t.count + 1 >= MAX_RETRANSMIT_COUNT]
       /\ Expires(~NetworkIdle \/ \E u \in sess[e].timers : u.count < t.count)
  /\ UNCHANGED <<accepted, delivered, opens>>

\* The 120 s of _start_2msl_timer outlast the 31 s of a packet's retransmissions.
MslTimeout(e) ==
  /\ sess[e].msl_timer
  /\ Commit(e, handle_2msl_timeout(sess[e]), net)
  /\ Expires(~NetworkIdle \/ \E d \in Addr : sess[d].timers # {})
  /\ UNCHANGED <<accepted, delivered, abandoned, opens>>

-----------------------------------------------------------------------------
(* A datagram arrives: UdpDriver::on_uv_recv and the callback that         *)
(* connect() or listen() installed.                                        *)

\* listen()'s callback finds the session under the sender's address;
\* connect()'s callback does not look at the address.
HasSessionFor(e, packet) ==
  sess[e].alive /\ (e \in Connectors \/ packet.src = sess[e].remote)

ToSession(e, packet, rest) ==
  /\ HasSessionFor(e, packet)
  /\ e \in Connectors => opens[e] > 0
  /\ \E iss \in ISS[e] : Commit(e, input(sess[e], packet, iss), rest)
  /\ UNCHANGED <<accepted, delivered, abandoned, opens>>

\* No callback is installed before connect().  After the session has been erased
\* the callback still calls it: undefined behaviour, of which the model keeps
\* one outcome, the freed session still reads as CLOSED and ignores the packet.
ToNobody(e, packet, rest) ==
  /\ e \in Connectors /\ (opens[e] = 0 \/ ~sess[e].alive)
  /\ net' = rest
  /\ UNCHANGED <<sess, accepted, delivered, abandoned, opens>>

\* A new session; the stream of its predecessor, if any, is over.
ToNewSession(e, packet, rest) ==
  /\ e \in Listeners /\ ~HasSessionFor(e, packet) /\ packet.flags = {"SYN"}
  /\ \E iss \in ISS[e], initial \in InitialSendSeq :
       Commit(e, input(listen(NewSession(e, packet.src, initial)), packet, iss), rest)
  /\ accepted' = [accepted EXCEPT ![e] = 0]
  /\ delivered' = [delivered EXCEPT ![e] = <<>>]
  /\ abandoned' = [abandoned EXCEPT ![e] = FALSE]
  /\ UNCHANGED opens

\* The RST is a zeroed packet whose checksum is never computed.
Reset(e) == [src |-> e, flags |-> {"RST"}, seq |-> 0, ack |-> 0, payload |-> <<>>,
             win |-> 0, valid |-> FALSE]

Refuse(e, packet, rest) ==
  /\ e \in Listeners /\ ~HasSessionFor(e, packet) /\ packet.flags # {"SYN"}
  /\ net' = [rest EXCEPT ![packet.src] = Append(@, Reset(e))]
  /\ UNCHANGED <<sess, accepted, delivered, abandoned, opens>>

Deliver(e) ==
  /\ net[e] # <<>>
  /\ LET packet == Head(net[e])
         rest   == [net EXCEPT ![e] = Tail(@)]
     IN  \/ ToSession(e, packet, rest)
         \/ ToNobody(e, packet, rest)
         \/ ToNewSession(e, packet, rest)
         \/ Refuse(e, packet, rest)
  /\ UNCHANGED budget

-----------------------------------------------------------------------------
(* UDP.                                                                    *)

Without(q, i) == SubSeq(q, 1, i - 1) \o SubSeq(q, i + 1, Len(q))

Lose(e) ==
  /\ \E i \in 1..Len(net[e]) : net' = [net EXCEPT ![e] = Without(@, i)]
  /\ Spend("loss")
  /\ UNCHANGED <<sess, accepted, delivered, abandoned, opens>>

Corrupt(e) ==
  /\ \E i \in 1..Len(net[e]) : net' = [net EXCEPT ![e][i].valid = FALSE]
  /\ Spend("corrupt")
  /\ UNCHANGED <<sess, accepted, delivered, abandoned, opens>>

Duplicate(e) ==
  /\ \E i \in 1..Len(net[e]) : net' = [net EXCEPT ![e] = Append(@, @[i])]
  /\ Spend("duplicate")
  /\ UNCHANGED <<sess, accepted, delivered, abandoned, opens>>

Reorder(e) ==
  /\ \E i \in 1..(Len(net[e]) - 1) :
       net' = [net EXCEPT ![e] = Append(Without(@, i), @[i])]
  /\ Spend("reorder")
  /\ UNCHANGED <<sess, accepted, delivered, abandoned, opens>>

-----------------------------------------------------------------------------
Application(e) == Connect(e) \/ Send(e) \/ Recv(e) \/ Close(e)

EventLoop(e) == Deliver(e) \/ Dispatch(e) \/ Timeout(e) \/ MslTimeout(e)

Udp(e) == Lose(e) \/ Corrupt(e) \/ Duplicate(e) \/ Reorder(e)

Next == \E e \in Addr : Application(e) \/ EventLoop(e) \/ Udp(e)

Spec == Init /\ [][Next]_vars

\* uv_run serves every ready socket, idle handle and expired timer; nothing
\* forces the application to call anything.
Fairness ==
  \A e \in Addr :
    /\ WF_vars(Deliver(e))
    /\ WF_vars(Dispatch(e))
    /\ WF_vars(Timeout(e))
    /\ WF_vars(MslTimeout(e))

FairSpec == Spec /\ Fairness

-----------------------------------------------------------------------------
(* Safety.                                                                 *)

\* Every variable has its type; in particular the buffers never exceed the
\* capacity of their RingQueue.
TypeOK ==
  /\ sess \in [Addr -> Session]
  /\ \A e \in Addr : /\ Len(sess[e].send_buffer) <= BufferCapacity
                     /\ Len(sess[e].recv_buffer) <= BufferCapacity
                     /\ sess[e].self = e /\ sess[e].out = NothingSent
  /\ net \in [Addr -> Seq(myu_tcp_packet)]
  /\ accepted \in [Addr -> Nat]
  /\ delivered \in [Addr -> Seq(Byte)]
  /\ abandoned \in [Addr -> BOOLEAN]
  /\ opens \in [Addr -> Nat]
  /\ budget \in [Fault -> Nat]

Received(e) == delivered[e] \o sess[e].recv_buffer

\* What an application has read, followed by what waits in recv_buffer_, is the
\* peer's stream from its first byte on: nothing is skipped, repeated or
\* swapped, whatever UDP does and however often packets are retransmitted.
StreamPrefix ==
  \A e \in Addr : \A i \in 1..Len(Received(e)) : Received(e)[i] = i

InSync(e) == \A a \in {e, Peer(e)} : sess[a].alive /\ sess[a].state = "ESTABLISHED"

\* While both sides are established, what the receiver expects next lies
\* between the sender's send_unack_ and send_next_.
WindowsAgree ==
  \A e \in Addr : InSync(e) =>
    Minus(sess[Peer(e)].recv_next, sess[e].send_unack)
      <= Minus(sess[e].send_next, sess[e].send_unack)

\* What an established session has in flight is in its send buffer:
\* _handle_try_send takes the difference of send_next_ and send_unack_ for an
\* offset into send_buffer_, and _handle_ack for a number of bytes to release.
InflightIsBuffered ==
  \A e \in Addr : sess[e].state = "ESTABLISHED" =>
    Minus(sess[e].send_next, sess[e].send_unack) <= Len(sess[e].send_buffer)

\* send_buffer_ gives up a byte only after the peer has it: _handle_ack never
\* releases data that could still have to be retransmitted.  This and
\* WindowsAgree are about the first connection: TcpConnectionProofs says why.
AckedWasReceived ==
  \A e \in Addr : InSync(e) =>
    accepted[e] - Len(sess[e].send_buffer) <= Len(Received(Peer(e)))

\* An established session with unacknowledged data has a running timer for the
\* oldest of it, unless it has given up retransmitting something.
OldestIsTimed ==
  \A e \in Addr :
    LET s == sess[e]
    IN  s.state = "ESTABLISHED" /\ s.send_unack # s.send_next /\ ~abandoned[e]
          => \E t \in s.timers : t.seq = s.send_unack

\* _handle_ack ignores an acknowledgement that repeats the last one, so the
\* counter of duplicates never comes near 3: what README.md:11 promises is never
\* reached (ClaimFastRetransmit.cfg).
FastRetransmitUnreachable == \A e \in Addr : sess[e].dup_ack_count <= 1

\* The receive window is one byte, so no packet lies strictly inside it: data
\* that arrives ahead of a gap is always discarded and ooo_map_ stays empty
\* (_handle_incoming_packet), even though UDP reorders packets and tcb.h:151-152 says
\* that it is kept.
ReassemblyUnreachable == \A e \in Addr : sess[e].ooo_map = {}

\* A session that is closed, or only listening, has no timer running: no
\* callback will reach it (the rule stated at tcb.h:126-127).
ClosedIsQuiet ==
  \A e \in Addr : sess[e].state \in {"CLOSED", "LISTEN"} =>
    sess[e].timers = {} /\ ~sess[e].msl_timer

\* No wake-up is lost: a session whose application has something to read, data
\* or the end of the peer's stream, is in the ready queue.  (A session that has
\* itself called close() is not told about the peer's FIN.)
NoLostWakeup ==
  \A e \in Readers :
    LET s == sess[e]
    IN  \/ s.recv_buffer # <<>>
        \/ s.state = "CLOSE_WAIT" /\ ~s.user_want_to_close /\ auto_close_on_eof
        => s.is_in_ready_queue

\* A session that leaves TIME_WAIT leaves a peer that is done: handle_timed_wait
\* acknowledges a repeated FIN for as long as the peer in LAST_ACK may need it.
TimeWaitProtects ==
  [][\A e \in Addr : sess[e].state = "TIME_WAIT" /\ ~sess'[e].alive
       => ~sess[Peer(e)].alive]_vars

-----------------------------------------------------------------------------
(* The abstract specification.                                             *)

Stream == INSTANCE ByteStreams WITH
  Side     <- Addr,
  Servers  <- Listeners,
  Capacity <- BufferCapacity,
  live     <- [e \in Addr |-> sess[e].alive],
  written  <- accepted,
  arrived  <- [e \in Addr |-> Len(Received(e))],
  read     <- delivered

\* The connection carries two streams of bytes: no byte reaches a session before
\* its peer's application has written it, whatever has arrived is only added to as
\* long as the session is in tcp_sessions_ and lost only when it leaves (a RST, the
\* last ACK, the end of 2MSL), and the application reads it in order.
StreamSpec == Stream!Spec

-----------------------------------------------------------------------------
(* Liveness, under FairSpec.                                               *)

\* A byte taken by send() on a connection that stays open reaches the peer.
ReliableDelivery ==
  \A e \in Addr : \A n \in 1..MaxBytes[e] :
    (accepted[e] >= n /\ InSync(e))
      ~> \/ Len(Received(Peer(e))) >= n
         \/ ~InSync(e)

\* A client that is established does not leave the server half open.  The code
\* breaks this when the last ACK of the handshake is lost (ClaimHandshakeLoss.cfg).
HandshakeCompletes ==
  \A e \in Connectors :
    sess[e].state = "ESTABLISHED" ~> sess[Peer(e)].state # "SYN_RECEIVED"

Lossless == budget.loss = MaxLoss

\* As long as no datagram is lost, a client that is established, whatever it goes
\* on to do, does not leave the server half open: its ACK, or the one that its
\* first data carries, is the one handle_syn_received waits for.
HandshakeCompletesIfLossless ==
  \A e \in Connectors :
    sess[e].state = "ESTABLISHED" ~>
      (sess[Peer(e)].state # "SYN_RECEIVED" \/ ~Lossless)

\* A session whose application has closed it, with data in flight or without, is
\* eventually gone, as long as no datagram is lost and only one of the two closes
\* first (Closers).  The code breaks it when both do (ClaimSimultaneousClose.cfg).
TeardownCompletes ==
  \A e \in Addr : sess[e].user_want_to_close ~> (~sess[e].alive \/ ~Lossless)

\* Retransmission ends, and with it all traffic.
TrafficEnds == <>[](NetworkIdle /\ \A e \in Addr : sess[e].timers = {})

=============================================================================
