--------------------------- MODULE TcpStackProofs ---------------------------
(***************************************************************************)
(* Safety of a stack with several sessions, for every number of remotes    *)
(* and sessions: the table, the ready queue and the flags of the sessions  *)
(* agree, a pointer in the queue dangles only after a RST, after           *)
(* stop_and_destory or after a connect() that reuses a closed session, and *)
(* a datagram changes one session at most.                                 *)
(*                                                                         *)
(* TcpSessionMoves says what the handlers of a session do to the fields    *)
(* that the stack depends on.                                              *)
(***************************************************************************)
EXTENDS TcpStack, TcpSessionMoves

\* The application reads everything, and closes at the end of the stream.
LEMMA ServeMoves ==
  ASSUME NEW s, SessionInv(s)
  PROVE  LET r == Serve(s)
         IN  /\ SessionInv(r) /\ r.self = s.self
             /\ r.remote = s.remote /\ r.alive = s.alive
             /\ r.is_in_ready_queue = FALSE
             /\ Lifecycle(s) => Lifecycle(r)
<1> DEFINE q == [s EXCEPT !.is_in_ready_queue = FALSE]
           k == Len(q.recv_buffer)
           rest == [q EXCEPT !.recv_buffer = pop_front(@, k)]
           n == recv(q, k)
<1>1. Serve(s) = [n EXCEPT !.out = NothingSent]
  BY DEF Serve, read_all
<1>2. HasFields(s)
  BY SessionHasFields
<1>3. /\ HasFields(q) /\ q.remote = s.remote /\ q.alive = s.alive
      /\ q.is_in_ready_queue = FALSE /\ (Lifecycle(s) => Lifecycle(q))
  BY <1>2 DEF HasFields, Watched, Lifecycle
<1>4. SessionInv(q) /\ q.self = s.self
  <2>1. /\ WellFormed(q) /\ Same(q, s)
        /\ q.timers = s.timers /\ q.msl_timer = s.msl_timer
    BY FieldType DEF SessionInv
  <2> HIDE DEF q
  <2> QED
    BY <2>1, AsideInv
<1> HIDE DEF q
<1>5. k \in Nat
  BY <1>4 DEF SessionInv, WellFormed, Session
<1> HIDE DEF k
<1>6. SessionInv(n) /\ n.self = s.self
  BY <1>4, <1>5, RecvInv
<1>7. n \in {rest, close(rest)}
  BY DEF recv
<1>8. /\ HasFields(rest) /\ rest.remote = s.remote
      /\ rest.alive = s.alive /\ rest.is_in_ready_queue = FALSE
      /\ Lifecycle(s) => Lifecycle(rest)
  BY <1>3 DEF HasFields, Watched, Lifecycle
<1> HIDE DEF rest, n
<1>9. /\ HasFields(n) /\ n.remote = s.remote
      /\ n.alive = s.alive /\ n.is_in_ready_queue = FALSE
      /\ Lifecycle(s) => Lifecycle(n)
  BY <1>7, <1>8, CloseMoves
<1> QED
  BY <1>1, <1>6, <1>9, SentSame

-----------------------------------------------------------------------------
(* The invariant of the stack.                                             *)

\* The queue holds pointers to sessions that exist or existed.
QueueInHeap == \A i \in DOMAIN ready_queue_ : ready_queue_[i] \in DOMAIN heap

\* A session that connect() has reused after close() may have the 2MSL timer and
\* user_want_to_close_ of its old connection.
SessionsAreSound ==
  \A p \in DOMAIN heap :
    /\ SessionInv(heap[p])
    /\ heap[p].alive => heap[p].remote \in Remote
    /\ heap[p].alive => p \in reopened \/ Lifecycle(heap[p])

\* The idle handle empties the queue before the application's callbacks run, and
\* these queue nobody; so a session that is polled is as its handlers left it.
WaitsSinceIdle ==
  /\ phase = "app" => ready_queue_ = <<>>
  /\ phase = "udp" =>
       \A p \in DOMAIN heap : heap[p].alive => p \in reopened \/ Polled(heap[p])

\* All but the part that depends on the phase.
Shared == /\ TypeOK /\ QueueInHeap /\ SessionsAreSound
          /\ TableIsSound /\ QueueIsSound /\ DanglingHasCause

IInv == Shared /\ WaitsSinceIdle

\* A pointer is a position in the heap, and never nullptr.
LEMMA HeapFacts ==
  ASSUME TypeOK
  PROVE  /\ Len(heap) \in Nat /\ DOMAIN heap = 1..Len(heap)
         /\ DOMAIN heap \subseteq Pointer /\ nullptr \notin DOMAIN heap
<1>1. Len(heap) \in Nat /\ DOMAIN heap = 1..Len(heap)
  BY DEF TypeOK
<1>2. Len(heap) <= MaxSessions /\ MaxSessions \in Nat
  BY StackAssumption DEF TypeOK
<1> QED
  BY <1>1, <1>2 DEF Pointer, nullptr

\* What a step may make of the session p.
After(p, s) ==
  /\ SessionInv(s) /\ s.remote = heap[p].remote
  /\ s.alive => /\ p \in reopened' \/ Lifecycle(s)
                /\ heap[p].is_in_ready_queue => s.is_in_ready_queue
  /\ ~s.alive => ~s.is_in_ready_queue

\* Appending a pointer to the queue.
LEMMA AppendPointer ==
  ASSUME NEW q \in Seq(Pointer), NEW p \in Pointer
  PROVE  LET r == Append(q, p)
         IN  /\ r \in Seq(Pointer) /\ r # <<>>
             /\ \A i \in DOMAIN q : i \in DOMAIN r /\ r[i] = q[i]
             /\ \A i \in DOMAIN r : i \in DOMAIN q \/ i = Len(q) + 1
             /\ Len(q) + 1 \in DOMAIN r /\ r[Len(q) + 1] = p
             /\ Len(q) + 1 \notin DOMAIN q
<1> DEFINE r == Append(q, p)
<1>1. /\ r \in Seq(Pointer) /\ Len(r) = Len(q) + 1 /\ Len(q) \in Nat
      /\ DOMAIN r = 1..(Len(q) + 1) /\ DOMAIN q = 1..Len(q)
      /\ \A i \in 1..Len(q) : r[i] = q[i]
      /\ r[Len(q) + 1] = p
  OBVIOUS
<1>2. r # <<>>
  BY <1>1
<1> HIDE DEF r
<1> QED
  BY <1>1, <1>2 DEF r

\* A handler of one session keeps the table, the queue and the sessions sound.
LEMMA BecomesInv ==
  ASSUME Shared, NEW p \in DOMAIN heap, heap[p].alive, NEW s, After(p, s), Becomes(p, s),
         torn \subseteq torn', torn' \subseteq Pointer,
         reopened \subseteq reopened', reopened' \subseteq Pointer, opens' \in Nat,
         s.alive \/ p \in torn' \cup reopened' \/ ~heap[p].is_in_ready_queue,
         receiver' \in Pointer \cup {NoCallback, ListenCallback}, phase' \in Phase
  PROVE  Shared'
<1> DEFINE q == [s EXCEPT !.out = NothingSent]
           enqueues == s.is_in_ready_queue /\ ~heap[p].is_in_ready_queue
<1>0. /\ p \in Pointer /\ Len(heap) \in Nat /\ DOMAIN heap = 1..Len(heap)
      /\ nullptr \notin DOMAIN heap
  BY HeapFacts DEF Shared
<1>1. /\ SessionInv(q) /\ Frame(q, s) /\ (Lifecycle(q) <=> Lifecycle(s))
      /\ q \in Session
  BY SentSame DEF After, SessionInv, WellFormed
<1>2. heap' = [heap EXCEPT ![p] = q]
  BY DEF Becomes
<1> HIDE DEF q
<1>3. /\ heap' \in Seq(Session) /\ Len(heap') = Len(heap) /\ DOMAIN heap' = DOMAIN heap
      /\ heap'[p] = q /\ \A o \in DOMAIN heap : o # p => heap'[o] = heap[o]
  BY <1>0, <1>1, <1>2 DEF Shared, TypeOK
<1>4. /\ tcp_sessions_' = IF s.alive THEN tcp_sessions_ ELSE Erase(heap[p].remote)
      /\ IF enqueues
           THEN ready_queue_' = Append(ready_queue_, p) /\ idle_active' = TRUE
           ELSE ready_queue_' = ready_queue_ /\ idle_active' = idle_active
  BY DEF Becomes, enqueue_ready_session
<1>5. /\ heap[p].remote \in Remote
      /\ tcp_sessions_[heap[p].remote] = p
  BY DEF Shared, SessionsAreSound, TableIsSound
<1>6. /\ tcp_sessions_' \in [Remote -> Pointer \cup {nullptr}]
      /\ \A r \in Remote :
           tcp_sessions_'[r] = IF ~s.alive /\ r = heap[p].remote THEN nullptr
                               ELSE tcp_sessions_[r]
  BY <1>4, <1>5 DEF Erase, Shared, TypeOK
<1>7. /\ ready_queue_' \in Seq(Pointer) /\ idle_active' \in BOOLEAN
      /\ \A o : Queued(o)' <=> Queued(o) \/ (enqueues /\ o = p)
      /\ QueueInHeap' /\ (ready_queue_' # <<>> => idle_active')
      /\ \A i, j \in DOMAIN ready_queue_' :
           ready_queue_'[i] = ready_queue_'[j] => i = j
  <2>0. /\ ready_queue_ \in Seq(Pointer) /\ idle_active \in BOOLEAN /\ QueueInHeap
        /\ (ready_queue_ # <<>> => idle_active)
        /\ \A i, j \in DOMAIN ready_queue_ : ready_queue_[i] = ready_queue_[j] => i = j
    BY DEF Shared, TypeOK, QueueIsSound
  <2>1. CASE ~enqueues
    BY <1>3, <1>4, <2>0, <2>1 DEF Queued, QueueInHeap
  <2>2. CASE enqueues
    <3>1. ~Queued(p)
      BY <2>2 DEF Shared, QueueIsSound
    <3>2. ready_queue_' = Append(ready_queue_, p) /\ idle_active' = TRUE
      BY <1>4, <2>2
    <3>3. /\ ready_queue_' \in Seq(Pointer)
          /\ \A i \in DOMAIN ready_queue_ :
               i \in DOMAIN ready_queue_' /\ ready_queue_'[i] = ready_queue_[i]
          /\ \A i \in DOMAIN ready_queue_' :
               i \in DOMAIN ready_queue_ \/ i = Len(ready_queue_) + 1
          /\ Len(ready_queue_) + 1 \in DOMAIN ready_queue_'
          /\ ready_queue_'[Len(ready_queue_) + 1] = p
      BY <1>0, <2>0, <3>2, AppendPointer
    <3> HIDE DEF enqueues
    <3>4. \A i \in DOMAIN ready_queue_ : ready_queue_[i] # p
      BY <3>1 DEF Queued
    <3>5. \A o : Queued(o)' <=> Queued(o) \/ o = p
      BY <3>3 DEF Queued
    <3>6. QueueInHeap'
      BY <1>3, <2>0, <3>3 DEF QueueInHeap
    <3>7. \A i, j \in DOMAIN ready_queue_' : ready_queue_'[i] = ready_queue_'[j] => i = j
      BY <2>0, <3>3, <3>4
    <3> QED
      BY <2>2, <3>2, <3>3, <3>5, <3>6, <3>7
  <2> QED
    BY <2>1, <2>2
<1>8. TypeOK'
  BY <1>3, <1>6, <1>7 DEF Shared, TypeOK
<1>9. SessionsAreSound'
  BY <1>1, <1>3, <1>5 DEF Shared, SessionsAreSound, After, Frame
<1>10. TableIsSound'
  <2>1. heap'[p].alive = s.alive /\ heap'[p].remote = heap[p].remote
    BY <1>1, <1>3 DEF After, Frame
  <2>2. ASSUME NEW r \in Remote, tcp_sessions_'[r] # nullptr
        PROVE  LET o == tcp_sessions_'[r]
               IN  o \in DOMAIN heap' /\ heap'[o].alive /\ heap'[o].remote = r
    <3>1. tcp_sessions_'[r] = tcp_sessions_[r] /\ (s.alive \/ r # heap[p].remote)
      BY <1>6, <2>2
    <3>2. /\ tcp_sessions_[r] \in DOMAIN heap /\ heap[tcp_sessions_[r]].alive
          /\ heap[tcp_sessions_[r]].remote = r
      BY <2>2, <3>1 DEF Shared, TableIsSound, Live
    <3> QED
      BY <1>3, <2>1, <3>1, <3>2
  <2>3. ASSUME NEW o \in DOMAIN heap', heap'[o].alive
        PROVE  tcp_sessions_'[heap'[o].remote] = o
    <3>1. CASE o = p
      BY <1>5, <1>6, <2>1, <2>3, <3>1
    <3>2. CASE o # p
      <4>1. /\ heap'[o] = heap[o] /\ heap[o].remote \in Remote
            /\ tcp_sessions_[heap[o].remote] = o
        BY <1>3, <2>3, <3>2 DEF Shared, TableIsSound, SessionsAreSound
      <4>2. heap[o].remote # heap[p].remote
        BY <1>5, <3>2, <4>1
      <4> QED
        BY <1>6, <4>1, <4>2
    <3> QED
      BY <3>1, <3>2
  <2> QED
    BY <2>2, <2>3 DEF TableIsSound, Live
<1>11. QueueIsSound' /\ DanglingHasCause'
  <2>1. heap'[p].alive = s.alive /\ heap'[p].is_in_ready_queue = s.is_in_ready_queue
    BY <1>1, <1>3 DEF Frame
  <2>2. Queued(p) <=> heap[p].is_in_ready_queue
    BY DEF Shared, QueueIsSound
  <2>3. ASSUME NEW o \in DOMAIN heap', heap'[o].alive
        PROVE  heap'[o].is_in_ready_queue <=> Queued(o)'
    <3>1. CASE o = p
      BY <1>7, <2>1, <2>2, <2>3, <3>1 DEF After
    <3>2. CASE o # p
      BY <1>3, <1>7, <2>3, <3>2 DEF Shared, QueueIsSound
    <3> QED
      BY <3>1, <3>2
  <2>4. ASSUME NEW o \in DOMAIN heap', Queued(o)', ~heap'[o].alive
        PROVE  o \in torn' \cup reopened'
    <3>1. CASE o = p
      BY <1>7, <2>1, <2>2, <2>4, <3>1 DEF After
    <3>2. CASE o # p
      BY <1>3, <1>7, <2>4, <3>2 DEF Shared, DanglingHasCause
    <3> QED
      BY <3>1, <3>2
  <2> QED
    BY <1>7, <2>3, <2>4 DEF QueueIsSound, DanglingHasCause
<1> QED
  BY <1>7, <1>8, <1>9, <1>10, <1>11 DEF Shared

\* A session that is created for a remote that has none.
LEMMA CreateInv ==
  ASSUME Shared, NEW r \in Remote, NEW s, SessionInv(s), s.remote = r, s.alive,
         ~s.is_in_ready_queue, Lifecycle(s), create_session(r, s),
         UNCHANGED <<ready_queue_, idle_active, torn, reopened, opens>>,
         receiver' \in Pointer \cup {NoCallback, ListenCallback}, phase' \in Phase
  PROVE  /\ Shared'
         /\ \A p \in DOMAIN heap : p \in DOMAIN heap' /\ heap'[p] = heap[p]
         /\ \A p \in DOMAIN heap' : p \in DOMAIN heap \/ heap'[p] = s
<1>0. /\ Len(heap) \in Nat /\ DOMAIN heap = 1..Len(heap) /\ nullptr \notin DOMAIN heap
      /\ MaxSessions \in Nat /\ heap \in Seq(Session) /\ s \in Session
      /\ DOMAIN heap \subseteq Pointer
  BY HeapFacts, StackAssumption DEF Shared, TypeOK, SessionInv, WellFormed
<1>1. CASE tcp_sessions_[r] # nullptr
  <2>1. heap' = heap /\ tcp_sessions_' = tcp_sessions_
    BY <1>1 DEF create_session
  <2>2. \A p : Queued(p)' <=> Queued(p)
    BY DEF Queued
  <2>3. TypeOK' /\ QueueInHeap' /\ SessionsAreSound'
    BY <2>1 DEF Shared, TypeOK, QueueInHeap, SessionsAreSound
  <2>4. TableIsSound' /\ QueueIsSound' /\ DanglingHasCause'
    BY <2>1, <2>2 DEF Shared, TableIsSound, QueueIsSound, DanglingHasCause, Live
  <2> QED
    BY <2>1, <2>3, <2>4 DEF Shared
<1>2. CASE tcp_sessions_[r] = nullptr
  <2> DEFINE n == Len(heap) + 1
  <2>1. /\ Len(heap) < MaxSessions /\ heap' = Append(heap, s)
        /\ tcp_sessions_' = [tcp_sessions_ EXCEPT ![r] = n]
    BY <1>2 DEF create_session
  <2>2. /\ heap' \in Seq(Session) /\ Len(heap') = n /\ DOMAIN heap' = 1..n
        /\ heap'[n] = s /\ n \in Nat /\ n \in DOMAIN heap' /\ n \notin DOMAIN heap
        /\ \A p \in DOMAIN heap : p \in DOMAIN heap' /\ heap'[p] = heap[p]
        /\ \A p \in DOMAIN heap' : p \in DOMAIN heap \/ p = n
        /\ n # nullptr /\ n \in Pointer
    BY <1>0, <2>1 DEF nullptr, Pointer
  <2> HIDE DEF n
  <2>3. /\ tcp_sessions_' \in [Remote -> Pointer \cup {nullptr}]
        /\ \A q \in Remote :
             tcp_sessions_'[q] = IF q = r THEN n ELSE tcp_sessions_[q]
    BY <2>1, <2>2 DEF Shared, TypeOK
  <2>4. \A p : Queued(p)' <=> Queued(p)
    BY DEF Queued
  <2>5. ~Queued(n)
    BY <2>2 DEF Shared, QueueInHeap, Queued
  <2>6. Len(heap') <= MaxSessions
    BY <1>0, <2>1, <2>2 DEF n
  <2>7. TypeOK' /\ QueueInHeap' /\ SessionsAreSound'
    <3>1. TypeOK'
      BY <2>2, <2>3, <2>6 DEF Shared, TypeOK
    <3>2. QueueInHeap'
      BY <2>2 DEF Shared, QueueInHeap
    <3>3. SessionsAreSound'
      BY <2>2 DEF Shared, SessionsAreSound
    <3> QED
      BY <3>1, <3>2, <3>3
  <2>8. TableIsSound'
    <3>1. ASSUME NEW q \in Remote, tcp_sessions_'[q] # nullptr
          PROVE  LET o == tcp_sessions_'[q]
                 IN  o \in DOMAIN heap' /\ heap'[o].alive /\ heap'[o].remote = q
      <4>1. CASE q = r
        BY <2>2, <2>3, <4>1
      <4>2. CASE q # r
        BY <2>2, <2>3, <3>1, <4>2 DEF Shared, TableIsSound, Live
      <4> QED
        BY <4>1, <4>2
    <3>2. ASSUME NEW o \in DOMAIN heap', heap'[o].alive
          PROVE  tcp_sessions_'[heap'[o].remote] = o
      <4>1. CASE o = n
        BY <2>2, <2>3, <4>1
      <4>2. CASE o # n
        <5>1. /\ o \in DOMAIN heap /\ heap'[o] = heap[o] /\ heap[o].remote \in Remote
              /\ tcp_sessions_[heap[o].remote] = o
          BY <2>2, <3>2, <4>2 DEF Shared, TableIsSound, SessionsAreSound
        <5>2. heap[o].remote # r
          BY <1>0, <1>2, <5>1
        <5> QED
          BY <2>3, <5>1, <5>2
      <4> QED
        BY <4>1, <4>2
    <3> QED
      BY <3>1, <3>2 DEF TableIsSound, Live
  <2>9. QueueIsSound' /\ DanglingHasCause'
    <3>1. \A p \in DOMAIN heap' : heap'[p].alive => (heap'[p].is_in_ready_queue <=> Queued(p)')
      BY <2>2, <2>4, <2>5 DEF Shared, QueueIsSound
    <3>2. QueueIsSound'
      BY <3>1 DEF Shared, QueueIsSound
    <3>3. DanglingHasCause'
      BY <2>2, <2>4, <2>5 DEF Shared, DanglingHasCause
    <3> QED
      BY <3>2, <3>3
  <2> QED
    BY <2>2, <2>7, <2>8, <2>9 DEF Shared
<1> QED
  BY <1>1, <1>2

\* A new session is closed, in no queue and has no 2MSL timer.
LEMMA NewSessionMoves ==
  ASSUME NEW r \in Remote
  PROVE  LET s == NewSession(Local, r, 0)
         IN  /\ SessionInv(s) /\ Lifecycle(s) /\ HasFields(s)
             /\ s.remote = r /\ s.alive /\ s.state = "CLOSED"
             /\ ~s.is_in_ready_queue /\ ~s.user_want_to_close /\ ~s.msl_timer
<1> DEFINE s == NewSession(Local, r, 0)
<1>1. SessionInv(s)
  BY NewSessionInv, StackAssumption, WordArith
<1>2. /\ s.remote = r /\ s.alive /\ s.state = "CLOSED"
      /\ ~s.is_in_ready_queue /\ ~s.user_want_to_close /\ ~s.msl_timer
  BY DEF NewSession
<1> HIDE DEF s
<1> QED
  BY <1>1, <1>2, SessionHasFields DEF Lifecycle, s

\* The datagrams of the remotes are packets.
LEMMA DatagramType ==
  ASSUME NEW r \in Remote, NEW packet \in Datagrams(r)
  PROVE  packet \in myu_tcp_packet /\ packet.valid = TRUE
<1>1. 0 \in Word /\ 1 \in Word /\ 2 \in Word /\ 3 \in Word
  <2>1. Radix \in Nat /\ Radix >= 2 /\ SeqMod = Radix * Radix
    BY SessionAssumption
  <2>2. ASSUME NEW a \in Nat, a >= 2 PROVE a * a >= 4
    BY <2>2
  <2> QED
    BY <2>1, <2>2, WordArith DEF Word
<1>2. Plus(Iss, 1) \in Word /\ Plus(Plus(Iss, 1), 1) \in Word
  <2>1. Iss \in Int /\ 1 \in Int
    BY StackAssumption, WordArith DEF Word
  <2>2. \A w \in Word : w \in Int
    BY WordArith DEF Word
  <2> QED
    BY <2>1, <2>2, WordArith
<1>3. <<>> \in Seq(Byte) /\ <<1>> \in Seq(Byte) /\ BufferCapacity \in Nat /\ r \in Addr
  BY SessionAssumption, StackAssumption DEF Byte
<1>4. /\ {"SYN"} \subseteq TcpFlag /\ {"SYN", "ACK"} \subseteq TcpFlag
      /\ {"ACK"} \subseteq TcpFlag /\ {"FIN", "ACK"} \subseteq TcpFlag
      /\ {"RST"} \subseteq TcpFlag
  BY DEF TcpFlag
<1> DEFINE P(flags, seq, ack, payload) ==
             [src |-> r, flags |-> flags, seq |-> seq, ack |-> ack, payload |-> payload,
              win |-> BufferCapacity, valid |-> TRUE]
<1>5. ASSUME NEW flags \in SUBSET TcpFlag, NEW seq \in Word, NEW ack \in Word,
             NEW payload \in Seq(Byte)
      PROVE  P(flags, seq, ack, payload) \in myu_tcp_packet
             /\ P(flags, seq, ack, payload).valid = TRUE
  BY <1>3 DEF myu_tcp_packet
<1>6. packet \in {P({"SYN"}, 0, 0, <<>>), P({"SYN", "ACK"}, 0, Plus(Iss, 1), <<>>),
                  P({"ACK"}, 1, Plus(Iss, 1), <<>>), P({"ACK"}, 1, Plus(Iss, 1), <<1>>),
                  P({"FIN", "ACK"}, 2, Plus(Iss, 1), <<>>),
                  P({"ACK"}, 3, Plus(Plus(Iss, 1), 1), <<>>), P({"RST"}, 1, 0, <<>>)}
  BY DEF Datagrams
<1>7. /\ P({"SYN"}, 0, 0, <<>>) \in myu_tcp_packet
      /\ P({"SYN", "ACK"}, 0, Plus(Iss, 1), <<>>) \in myu_tcp_packet
      /\ P({"ACK"}, 1, Plus(Iss, 1), <<>>) \in myu_tcp_packet
      /\ P({"ACK"}, 1, Plus(Iss, 1), <<1>>) \in myu_tcp_packet
  <2> HIDE DEF P
  <2> QED
    BY <1>1, <1>2, <1>3, <1>4, <1>5
<1>8. /\ P({"FIN", "ACK"}, 2, Plus(Iss, 1), <<>>) \in myu_tcp_packet
      /\ P({"ACK"}, 3, Plus(Plus(Iss, 1), 1), <<>>) \in myu_tcp_packet
      /\ P({"RST"}, 1, 0, <<>>) \in myu_tcp_packet
  <2> HIDE DEF P
  <2> QED
    BY <1>1, <1>2, <1>3, <1>4, <1>5
<1>9. \A flags, seq, ack, payload : P(flags, seq, ack, payload).valid = TRUE
  OBVIOUS
<1> HIDE DEF P
<1> QED
  BY <1>6, <1>7, <1>8, <1>9

\* The session that listen() creates for a SYN.
LEMMA ListenerMoves ==
  ASSUME NEW r \in Remote, NEW packet \in myu_tcp_packet, packet.valid = TRUE,
         packet.flags = {"SYN"}
  PROVE  LET s == [input(listen(NewSession(Local, r, 0)), packet, Iss)
                     EXCEPT !.out = NothingSent]
         IN  /\ SessionInv(s) /\ Lifecycle(s) /\ s.remote = r /\ s.alive
             /\ ~s.is_in_ready_queue
<1> DEFINE n == NewSession(Local, r, 0)
           l == listen(n)
           p == [l EXCEPT !.peer_usable_window_size = packet.win]
           s == input(l, packet, Iss)
<1>1. /\ SessionInv(n) /\ HasFields(n) /\ n.remote = r /\ n.alive /\ n.state = "CLOSED"
      /\ ~n.is_in_ready_queue /\ ~n.user_want_to_close /\ ~n.msl_timer
  BY NewSessionMoves
<1>2. l = [n EXCEPT !.state = "LISTEN"]
  BY <1>1 DEF listen
<1>3. SessionInv(l)
  BY <1>1, ListenCallInv
<1> HIDE DEF n
<1> HIDE DEF l
<1>4. Moved(l, n, {"LISTEN"}) /\ l.msl_timer = n.msl_timer
  <2> DEFINE b == [n EXCEPT !.state = "LISTEN"]
  <2>1. Moved(b, n, {"LISTEN"}) /\ b.msl_timer = n.msl_timer
    BY <1>1, StateMoves
  <2>2. b = l
    BY <1>2
  <2> HIDE DEF b
  <2> QED
    BY <2>1, <2>2
<1>5. SessionInv(s)
  BY <1>3, InputInv, StackAssumption
<1>6. Frame(p, l) /\ HasFields(p)
  BY <1>4 DEF Moved, HasFields, Watched, Frame
<1>7. s = DispatchOnState(p, packet, Iss)
  BY DEF input, Has
<1> HIDE DEF p
<1>8. p.state = "LISTEN"
  BY <1>4, <1>6 DEF Moved, Frame
<1>9. s = handle_listen(p, packet, Iss)
  BY <1>7, <1>8 DEF DispatchOnState
<1> HIDE DEF s
<1>10. Moved(s, p, {p.state, "SYN_RECEIVED"}) /\ s.msl_timer = p.msl_timer
  BY <1>6, <1>9, ListenMoves
<1>11. Lifecycle(s) /\ s.remote = r /\ s.alive /\ ~s.is_in_ready_queue
  BY <1>1, <1>4, <1>6, <1>8, <1>10 DEF Moved, Frame, Lifecycle
<1> QED
  BY <1>5, <1>11, SentSame DEF Frame, s, l, n

-----------------------------------------------------------------------------
(* Every step keeps the invariant.                                         *)

\* Nothing has been created and nobody waits.
LEMMA InitInv == Init => IInv
<1> SUFFICES ASSUME Init PROVE IInv
  OBVIOUS
<1>1. /\ heap = <<>> /\ DOMAIN heap = {} /\ Len(heap) = 0
      /\ ready_queue_ = <<>> /\ DOMAIN ready_queue_ = {}
      /\ tcp_sessions_ = [r \in Remote |-> nullptr]
      /\ idle_active = FALSE /\ receiver = NoCallback /\ phase = "timers" /\ torn = {}
      /\ reopened = {} /\ opens = 0
  BY DEF Init
<1>2. heap \in Seq(Session) /\ ready_queue_ \in Seq(Pointer)
  BY <1>1
<1>3. TypeOK
  <2>1. tcp_sessions_ \in [Remote -> Pointer \cup {nullptr}]
    BY <1>1
  <2>2. /\ Len(heap) <= MaxSessions /\ torn \subseteq Pointer
        /\ reopened \subseteq Pointer /\ opens \in Nat
    BY <1>1, StackAssumption
  <2>3. /\ idle_active \in BOOLEAN /\ phase \in Phase
        /\ receiver \in Pointer \cup {NoCallback, ListenCallback}
    BY <1>1 DEF Phase
  <2> QED
    BY <1>2, <2>1, <2>2, <2>3 DEF TypeOK
<1>4. QueueInHeap /\ SessionsAreSound /\ QueueIsSound /\ DanglingHasCause
  BY <1>1 DEF QueueInHeap, SessionsAreSound, QueueIsSound, DanglingHasCause
<1>5. TableIsSound
  BY <1>1 DEF TableIsSound
<1> QED
  BY <1>1, <1>3, <1>4, <1>5 DEF IInv, Shared, WaitsSinceIdle

\* Steps that touch neither a session nor the table nor the queue.
LEMMA SharedSame ==
  ASSUME Shared, UNCHANGED <<heap, tcp_sessions_, ready_queue_, idle_active, torn,
                             reopened, opens>>,
         receiver' \in Pointer \cup {NoCallback, ListenCallback}, phase' \in Phase
  PROVE  Shared'
<1>1. \A p : Queued(p)' <=> Queued(p)
  BY DEF Queued
<1>2. TypeOK' /\ QueueInHeap' /\ SessionsAreSound'
  BY DEF Shared, TypeOK, QueueInHeap, SessionsAreSound
<1>3. TableIsSound' /\ QueueIsSound' /\ DanglingHasCause'
  BY <1>1 DEF Shared, TableIsSound, QueueIsSound, DanglingHasCause, Live
<1> QED
  BY <1>2, <1>3 DEF Shared

\* A pointer from the table is that of the remote's live session.
LEMMA TableEntry ==
  ASSUME Shared, NEW r \in Remote, tcp_sessions_[r] # nullptr
  PROVE  LET p == tcp_sessions_[r]
         IN  /\ p \in DOMAIN heap /\ p \in Pointer
             /\ heap[p].alive /\ heap[p].remote = r
             /\ SessionInv(heap[p]) /\ HasFields(heap[p])
             /\ p \in reopened \/ Lifecycle(heap[p])
BY HeapFacts, SessionHasFields DEF Shared, TableIsSound, Live, SessionsAreSound

\* The application queues nobody.
LEMMA ApplicationPhase ==
  ASSUME WaitsSinceIdle, InApplication, phase' = phase, ready_queue_' = ready_queue_
  PROVE  WaitsSinceIdle'
BY DEF WaitsSinceIdle, InApplication

\* connect(), in whatever state the session is: one that has not been closed before
\* has no 2MSL timer, which only TIME_WAIT has, after close().
LEMMA ConnectStep ==
  ASSUME IInv, NEW r \in Remote, Connect(r) PROVE IInv'
<1> DEFINE p == tcp_sessions_[r]
           s == connect(heap[p], Iss)
<1>1. /\ p # nullptr /\ heap[p].state \in ConnectStates /\ Becomes(p, s)
      /\ receiver' = p /\ phase' = phase /\ torn' = torn /\ InApplication
      /\ reopened' = IF heap[p].user_want_to_close THEN reopened \cup {p} ELSE reopened
      /\ opens' = opens + 1
  BY DEF Connect
<1>2. /\ p \in DOMAIN heap /\ p \in Pointer /\ heap[p].alive
      /\ SessionInv(heap[p]) /\ HasFields(heap[p])
      /\ p \in reopened \/ Lifecycle(heap[p])
  BY <1>1, TableEntry DEF IInv
<1> HIDE DEF p
<1>3. SessionInv(s)
  BY <1>1, <1>2, ConnectInv, StackAssumption
<1>4. Moved(s, heap[p], {"SYN_SENT"}) /\ s.msl_timer = heap[p].msl_timer
  BY <1>2, ConnectMoves
<1> HIDE DEF s
<1>5. p \in reopened' \/ Lifecycle(s)
  <2>1. CASE heap[p].user_want_to_close \/ p \in reopened
    BY <1>1, <2>1
  <2>2. CASE ~heap[p].user_want_to_close /\ p \notin reopened
    BY <1>2, <1>4, <2>2 DEF Moved, Lifecycle
  <2> QED
    BY <2>1, <2>2
<1>6. After(p, s) /\ s.alive
  BY <1>2, <1>3, <1>4, <1>5 DEF After, Moved
<1>7. /\ torn' \subseteq Pointer /\ torn \subseteq torn' /\ phase' \in Phase
      /\ reopened' \subseteq Pointer /\ reopened \subseteq reopened' /\ opens' \in Nat
  BY <1>1, <1>2 DEF IInv, Shared, TypeOK
<1>8. Shared'
  BY <1>1, <1>2, <1>6, <1>7, BecomesInv DEF IInv
<1>9. ready_queue_' = ready_queue_
  BY <1>1, <1>4 DEF Becomes, Moved
<1> QED
  BY <1>1, <1>8, <1>9, ApplicationPhase DEF IInv

\* close() of a session that the application has.
LEMMA CloseStep ==
  ASSUME IInv, NEW r \in Remote, Close(r) PROVE IInv'
<1> DEFINE p == tcp_sessions_[r]
           s == close(heap[p])
<1>1. /\ p # nullptr /\ Becomes(p, s)
      /\ receiver' = receiver /\ phase' = phase /\ torn' = torn /\ InApplication
      /\ reopened' = reopened /\ opens' = opens
  BY DEF Close
<1>2. /\ p \in DOMAIN heap /\ heap[p].alive
      /\ SessionInv(heap[p]) /\ HasFields(heap[p])
      /\ p \in reopened \/ Lifecycle(heap[p])
  BY <1>1, TableEntry DEF IInv
<1> HIDE DEF p
<1>3. SessionInv(s)
  BY <1>2, CloseInv
<1>4. /\ s.remote = heap[p].remote /\ s.alive = heap[p].alive
      /\ s.is_in_ready_queue = heap[p].is_in_ready_queue
      /\ Lifecycle(heap[p]) => Lifecycle(s)
  BY <1>2, CloseMoves
<1> HIDE DEF s
<1>5. After(p, s)
  BY <1>1, <1>2, <1>3, <1>4 DEF After
<1>6. /\ reopened' \subseteq Pointer /\ reopened \subseteq reopened' /\ opens' \in Nat
      /\ torn' \subseteq Pointer /\ torn \subseteq torn' /\ phase' \in Phase
      /\ receiver' \in Pointer \cup {NoCallback, ListenCallback}
  BY <1>1 DEF IInv, Shared, TypeOK
<1>7. Shared'
  BY <1>1, <1>2, <1>4, <1>5, <1>6, BecomesInv DEF IInv
<1>8. ready_queue_' = ready_queue_
  BY <1>1, <1>4 DEF Becomes
<1> QED
  BY <1>1, <1>7, <1>8, ApplicationPhase DEF IInv

\* create_session() for a server.
LEMMA CreateStep ==
  ASSUME IInv, NEW r \in Remote, CreateSession(r) PROVE IInv'
<1> DEFINE s == NewSession(Local, r, 0)
<1>1. /\ create_session(r, s) /\ InApplication
      /\ UNCHANGED <<ready_queue_, idle_active, receiver, phase, torn, reopened, opens>>
  BY DEF CreateSession
<1>2. SessionInv(s) /\ Lifecycle(s) /\ s.remote = r /\ s.alive /\ ~s.is_in_ready_queue
  BY NewSessionMoves
<1> HIDE DEF s
<1>3. receiver' \in Pointer \cup {NoCallback, ListenCallback} /\ phase' \in Phase
  BY <1>1 DEF IInv, Shared, TypeOK
<1>4. Shared'
  BY <1>1, <1>2, <1>3, CreateInv DEF IInv
<1> QED
  BY <1>1, <1>4, ApplicationPhase DEF IInv

\* stop_and_destory leaves no live session, and every pointer in torn.
LEMMA StopStep ==
  ASSUME IInv, stop_and_destory PROVE IInv'
<1> DEFINE q(p) == [on_closed_cb(close(heap[p])) EXCEPT !.out = NothingSent]
<1>1. /\ heap' = [p \in DOMAIN heap |-> q(p)]
      /\ tcp_sessions_' = [r \in Remote |-> nullptr] /\ torn' = torn \cup DOMAIN heap
      /\ UNCHANGED <<ready_queue_, idle_active, receiver, phase, reopened, opens>>
      /\ InApplication
  BY DEF stop_and_destory
<1>2. /\ Len(heap) \in Nat /\ DOMAIN heap = 1..Len(heap) /\ DOMAIN heap \subseteq Pointer
      /\ Len(heap) <= MaxSessions
  BY HeapFacts DEF IInv, Shared, TypeOK
<1>3. ASSUME NEW p \in DOMAIN heap
      PROVE  SessionInv(q(p)) /\ ~q(p).alive /\ q(p) \in Session
  <2> DEFINE c == close(heap[p])
             d == on_closed_cb(c)
  <2>1. SessionInv(heap[p])
    BY DEF IInv, Shared, SessionsAreSound
  <2>2. SessionInv(c)
    BY <2>1, CloseInv
  <2> HIDE DEF c
  <2>3. SessionInv(d) /\ d.alive = FALSE
    BY <2>2, OnClosedInv, OnClosedMoves DEF SessionInv
  <2> HIDE DEF d
  <2>4. LET e == [d EXCEPT !.out = NothingSent] IN SessionInv(e) /\ Frame(e, d)
    BY <2>3, SentSame
  <2> QED
    BY <2>3, <2>4 DEF Frame, SessionInv, WellFormed, c, d
<1> HIDE DEF q
<1>4. /\ heap' \in Seq(Session) /\ Len(heap') = Len(heap) /\ DOMAIN heap' = DOMAIN heap
      /\ \A p \in DOMAIN heap : SessionInv(heap'[p]) /\ ~heap'[p].alive
  BY <1>1, <1>2, <1>3
<1>5. TypeOK'
  BY <1>1, <1>2, <1>4 DEF IInv, Shared, TypeOK
<1>6. QueueInHeap' /\ SessionsAreSound'
  BY <1>1, <1>4 DEF IInv, Shared, QueueInHeap, SessionsAreSound
<1>7. TableIsSound'
  BY <1>1, <1>4 DEF TableIsSound
<1>8. QueueIsSound' /\ DanglingHasCause'
  BY <1>1, <1>4 DEF IInv, Shared, QueueIsSound, DanglingHasCause
<1>9. Shared'
  BY <1>5, <1>6, <1>7, <1>8 DEF Shared
<1> QED
  BY <1>1, <1>9, ApplicationPhase DEF IInv

\* _on_idle_dispatch serves every session that waits, and nobody waits then.
LEMMA IdleStep ==
  ASSUME IInv, _on_idle_dispatch PROVE IInv'
<1>1. /\ phase' = "app" /\ phase' \in Phase
      /\ UNCHANGED <<tcp_sessions_, receiver, torn, reopened, opens>>
  BY DEF _on_idle_dispatch, Phase
<1>2. /\ Len(heap) \in Nat /\ DOMAIN heap = 1..Len(heap) /\ Len(heap) <= MaxSessions
      /\ heap \in Seq(Session) /\ receiver' \in Pointer \cup {NoCallback, ListenCallback}
  BY <1>1, HeapFacts DEF IInv, Shared, TypeOK
<1>3. CASE ~idle_active
  <2>1. UNCHANGED <<heap, tcp_sessions_, ready_queue_, idle_active, torn, reopened, opens>>
    BY <1>1, <1>3 DEF _on_idle_dispatch
  <2>2. ready_queue_ = <<>>
    BY <1>3 DEF IInv, Shared, QueueIsSound
  <2>3. Shared'
    BY <1>1, <1>2, <2>1, SharedSame DEF IInv
  <2> QED
    BY <1>1, <2>1, <2>2, <2>3 DEF IInv, WaitsSinceIdle
<1>4. CASE idle_active
  <2> DEFINE q(p) == IF Live(p) /\ Queued(p) THEN Serve(heap[p]) ELSE heap[p]
  <2>1. /\ heap' = [p \in DOMAIN heap |-> q(p)]
        /\ ready_queue_' = <<>> /\ idle_active' = FALSE
    BY <1>4 DEF _on_idle_dispatch, Dispatch, Queued
  <2>2. ASSUME NEW p \in DOMAIN heap
        PROVE  /\ SessionInv(q(p)) /\ q(p) \in Session
               /\ q(p).alive = heap[p].alive
               /\ heap[p].alive => /\ q(p).remote = heap[p].remote
                                   /\ p \in reopened \/ Lifecycle(q(p))
                                   /\ ~q(p).is_in_ready_queue
    <3>1. /\ SessionInv(heap[p])
          /\ heap[p].alive => p \in reopened \/ Lifecycle(heap[p])
      BY DEF IInv, Shared, SessionsAreSound
    <3>2. CASE Live(p) /\ Queued(p)
      <4> DEFINE r == Serve(heap[p])
      <4>1. /\ SessionInv(r) /\ r.remote = heap[p].remote
            /\ r.alive = heap[p].alive /\ r.is_in_ready_queue = FALSE
            /\ Lifecycle(heap[p]) => Lifecycle(r)
        BY <3>1, <3>2, ServeMoves DEF Live
      <4>2. q(p) = r
        BY <3>2
      <4> HIDE DEF r, q
      <4> QED
        BY <3>1, <4>1, <4>2 DEF SessionInv, WellFormed
    <3>3. CASE ~(Live(p) /\ Queued(p))
      <4>1. q(p) = heap[p]
        BY <3>3
      <4>2. heap[p].alive => ~heap[p].is_in_ready_queue
        BY <3>3 DEF IInv, Shared, QueueIsSound, Live
      <4> HIDE DEF q
      <4> QED
        BY <3>1, <4>1, <4>2 DEF SessionInv, WellFormed
    <3> QED
      BY <3>2, <3>3
  <2> HIDE DEF q
  <2>3. /\ heap' \in Seq(Session) /\ Len(heap') = Len(heap) /\ DOMAIN heap' = DOMAIN heap
        /\ \A p \in DOMAIN heap : heap'[p] = q(p)
    BY <1>2, <2>1, <2>2
  <2>4. TypeOK'
    <3>1. <<>> \in Seq(Pointer) /\ FALSE \in BOOLEAN
      OBVIOUS
    <3> QED
      BY <1>1, <1>2, <2>1, <2>3, <3>1 DEF IInv, Shared, TypeOK
  <2>5. QueueInHeap' /\ SessionsAreSound'
    BY <1>1, <2>1, <2>2, <2>3 DEF IInv, Shared, QueueInHeap, SessionsAreSound
  <2>6. TableIsSound'
    BY <1>1, <2>2, <2>3 DEF IInv, Shared, TableIsSound, Live
  <2>7. QueueIsSound' /\ DanglingHasCause'
    <3>1. \A p : ~Queued(p)'
      BY <2>1 DEF Queued
    <3> QED
      BY <2>1, <2>2, <2>3, <3>1 DEF QueueIsSound, DanglingHasCause
  <2> QED
    BY <1>1, <2>1, <2>4, <2>5, <2>6, <2>7 DEF IInv, Shared, WaitsSinceIdle
<1> QED
  BY <1>3, <1>4

\* input() of the session p.
LEMMA InputStep ==
  ASSUME IInv, phase = "udp", UNCHANGED <<receiver, phase, reopened, opens>>,
         NEW p \in DOMAIN heap, heap[p].alive,
         NEW packet \in myu_tcp_packet, Input(p, packet)
  PROVE  IInv'
<1> DEFINE s == input(heap[p], packet, Iss)
           q == [s EXCEPT !.out = NothingSent]
<1>1. /\ Becomes(p, s)
      /\ torn' = IF s.alive \/ ~Has(packet, "RST") THEN torn ELSE torn \cup {p}
  BY DEF Input
<1>2. /\ SessionInv(heap[p]) /\ p \in Pointer
      /\ p \in reopened \/ (Lifecycle(heap[p]) /\ Polled(heap[p]))
  BY HeapFacts DEF IInv, Shared, SessionsAreSound, WaitsSinceIdle
<1>3. SessionInv(s)
  BY <1>2, InputInv, StackAssumption
<1>4. /\ s.remote = heap[p].remote
      /\ s.alive => /\ p \in reopened \/ (Lifecycle(s) /\ Polled(s))
                    /\ heap[p].is_in_ready_queue => s.is_in_ready_queue
      /\ ~s.alive => /\ ~s.is_in_ready_queue
                     /\ Has(packet, "RST") \/ heap[p].state = "LAST_ACK"
  BY <1>2, InputMoves
<1> HIDE DEF s
<1>5. After(p, s)
  BY <1>3, <1>4 DEF After
<1>6. /\ torn' \subseteq Pointer /\ torn \subseteq torn' /\ phase' \in Phase
      /\ receiver' \in Pointer \cup {NoCallback, ListenCallback}
      /\ reopened' \subseteq Pointer /\ opens' \in Nat
  BY <1>1, <1>2 DEF IInv, Shared, TypeOK
<1>7. s.alive \/ p \in torn' \cup reopened' \/ ~heap[p].is_in_ready_queue
  BY <1>1, <1>2, <1>4 DEF Polled
<1>8. Shared'
  BY <1>1, <1>5, <1>6, <1>7, BecomesInv DEF IInv
<1>9. WaitsSinceIdle'
  <2>1. heap' = [heap EXCEPT ![p] = q] /\ DOMAIN heap' = DOMAIN heap
    BY <1>1 DEF Becomes
  <2>2. (Polled(q) <=> Polled(s)) /\ q.alive = s.alive
    BY <1>3, SentSame DEF Frame
  <2> HIDE DEF q
  <2>3. heap'[p] = q /\ \A o \in DOMAIN heap : o # p => heap'[o] = heap[o]
    BY <2>1
  <2> QED
    BY <1>4, <2>1, <2>2, <2>3 DEF IInv, WaitsSinceIdle
<1> QED
  BY <1>8, <1>9 DEF IInv

\* A datagram.
LEMMA ReceiveStep ==
  ASSUME IInv, NEW r \in Remote, on_uv_recv(r) PROVE IInv'
<1>1. PICK packet \in Datagrams(r) :
        IF receiver = ListenCallback THEN ListenReceive(r, packet) ELSE ConnectReceive(packet)
  BY DEF on_uv_recv
<1>2. /\ packet \in myu_tcp_packet /\ packet.valid = TRUE
      /\ phase = "udp" /\ UNCHANGED <<receiver, phase, reopened, opens>>
      /\ receiver' \in Pointer \cup {NoCallback, ListenCallback} /\ phase' \in Phase
  BY DatagramType DEF on_uv_recv, IInv, Shared, TypeOK
<1>3. CASE UNCHANGED <<heap, tcp_sessions_, ready_queue_, idle_active, torn>>
  BY <1>2, <1>3, SharedSame DEF IInv, WaitsSinceIdle
<1>4. CASE Live(receiver) /\ Input(receiver, packet)
  BY <1>2, <1>4, InputStep DEF Live
<1>5. CASE tcp_sessions_[r] # nullptr /\ Input(tcp_sessions_[r], packet)
  BY <1>2, <1>5, InputStep, TableEntry DEF IInv
<1>6. CASE /\ packet.flags = {"SYN"}
           /\ \E s \in {input(listen(NewSession(Local, r, 0)), packet, Iss)} :
                create_session(r, [s EXCEPT !.out = NothingSent])
           /\ UNCHANGED <<ready_queue_, idle_active, torn>>
  <2> DEFINE s == [input(listen(NewSession(Local, r, 0)), packet, Iss)
                     EXCEPT !.out = NothingSent]
  <2>1. create_session(r, s)
    BY <1>6
  <2>2. SessionInv(s) /\ Lifecycle(s) /\ s.remote = r /\ s.alive /\ ~s.is_in_ready_queue
    BY <1>2, <1>6, ListenerMoves
  <2> HIDE DEF s
  <2>3. /\ Shared'
        /\ \A p \in DOMAIN heap : p \in DOMAIN heap' /\ heap'[p] = heap[p]
        /\ \A p \in DOMAIN heap' : p \in DOMAIN heap \/ heap'[p] = s
    BY <1>2, <1>6, <2>1, <2>2, CreateInv DEF IInv
  <2> QED
    BY <1>2, <2>2, <2>3 DEF IInv, WaitsSinceIdle, Polled
<1> QED
  BY <1>1, <1>3, <1>4, <1>5, <1>6 DEF ListenReceive, ConnectReceive, Lookup

\* A retransmission timer.
LEMMA TimeoutStep ==
  ASSUME IInv, NEW p \in Pointer, Timeout(p) PROVE IInv'
<1>1. PICK t \in heap[p].timers : Becomes(p, handle_retransmit(heap[p], t))
  BY DEF Timeout
<1>2. /\ p \in DOMAIN heap /\ heap[p].alive /\ phase = "timers"
      /\ UNCHANGED <<receiver, phase, torn, reopened, opens>>
  BY DEF Timeout, Live
<1>3. /\ SessionInv(heap[p]) /\ HasFields(heap[p]) /\ WellFormed(heap[p])
      /\ p \in reopened \/ Lifecycle(heap[p])
  BY <1>2, SessionHasFields DEF IInv, Shared, SessionsAreSound, SessionInv
<1> DEFINE s == handle_retransmit(heap[p], t)
<1>4. SessionInv(s)
  <2>1. WellFormed(s) /\ Same(s, heap[p])
    BY <1>3, RetransmitType, KeepsSame
  <2>2. heap[p].state \notin {"CLOSED", "LISTEN"}
    BY <1>1, <1>3 DEF SessionInv, Quiet
  <2> HIDE DEF s
  <2> QED
    BY <1>3, <2>1, <2>2, SameInv
<1>5. Frame(s, heap[p])
  BY <1>3, RetransmitFrame
<1> HIDE DEF s
<1>6. After(p, s) /\ s.alive
  BY <1>2, <1>3, <1>4, <1>5 DEF After, Frame, Lifecycle
<1>7. /\ torn' \subseteq Pointer /\ torn \subseteq torn' /\ phase' \in Phase
      /\ receiver' \in Pointer \cup {NoCallback, ListenCallback}
      /\ reopened' \subseteq Pointer /\ opens' \in Nat
  BY <1>2 DEF IInv, Shared, TypeOK
<1>8. Shared'
  BY <1>1, <1>2, <1>6, <1>7, BecomesInv DEF IInv, s
<1> QED
  BY <1>2, <1>8 DEF IInv, WaitsSinceIdle

\* The 2MSL timer runs in TIME_WAIT only, where no session waits in the queue, or
\* in a session that connect() has reused.
LEMMA MslTimeoutStep ==
  ASSUME IInv, NEW p \in Pointer, MslTimeout(p) PROVE IInv'
<1> DEFINE s == handle_2msl_timeout(heap[p])
           u == [heap[p] EXCEPT !.state = "CLOSED"]
<1>1. /\ p \in DOMAIN heap /\ heap[p].alive /\ heap[p].msl_timer /\ phase = "timers"
      /\ Becomes(p, s) /\ UNCHANGED <<receiver, phase, torn, reopened, opens>>
  BY DEF MslTimeout, Live
<1>2. /\ SessionInv(heap[p]) /\ HasFields(heap[p])
      /\ p \in reopened \/ Lifecycle(heap[p])
  BY <1>1, SessionHasFields DEF IInv, Shared, SessionsAreSound
<1>3. SessionInv(s)
  BY <1>2, EraseInv
<1>4. s.remote = heap[p].remote /\ s.alive = FALSE /\ s.is_in_ready_queue = FALSE
  <2>1. u.remote = heap[p].remote
    BY <1>2, StateMoves DEF Moved
  <2>2. s = on_closed_cb(u)
    BY DEF handle_2msl_timeout
  <2> HIDE DEF u, s
  <2> QED
    BY <2>1, <2>2, OnClosedMoves
<1> HIDE DEF s
<1>5. p \in reopened' \/ ~heap[p].is_in_ready_queue
  BY <1>1, <1>2 DEF Lifecycle
<1>6. After(p, s)
  BY <1>3, <1>4 DEF After
<1>7. /\ torn' \subseteq Pointer /\ torn \subseteq torn' /\ phase' \in Phase
      /\ receiver' \in Pointer \cup {NoCallback, ListenCallback}
      /\ reopened' \subseteq Pointer /\ opens' \in Nat
  BY <1>1 DEF IInv, Shared, TypeOK
<1>8. Shared'
  BY <1>1, <1>5, <1>6, <1>7, BecomesInv DEF IInv
<1> QED
  BY <1>1, <1>8 DEF IInv, WaitsSinceIdle

\* The loop goes on: from the application's callbacks, which find and leave the
\* queue empty, to the sockets.
LEMMA PhaseStep ==
  ASSUME IInv, NextPhase PROVE IInv'
<1>1. /\ UNCHANGED <<heap, tcp_sessions_, ready_queue_, idle_active, receiver, torn,
                     reopened, opens>>
      /\ phase' \in Phase /\ phase' # "app" /\ (phase' = "udp" => phase = "app")
  BY DEF NextPhase, Phase, IInv, Shared, TypeOK
<1>2. Shared'
  BY <1>1, SharedSame DEF IInv, Shared, TypeOK
<1>3. phase = "app" => \A p : ~Queued(p)
  BY DEF IInv, WaitsSinceIdle, Queued
<1>4. phase' = "udp" => \A p \in DOMAIN heap' : heap'[p].alive => Polled(heap'[p])
  BY <1>1, <1>3 DEF IInv, Shared, QueueIsSound, Polled
<1> QED
  BY <1>1, <1>2, <1>4 DEF IInv, WaitsSinceIdle

\* Every step of the stack keeps the invariant.
LEMMA StepInv == IInv /\ [Next]_vars => IInv'
<1> SUFFICES ASSUME IInv, [Next]_vars PROVE IInv'
  OBVIOUS
<1>1. CASE Listen
  <2>1. /\ UNCHANGED <<heap, tcp_sessions_, ready_queue_, idle_active, torn, reopened, opens>>
        /\ receiver' = ListenCallback /\ phase' = phase /\ InApplication
    BY <1>1 DEF Listen
  <2>2. Shared'
    BY <2>1, SharedSame DEF IInv, Shared, TypeOK
  <2> QED
    BY <2>1, <2>2, ApplicationPhase DEF IInv
<1>2. CASE stop_and_destory
  BY <1>2, StopStep
<1>3. CASE \E r \in Remote : CreateSession(r) \/ Connect(r) \/ Close(r)
  BY <1>3, CreateStep, ConnectStep, CloseStep
<1>4. CASE _on_idle_dispatch
  BY <1>4, IdleStep
<1>5. CASE NextPhase
  BY <1>5, PhaseStep
<1>6. CASE \E r \in Remote : on_uv_recv(r)
  BY <1>6, ReceiveStep
<1>7. CASE \E p \in Pointer : Timeout(p) \/ MslTimeout(p)
  BY <1>7, TimeoutStep, MslTimeoutStep
<1>8. CASE UNCHANGED vars
  <2>1. UNCHANGED <<heap, tcp_sessions_, ready_queue_, idle_active, receiver, phase, torn,
                    reopened, opens>>
    BY <1>8 DEF vars
  <2>2. Shared'
    BY <2>1, SharedSame DEF IInv, Shared, TypeOK
  <2> QED
    BY <2>1, <2>2 DEF IInv, WaitsSinceIdle
<1> QED
  BY <1>1, <1>2, <1>3, <1>4, <1>5, <1>6, <1>7, <1>8 DEF Next, Application, EventLoop

-----------------------------------------------------------------------------
(* What follows.                                                           *)

\* The types hold in every reachable state: a session of the stack keeps its
\* types whatever its remote and its application do.
THEOREM StackTypes == Spec => []TypeOK
<1>1. IInv => TypeOK
  BY DEF IInv, Shared
<1> QED
  BY <1>1, InitInv, StepInv, PTL DEF Spec

\* tcp_sessions_ holds exactly the live sessions, each under its remote, for any
\* number of remotes: find() never returns freed memory and no session leaks.
THEOREM TableSound == Spec => []TableIsSound
<1>1. IInv => TableIsSound
  BY DEF IInv, Shared
<1> QED
  BY <1>1, InitInv, StepInv, PTL DEF Spec

\* ready_queue_ holds no session twice, is_in_ready_queue_ tells which live
\* sessions are in it, and the idle handle is active while it is not empty.
THEOREM QueueSound == Spec => []QueueIsSound
<1>1. IInv => QueueIsSound
  BY DEF IInv, Shared
<1> QED
  BY <1>1, InitInv, StepInv, PTL DEF Spec

\* A pointer in ready_queue_ dangles only after a RST that came while its session
\* waited, after stop_and_destory, or after a connect() that reused a session its
\* application had closed: the two regular ends of a connection that has its session
\* for itself, LAST_ACK and the 2MSL timer, never leave one.
THEOREM DanglingOnlyWithCause == Spec => []DanglingHasCause
<1>1. IInv => DanglingHasCause
  BY DEF IInv, Shared
<1> QED
  BY <1>1, InitInv, StepInv, PTL DEF Spec

\* A datagram reaches at most one session, which the callback has chosen.
LEMMA OneInput ==
  ASSUME IInv, NEW r \in Remote, on_uv_recv(r), NEW p \in DOMAIN heap, heap'[p] # heap[p]
  PROVE  /\ heap[p].alive
         /\ IF receiver = ListenCallback THEN heap[p].remote = r ELSE p = receiver
         /\ \E packet \in Datagrams(r) : Input(p, packet)
<1>1. PICK packet \in Datagrams(r) :
        IF receiver = ListenCallback THEN ListenReceive(r, packet) ELSE ConnectReceive(packet)
  BY DEF on_uv_recv
<1>2. ASSUME NEW o \in DOMAIN heap, Input(o, packet) PROVE o = p
  BY <1>2 DEF Input, Becomes
<1>3. CASE receiver = ListenCallback
  <2>1. CASE tcp_sessions_[r] # nullptr /\ Input(tcp_sessions_[r], packet)
    BY <1>2, <1>3, <2>1, TableEntry DEF IInv
  <2>2. CASE \E s : heap' = Append(heap, s)
    <3>1. PICK s : heap' = Append(heap, s)
      BY <2>2
    <3>2. heap \in Seq(Session) /\ p \in 1..Len(heap)
      BY HeapFacts DEF IInv, Shared, TypeOK
    <3> QED
      BY <3>1, <3>2
  <2> QED
    BY <1>1, <1>3, <2>1, <2>2 DEF ListenReceive, Lookup, create_session
<1>4. CASE receiver # ListenCallback
  BY <1>1, <1>2, <1>4 DEF ConnectReceive, Live
<1> QED
  BY <1>3, <1>4

\* A datagram changes one session at most, for any number of sessions: the sender's
\* under listen()'s callback, the one that installed it under connect()'s.
THEOREM DatagramToOne == Spec => OneSessionPerDatagram
<1>1. IInv /\ [Next]_vars =>
        [\A r \in Remote : on_uv_recv(r) =>
           \A p \in DOMAIN heap : heap'[p] # heap[p] =>
             IF receiver = ListenCallback THEN heap[p].remote = r ELSE p = receiver]_vars
  BY OneInput
<1> QED
  BY <1>1, InitInv, StepInv, PTL DEF Spec, OneSessionPerDatagram

\* A session that a datagram ends takes no running 2MSL timer with it, unless the
\* datagram is a RST, which has stopped it, or connect() has reused the session: in
\* LAST_ACK no 2MSL timer runs.
THEOREM LastAckIsTimerless == Spec => LastAckLeavesNoTimer
<1>1. ASSUME IInv, [Next]_vars, NEW p \in DOMAIN heap, heap[p].alive, heap[p].msl_timer,
             phase = "udp", ~heap'[p].alive
      PROVE  p \in torn' \cup reopened
  <2>1. heap'[p] # heap[p]
    BY <1>1
  <2>2. PICK r \in Remote : on_uv_recv(r)
    BY <1>1, <2>1 DEF Next, Application, EventLoop, Listen, stop_and_destory, CreateSession,
      Connect, Close, InApplication, _on_idle_dispatch, NextPhase, Timeout, MslTimeout, vars
  <2>3. PICK packet \in Datagrams(r) : Input(p, packet)
    BY <1>1, <2>1, <2>2, OneInput
  <2> DEFINE s == input(heap[p], packet, Iss)
             q == [s EXCEPT !.out = NothingSent]
  <2>4. /\ heap' = [heap EXCEPT ![p] = q]
        /\ torn' = IF s.alive \/ ~Has(packet, "RST") THEN torn ELSE torn \cup {p}
    BY <2>3 DEF Input, Becomes
  <2>5. SessionInv(heap[p]) /\ (p \in reopened \/ Lifecycle(heap[p]))
    BY <1>1 DEF IInv, Shared, SessionsAreSound
  <2>6. q.alive = s.alive
    BY <2>5, <1>1, InputInv, SentSame, StackAssumption, DatagramType DEF Frame
  <2>7. ~s.alive => Has(packet, "RST") \/ heap[p].state = "LAST_ACK"
    BY <1>1, <2>5, InputMoves
  <2> HIDE DEF s, q
  <2>8. heap'[p] = q
    BY <1>1, <2>4
  <2> QED
    BY <1>1, <2>4, <2>5, <2>6, <2>7, <2>8 DEF Lifecycle
<1>2. IInv /\ [Next]_vars =>
        [\A p \in DOMAIN heap :
           heap[p].alive /\ heap[p].msl_timer /\ phase = "udp" /\ ~heap'[p].alive
             => p \in torn' \cup reopened]_vars
  BY <1>1
<1> QED
  BY <1>2, InitInv, StepInv, PTL DEF Spec, LastAckLeavesNoTimer

=============================================================================
