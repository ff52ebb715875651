------------------------------ MODULE TcpStack ------------------------------
(***************************************************************************)
(* One stack with several sessions (core/stack.h): the session table, the  *)
(* queue of sessions that are ready for the application, the idle handle   *)
(* and the receive callback of the UDP driver.  The sessions are those of  *)
(* TcpSession.tla; the remotes are an environment that sends any packet of *)
(* a connection at any time, late and repeated ones included.              *)
(*                                                                         *)
(* A session is memory that pointers refer to: the table owns it, the      *)
(* ready queue and the callback that connect() installs only point to it.  *)
(* A pointer is a position in heap, which only grows.                      *)
(*                                                                         *)
(* uv_run goes round its phases: the idle handle, then the sockets, then   *)
(* the timers.  The application's own handles are served beside the socket *)
(* or beside the timers, never between two datagrams that the driver reads *)
(* in one go.                                                              *)
(***************************************************************************)
EXTENDS TcpSession

CONSTANTS
  Local,         \* the address of this stack
  Remote,        \* the addresses of the peers
  Servers,       \* the remotes to which the application connects
  Iss,           \* what _generate_initial_seq returns
  MaxSessions,   \* bound: the sessions created in the life of the stack
  MaxOpens       \* bound: the calls of connect()

ASSUME StackAssumption ==
  /\ Addr = {Local} \cup Remote /\ Local \notin Remote
  /\ Servers \subseteq Remote /\ Iss \in Word
  /\ MaxSessions \in Nat /\ MaxOpens \in Nat

VARIABLES
  heap,           \* every session that was ever created; alive until destroyed
  tcp_sessions_,  \* the pointer of each remote's session, or nullptr
  ready_queue_,
  idle_active,    \* uv_is_active(idle_handle_)
  receiver,       \* the callback of the driver: none yet, listen()'s, or the
                  \* session whose connect() installed its own
  phase,          \* the phase of uv_run
  torn,           \* history: the sessions destroyed by a RST or by stop_and_destory
  reopened,       \* history: the sessions on which connect() was called after close()
  opens           \* the number of calls of connect()

vars == <<heap, tcp_sessions_, ready_queue_, idle_active, receiver, phase, torn, reopened, opens>>

nullptr == 0

Pointer == 1..MaxSessions

NoCallback == 0

ListenCallback == MaxSessions + 1

Phase == {"idle", "app", "udp", "timers"}

Live(p) == p \in DOMAIN heap /\ heap[p].alive

Init ==
  /\ heap = <<>>
  /\ tcp_sessions_ = [r \in Remote |-> nullptr]
  /\ ready_queue_ = <<>>
  /\ idle_active = FALSE
  /\ receiver = NoCallback
  /\ phase = "timers"
  /\ torn = {}
  /\ reopened = {}
  /\ opens = 0

-----------------------------------------------------------------------------
(* What a handler of a session does to the stack.                          *)

\* Mutant: the idle handle is not started.
EnqueueOnly(p) == ready_queue_' = Append(ready_queue_, p) /\ UNCHANGED idle_active

enqueue_ready_session(p) ==
  ready_queue_' = Append(ready_queue_, p) /\ idle_active' = TRUE

\* Mutant: the entry of an erased session stays in the table.
KeepEntry(r) == tcp_sessions_

Erase(r) == [tcp_sessions_ EXCEPT ![r] = nullptr]

\* The session p becomes s: _trigger_event has queued it if it was not queued,
\* and on_closed_cb_ has erased it from the table if it is gone.
Becomes(p, s) ==
  /\ heap' = [heap EXCEPT ![p] = [s EXCEPT !.out = NothingSent]]
  /\ tcp_sessions_' = IF s.alive THEN tcp_sessions_ ELSE Erase(heap[p].remote)
  /\ IF s.is_in_ready_queue /\ ~heap[p].is_in_ready_queue
       THEN enqueue_ready_session(p)
       ELSE UNCHANGED <<ready_queue_, idle_active>>

\* try_emplace keeps the session that the remote already has; the new one is
\* destroyed on return.  Otherwise s is the new session after what the caller
\* goes on to do with it.
create_session(r, s) ==
  IF tcp_sessions_[r] # nullptr
    THEN UNCHANGED <<heap, tcp_sessions_>>
    ELSE /\ Len(heap) < MaxSessions
         /\ heap' = Append(heap, s)
         /\ tcp_sessions_' = [tcp_sessions_ EXCEPT ![r] = Len(heap) + 1]

-----------------------------------------------------------------------------
(* The application, in its own callbacks.                                  *)

InApplication == phase \in {"app", "timers"}

Listen ==
  /\ InApplication
  /\ receiver' = ListenCallback
  /\ UNCHANGED <<heap, tcp_sessions_, ready_queue_, idle_active, phase, torn, reopened, opens>>

CreateSession(r) ==
  /\ InApplication /\ r \in Servers
  /\ create_session(r, NewSession(Local, r, 0))
  /\ UNCHANGED <<ready_queue_, idle_active, receiver, phase, torn, reopened, opens>>

\* connect() on the session that create_session returns.  Neither of the two looks at
\* its state; ConnectStates is the application's choice.
Connect(r) ==
  LET p == tcp_sessions_[r]
  IN  /\ InApplication /\ r \in Servers /\ p # nullptr
      /\ heap[p].state \in ConnectStates
      /\ opens < MaxOpens /\ opens' = opens + 1
      /\ Becomes(p, connect(heap[p], Iss))
      /\ receiver' = p
      /\ reopened' = IF heap[p].user_want_to_close THEN reopened \cup {p} ELSE reopened
      /\ UNCHANGED <<phase, torn>>

\* get_session() and close().
Close(r) ==
  LET p == tcp_sessions_[r]
  IN  /\ InApplication /\ p # nullptr
      /\ Becomes(p, close(heap[p]))
      /\ UNCHANGED <<receiver, phase, torn, reopened, opens>>

\* Every session is closed and then destroyed, in whatever state close() left it:
\* its FIN is sent, and nobody is left to see the answer.
\* ready_queue_ keeps its pointers, the driver keeps its callback, and the loop
\* is run on.  UdpDriver::stop() takes the address of its pointer for a handle:
\* undefined behaviour, of which the model keeps the outcome that uv_is_closing
\* reads a flag that is set.
stop_and_destory ==
  /\ InApplication
  /\ heap' = [p \in DOMAIN heap |->
                [on_closed_cb(close(heap[p])) EXCEPT !.out = NothingSent]]
  /\ tcp_sessions_' = [r \in Remote |-> nullptr]
  /\ torn' = torn \cup DOMAIN heap
  /\ UNCHANGED <<ready_queue_, idle_active, receiver, phase, reopened, opens>>

-----------------------------------------------------------------------------
(* The idle handle.                                                        *)

\* set_in_ready_queue(false) and the application logic, read_all().
Serve(s) == [read_all([s EXCEPT !.is_in_ready_queue = FALSE]) EXCEPT !.out = NothingSent]

\* Mutant: one session is served per turn.
DispatchOne ==
  /\ heap' = [p \in DOMAIN heap |->
                IF p = Head(ready_queue_) /\ Live(p) THEN Serve(heap[p]) ELSE heap[p]]
  /\ ready_queue_' = Tail(ready_queue_)
  /\ idle_active' = (ready_queue_' # <<>>)

\* Mutant: the application reads, and the session still counts as queued.
DispatchKeepingFlag ==
  /\ idle_active' = FALSE
  /\ heap' = [p \in DOMAIN heap |->
                IF Live(p) /\ \E i \in DOMAIN ready_queue_ : ready_queue_[i] = p
                  THEN [read_all(heap[p]) EXCEPT !.out = NothingSent] ELSE heap[p]]
  /\ ready_queue_' = <<>>

\* _on_idle_dispatch takes the whole queue.  A pointer to a session that has
\* been destroyed is used all the same: undefined behaviour, of which the model
\* keeps the outcome that nothing else changes.
Dispatch ==
  /\ idle_active' = FALSE
  /\ heap' = [p \in DOMAIN heap |->
                IF Live(p) /\ \E i \in DOMAIN ready_queue_ : ready_queue_[i] = p
                  THEN Serve(heap[p]) ELSE heap[p]]
  /\ ready_queue_' = <<>>

_on_idle_dispatch ==
  /\ phase = "idle"
  /\ IF idle_active THEN Dispatch ELSE UNCHANGED <<heap, ready_queue_, idle_active>>
  /\ phase' = "app"
  /\ UNCHANGED <<tcp_sessions_, receiver, torn, reopened, opens>>

-----------------------------------------------------------------------------
(* A datagram.                                                             *)

\* The packets of a connection that sends one byte from sequence number 0 on.
\* Its FIN may come without the byte, and every packet may come at any time.
Datagrams(r) ==
  LET P(flags, seq, ack, payload) ==
        [src |-> r, flags |-> flags, seq |-> seq, ack |-> ack, payload |-> payload,
         win |-> BufferCapacity, valid |-> TRUE]
      synced == Plus(Iss, 1)
  IN  {P({"SYN"}, 0, 0, <<>>), P({"SYN", "ACK"}, 0, synced, <<>>),
       P({"ACK"}, 1, synced, <<>>), P({"ACK"}, 1, synced, <<1>>),
       P({"FIN", "ACK"}, 2, synced, <<>>),
       P({"ACK"}, 3, Plus(synced, 1), <<>>), P({"RST"}, 1, 0, <<>>)}

\* The session p gets the packet.
Input(p, packet) ==
  \E s \in {input(heap[p], packet, Iss)} :
    /\ Becomes(p, s)
    /\ torn' = IF s.alive \/ ~Has(packet, "RST") THEN torn ELSE torn \cup {p}

\* Mutant: the first session of the table gets the packet.
AnySession(r) ==
  IF \E q \in Remote : tcp_sessions_[q] # nullptr
    THEN tcp_sessions_[CHOOSE q \in Remote : tcp_sessions_[q] # nullptr] ELSE nullptr

\* tcp_sessions_.find
Lookup(r) == tcp_sessions_[r]

\* The callback of listen(): the sender's session, a new one for a SYN, or a
\* RST, which changes nothing here.
ListenReceive(r, packet) ==
  \/ /\ Lookup(r) # nullptr
     /\ Input(Lookup(r), packet)
  \/ /\ Lookup(r) = nullptr /\ packet.flags = {"SYN"}
     /\ \E s \in {input(listen(NewSession(Local, r, 0)), packet, Iss)} :
          create_session(r, [s EXCEPT !.out = NothingSent])
     /\ UNCHANGED <<ready_queue_, idle_active, torn>>
  \/ /\ Lookup(r) = nullptr /\ packet.flags # {"SYN"}
     /\ UNCHANGED <<heap, tcp_sessions_, ready_queue_, idle_active, torn>>

\* The callback of connect() does not look at the sender, and it outlives the
\* session: undefined behaviour, kept as the outcome that nothing changes.
ConnectReceive(packet) ==
  IF Live(receiver)
    THEN Input(receiver, packet)
    ELSE UNCHANGED <<heap, tcp_sessions_, ready_queue_, idle_active, torn>>

on_uv_recv(r) ==
  /\ phase = "udp" /\ receiver # NoCallback
  /\ \E packet \in Datagrams(r) :
       IF receiver = ListenCallback THEN ListenReceive(r, packet) ELSE ConnectReceive(packet)
  /\ UNCHANGED <<receiver, phase, reopened, opens>>

-----------------------------------------------------------------------------
(* Timers and the loop.                                                    *)

Timeout(p) ==
  /\ phase = "timers" /\ Live(p)
  /\ \E t \in heap[p].timers : Becomes(p, handle_retransmit(heap[p], t))
  /\ UNCHANGED <<receiver, phase, torn, reopened, opens>>

MslTimeout(p) ==
  /\ phase = "timers" /\ Live(p) /\ heap[p].msl_timer
  /\ Becomes(p, handle_2msl_timeout(heap[p]))
  /\ UNCHANGED <<receiver, phase, torn, reopened, opens>>

NextPhase ==
  /\ phase # "idle"
  /\ phase' = CASE phase = "app" -> "udp" [] phase = "udp" -> "timers"
                [] phase = "timers" -> "idle"
  /\ UNCHANGED <<heap, tcp_sessions_, ready_queue_, idle_active, receiver, torn, reopened, opens>>

Application ==
  Listen \/ stop_and_destory \/ \E r \in Remote : CreateSession(r) \/ Connect(r) \/ Close(r)

EventLoop ==
  \/ _on_idle_dispatch \/ NextPhase
  \/ \E r \in Remote : on_uv_recv(r)
  \/ \E p \in Pointer : Timeout(p) \/ MslTimeout(p)

Next == Application \/ EventLoop

Spec == Init /\ [][Next]_vars

\* uv_run goes round and round: no phase lasts for ever.
Fairness == WF_vars(_on_idle_dispatch) /\ WF_vars(NextPhase)

FairSpec == Spec /\ Fairness

-----------------------------------------------------------------------------
(* Properties.                                                             *)

Queued(p) == \E i \in DOMAIN ready_queue_ : ready_queue_[i] = p

TypeOK ==
  /\ heap \in Seq(Session) /\ Len(heap) <= MaxSessions
  /\ tcp_sessions_ \in [Remote -> Pointer \cup {nullptr}]
  /\ ready_queue_ \in Seq(Pointer)
  /\ idle_active \in BOOLEAN
  /\ receiver \in Pointer \cup {NoCallback, ListenCallback}
  /\ phase \in Phase
  /\ torn \subseteq Pointer /\ reopened \subseteq Pointer
  /\ opens \in Nat

\* The table holds a live session of the right remote or nothing, and it holds
\* every live session: none leaks and find() never returns freed memory.
TableIsSound ==
  /\ \A r \in Remote : tcp_sessions_[r] # nullptr =>
       Live(tcp_sessions_[r]) /\ heap[tcp_sessions_[r]].remote = r
  /\ \A p \in DOMAIN heap : heap[p].alive => tcp_sessions_[heap[p].remote] = p

\* No session waits twice; a live session is in the queue exactly when its flag
\* is_in_ready_queue_ says so; and the idle handle runs while anyone waits.
QueueIsSound ==
  /\ \A i, j \in DOMAIN ready_queue_ : ready_queue_[i] = ready_queue_[j] => i = j
  /\ \A p \in DOMAIN heap : heap[p].alive => (heap[p].is_in_ready_queue <=> Queued(p))
  /\ ready_queue_ # <<>> => idle_active

\* _on_idle_dispatch uses a pointer to a destroyed session only if a RST has come
\* in the same poll phase as the data, after stop_and_destory, or when connect()
\* has reused a session that its application had closed, whose 2MSL timer or
\* user_want_to_close_ of the old connection then ends the new one.  A session that
\* ends in the regular way (LAST_ACK, 2MSL) has left the queue before, since the
\* idle handle runs between any two polls and empties the queue.
DanglingHasCause ==
  \A p \in DOMAIN heap : Queued(p) /\ ~heap[p].alive => p \in torn \cup reopened

\* The destructor frees _2msl_timer as it is, and handle_last_ack stops no timer
\* but that of the FIN.  The 2MSL timer is not running then, unless connect() has
\* reused a session in TIME_WAIT; a RST (torn) stops every timer first.
LastAckLeavesNoTimer ==
  [][\A p \in DOMAIN heap :
       heap[p].alive /\ heap[p].msl_timer /\ phase = "udp" /\ ~heap'[p].alive
         => p \in torn' \cup reopened]_vars

\* A datagram changes one session at most: under listen()'s callback the sender's,
\* under connect()'s the one that installed it, whoever the sender is, although
\* stack.h:113-115 says that the session of the remote address is opened.
OneSessionPerDatagram ==
  [][\A r \in Remote : on_uv_recv(r) =>
       \A p \in DOMAIN heap : heap'[p] # heap[p] =>
         IF receiver = ListenCallback THEN heap[p].remote = r ELSE p = receiver]_vars

\* What a session has received is read by the application, unless the session
\* is destroyed first: the way from _trigger_event over ready_queue_ and the idle
\* handle to the application logic loses nothing.
ReceivedIsRead ==
  \A p \in Pointer :
    (Live(p) /\ heap[p].recv_buffer # <<>>) ~> ~(Live(p) /\ heap[p].recv_buffer # <<>>)

=============================================================================
