# A verification of MyuTCP in TLA+

MyuTCP is a user-space TCP over UDP, written in C++ on top of libuv. This
directory holds TLA+ modules that model its protocol code, TLC configurations
that check small instances, and proofs that TLAPS checks for every value of the
constants. Source paths are relative to the repository (`src/core/tcb.cpp`,
`include/myutcp/core/stack.h`, ...).

## 1. The system

Everything runs on one libuv loop: a handler (a datagram, a timer, the idle
handle) or a call of the application runs to completion before the next starts.
Concurrency is therefore the interleaving of handlers of two stacks, of the
application's calls and of the network, not of threads.

| Component | State | Operations | Used by |
|---|---|---|---|
| `TcpSession` (tcb.h, tcb.cpp, sw.h) | state, send and receive window, both buffers, `ooo_map_`, `inflight_packets_`, timers, `ssthresh_`, counter of duplicate ACKs, `user_want_to_close_` | `connect`, `listen`, `send`, `recv`, `read_all`, `close`, `input` and one handler per state, `_handle_retransmit`, `_handle_2msl_timeout` | application, stack, timers |
| `TcpStack` (stack.h) | session table, `ready_queue_`, idle handle | `create_session`, `listen`, `_on_idle_dispatch`, `run`, `stop_and_destory` | application, loop |
| `TimerManager` | one `uv_timer_t` per sequence number, the 2MSL timer | `start_timer`, `stop_timer`, `drop_timer_up_to`, `stop_all_timers` | session |
| `UdpDriver` | socket, receive callback | `send_packet` (with simulated loss), `on_uv_recv` | session, stack |
| `RingQueue` (RingBuffer.h) | array, head, tail, size | `push`, `push_batch`, `try_push`, `peek_range`, `pop_front`, `pop`, `clear`, ... | session |
| Checksum (tcb.cpp) | none | `_calculate_checksum`, `_verify_checksum` | session |
| Sequence numbers, address parsing, logging | none | `_generate_initial_seq`, ... | session, stack |

How they interact: `connect()` and `TcpStack::listen()` install the driver's
receive callback; it calls `input()`, which dispatches on the state. A handler
sends packets through the driver, starts and stops timers whose callbacks call
back into the session, and tells the stack, through `on_data_cb_` and
`on_closed_cb_`, to queue the session for the application or to erase it.

What is hard here: packets lost, repeated or out of order at every point of
handshake, transfer and teardown; acknowledgements that race timeouts; a second
connection attempt that meets packets of the first; both sides opening or
closing at once; full buffers; unsigned arithmetic at its limits; wake-ups of
the application.

What makes each part correct:

* session: the peer's application reads a prefix of what was sent; nothing is
  released before the peer has it; what is unacknowledged is timed; both sides
  agree on the sequence numbers; data, handshake and teardown get through; no
  timer runs in a closed session;
* stack: the table holds exactly the live sessions, the queue and the flags of
  the sessions agree, nobody in the queue has been destroyed, what a session
  receives is read, and a datagram reaches the right session;
* timers: the map refers to no handle that has been closed, every timer that may
  fire can be found, none is lost without need; retransmission ends; TIME_WAIT
  outlasts the peer;
* ring: it is a bounded FIFO queue;
* checksum: it is the one's complement sum, and damage is noticed.

## 2. Modules

| Module | What it is |
|---|---|
| `TcpSession` | the session as a record, and every handler as an operator from the session before to the session after; no variables |
| `TcpConnection` | two stacks with one session each, joined by UDP: variables, actions, fairness, properties |
| `ByteStreams` | what the connection promises the two applications: a stream of bytes in each direction |
| `TcpStack` | one stack with several sessions: table, ready queue, idle handle, receive callback, phases of the loop |
| `TimerManager` | the timers of a session as libuv handles |
| `TimerSet` | what the timers promise: a set of running timers, which is how `TcpSession` sees them |
| `RingQueue` | the ring: array, head, tail, size, one action per member function |
| `BoundedFifo` | what the ring promises: a bounded queue |
| `Checksum` | the two checksum functions, octet by octet |
| `MCConnection`, `MCStack`, `MCTimers`, `MCRingQueue` | constants of the TLC runs |
| `MCDuplicateAcks` | `TcpConnection` with an observer that counts duplicate acknowledgements, for one run |
| `TcpSessionProofs` | lemmas: every handler preserves the invariant of a session |
| `TcpSessionMoves` | lemmas: what every handler does to the state, the queue flag, the life and the receive buffer of a session |
| `TcpSessionStream` | lemmas: what every handler does to the numbers of a session, and what it puts into packets and timers |
| `TcpConnectionProofs`, `TcpStackProofs`, `TimerManagerProofs`, `RingQueueProofs`, `ChecksumProofs` | theorems about the module of that name |

`TcpSession` is separate so that `TcpConnection` (a network with faults, one
session per stack) and `TcpStack` (many sessions, an arbitrary peer) share it,
and so that the lemmas about handlers mention no variable.
Operators have the names of the functions (`_handle_ack` is `handle_ack`) and
are defined in the order of dependence. Operators introduced by a comment
"Mutant" are faulty variants: replacing the definition that follows by such a
variant must break a property, which shows that the property depends on it.

### Session and code

A session record has the fields of the class. A handler returns the record after
it, and packets it sends are appended to the field `out`, from where
`TcpConnection!Commit` puts them on the network in the same step, so a handler
is one atomic step as in the code. Abstractions:

* A byte is its position in the application's stream, so the receiver's
  buffer shows whether something is missing, repeated or swapped.
* A word has `SeqMod` values (2^32 in the code, 64 in the runs); additions and
  subtractions are modulo `SeqMod`, comparisons on plain values, as with
  `uint32_t`. `htonl` swaps two octets of radix `Radix`; the keys of
  `inflight_packets_` are in network order, as in the code.
* Flags are sets of names. Ports, offsets and options are never read and are
  left out. `valid` says whether `_verify_checksum` accepts the packet; damage in
  transit makes it false.
* A running timer carries what its callback captured: packet, count and
  destination. Data timers have the destination `DefaultAddr`, because
  `_send_payload_packet` leaves the address arguments of `_handle_retransmit` at
  their defaults (127.0.0.1:9999). A timer that is stopped is gone;
  `TimerManager` has the handles, and implements this view of them.
* `on_closed_cb` erases the session; the destructor ends its timers. `valid` is
  what `Checksum` computes.
* The loop that drains `ooo_map_` would spin if the receive buffer were full;
  the operator stops there. The map is always empty (section 5), so neither
  happens.
* Round-trip clocks are written and never used; they are left out.

### Connection and code

| Action | Code |
|---|---|
| `Connect`, `Send`, `Recv`, `Close` | the application's calls; `connect()` looks at no state, so `Connect` is open in every state of `ConnectStates`, the application's choice; `recv()` and `read_all()` close the session at the end of the peer's stream |
| `Dispatch` | `_on_idle_dispatch`: leave the ready queue, call the application, which reads everything (`Readers`) |
| `Timeout`, `MslTimeout` | the callbacks of the timers |
| `Deliver` | `on_uv_recv` and the callback: to the session, to a new session (`listen()` got a SYN), to nobody, or refused with a RST |
| `Lose`, `Corrupt`, `Duplicate`, `Reorder` | UDP, each within a budget |

`accepted`, `delivered` and `abandoned` are history variables: what `send()`
took, what the application read, whether a packet was given up.

`ByteStreams` is the view of the applications: bytes are written, arrive and are
read as long as the side has a session (`live`), and what has arrived is only added to
until the session ends. The refinement (`TcpConnection!Stream`) maps `live` to the
session being in `tcp_sessions_`, what is written to `accepted`, what has arrived to
the number of bytes read or in `recv_buffer`, and what is read to `delivered`;
packets, timers and states are hidden. `Write` is `send()`, `Arrive` a packet that
`_handle_incoming_packet` takes, `Read` is `recv()` or the idle handle, `End` the erasing
of a session by a RST, the last ACK, the 2MSL timer or `recv()` at the end of the
stream, `Begin` a SYN for which `listen()` makes a new session.

There is no clock. A timer expires only when no datagram is under way, since
the shortest timeout is a second; among the timers of a session the one with the
fewest restarts goes first, since each restart doubles the time; the 2MSL timer
(120 s) goes after all retransmissions (31 s). The budget `early` lets timers
expire against these rules. A timer may thus be late, never early, unless the
budget pays for it.

The callback of `connect()` keeps calling a session that has been erased, which
is undefined behaviour. The model keeps one outcome: the freed session still
reads as CLOSED and ignores the packet (`ToNobody`).

### Stack and code

`heap` holds every session ever created, and a pointer is a position in it, so a
pointer that outlives its session is visible: the session it points to is no
longer `alive`. `tcp_sessions_`, `ready_queue_` and the callback of the driver
(`receiver`) hold pointers.

| Action | Code |
|---|---|
| `Listen`, `CreateSession`, `Connect`, `Close`, `stop_and_destory` | calls of the application; `Connect` is `connect()` on the session that `create_session()` returns, in any state of `ConnectStates`; `Close` is `get_session()` with `close()` |
| `_on_idle_dispatch` | takes the whole queue, leaves the ready queue for each session, the application reads everything |
| `on_uv_recv` | the callback of `listen()` (find, new session for a SYN, refuse) or that of `connect()`, which calls its own session whoever the sender is |
| `Timeout`, `MslTimeout` | the callbacks of the timers |
| `NextPhase` | `uv_run` goes from idle handles to sockets to timers |

`torn` and `reopened` are history: the sessions destroyed by a RST or by
`stop_and_destory`, and those on which `connect()` was called after `close()`.

The remotes are an environment: at any time each may send any packet of a
connection that transfers one byte (`Datagrams`), so loss, repetition and
reordering need no budget. The application's own handles run beside the sockets
or beside the timers, but not between the datagrams of one poll: `uv__udp_recvmsg`
reads them in one go.

Undefined behaviour keeps one outcome each: a dangling pointer in `ready_queue_`
and the callback of an erased session change nothing else; `UdpDriver::stop()`,
which casts the address of its pointer to a handle, finds the handle closing, so
the socket stays open.

### Timers and code

`mgr` is `TimerManager` with the handles it allocates: the map `timers_` and, for
each handle, whether its memory is free or the timer is active, stopped or
closing; `msl` says that the loop will fire `_2msl_timer`. Every member function is
an operator of its name. The session calls them in any order (`StartTimer`,
`DropTimerUpTo`, ...), its own callback gives up or restarts (`GiveUp`,
`Retransmit`), the callback of `uv_close` frees the handle, and a session ends in one
of four ways: by a RST, by the last ACK, by the 2MSL timer, by
`stop_and_destory`. Only the first and the third stop the 2MSL timer; whether it can
run in the other two is a question of the session's state, which `TcpStack` answers
(`LastAckLeavesNoTimer`). The refinement maps the handles to the set of sequence numbers
whose entry is an active handle.

### Checksum and code

`_calculate_checksum` zeroes the field, and both functions add the words of the
header and of the payload (`AddWord`, `AddOctet` for the last octet of an odd
number), fold the carries (`Fold`), and store the complement or compare it
(`Store`, `Return`). On the wire one octet may change (`Damage`); the RST of
`TcpStack::listen()` is sent without a checksum (`SendZeroed`). Octets have `Radix`
values. `total` and `intact` are history.

## 3. Runs

Deadlock is not checked where the system rightly comes to rest: a connection once
the budgets are used up and the timers are gone, a packet that has been
verified, timers whose manager has been destroyed. State counts are rounded.

| Run (cfg) | Bounds | Shows |
|---|---|---|
| Transfer | 3 bytes, one per call, with one damaged, one repeated, one late datagram and one early timeout; 610,000 states | `StreamPrefix`, `WindowsAgree`, `AckedWasReceived`, `OldestIsTimed`, `FastRetransmitUnreachable`, `StreamSpec` (refinement) |
| Duplex | both sides write through buffers of one byte (3 and 1 bytes) and read with `recv()` and the idle handle; the client may close, also in SYN_SENT, and connect again with another number, also before it is answered; 382,000 states | `TypeOK`, `StreamPrefix` with full buffers, `NoLostWakeup`, `InflightIsBuffered`, `ClosedIsQuiet`, `StreamSpec` (refinement) |
| Recovery | any one datagram lost, any one repeated, 2 bytes, the client closes; server at the default address; fair; 21,500 states | `ReliableDelivery`, `TrafficEnds`, `TimeWaitProtects`, `HandshakeCompletesIfLossless`, `TeardownCompletes` |
| Stack | two remotes, two sessions in the life of the stack, the application may connect to one of the remotes, twice: first, on an open session, or in TIME_WAIT; fair; 361,000 states | `TableIsSound`, `QueueIsSound`, `DanglingHasCause`, `LastAckLeavesNoTimer`, `OneSessionPerDatagram`, `ReceivedIsRead` |
| Timers | three sequence numbers, four handles; 5,600 states | `MapIsSound`, `ActiveIsMapped`, `MslEndsWithSession`, `LostOnlyByRestart`, `TimerSetSpec` (refinement) |
| Checksum | octets of four values, headers of two words, up to three octets of payload; 176,000 states | `SumIsEndAround`, `AcceptsExactlyIntact`, `AcceptsMultiples` |
| RingQueue | three cells, three values, batches up to the capacity and beyond; 1,500 states | `RingInv`, `FifoSpec` (refinement) |

The runs of the connection use two stacks, `SeqMod` 64 and buffers of 1 to 3
bytes; the stack uses `SeqMod` 16 and a buffer of one byte.

Why the bounds are enough to be interesting: one lost, one repeated and one late
packet at any place reach every branch of every handler that a well-behaved peer
can reach; after the first byte the window is two bytes, so the other two bytes
of Transfer are in flight together, with a gap, a packet ahead of it, or a
partial acknowledgement; buffers of one byte make full buffers common;
`MAX_RETRANSMIT_COUNT` 2 or 3 allows both a retransmission and giving up. Two
sessions suffice for a datagram or a pointer to meet the wrong one. Three
numbers and four handles let an entry be overwritten while a handle of it is
lost and another closing. Two calls of `connect()` (`MaxOpens`) let the second find the
session that the first has left. `ConnectStates` says in which states the application makes
it; the theorems of the stack, and of the connection `TypeCorrect`, `NoReassembly`, `QuietWhenClosed`
and `WakeupsArrive`, hold for any. Payloads of up to three octets have an odd and an even
number of them, and six words of 16 values carry several times.

Fairness of the connection (`FairSpec`) is weak fairness of `Deliver`, `Dispatch`,
`Timeout` and `MslTimeout` of each stack: `uv_run` serves every readable socket,
every idle handle and every expired timer, again and again. Fairness of the
stack is weak fairness of `_on_idle_dispatch` and of `NextPhase`: `uv_run` goes round
its phases, and no phase lasts for ever. The application is never forced to call
anything, and faults are never forced to happen.

`InflightIsBuffered` holds as long as one side listens: after a simultaneous
open the extra SYN-ACK is in flight and in no buffer (section 4).
`ReliableDelivery` and `TeardownCompletes` depend on the environment: they hold in
Recovery and fail in runs of the next section. `HandshakeCompletes` fails as soon
as a datagram is lost, so Recovery checks it on the condition that none was.

## 4. Where the code departs from its documentation

Each of these runs ends with a counterexample.

| Run (cfg) | What happens | Documentation |
|---|---|---|
| ClaimDataRetransmit | lost data is sent again to 127.0.0.1:9999, whoever the peer is (tcb.cpp:352, tcb.h:167) | README.md:10, reliable transmission |
| ClaimHandshakeLoss | when the last ACK of the handshake is lost, `handle_established` ignores the repeated SYN-ACK, and the server stays in SYN_RECEIVED | README.md:9 |
| ClaimSimultaneousClose | both sides close: both go from FIN_WAIT_1 to CLOSE_WAIT and answer each other's ACKs for ever; no session is erased | README.md:9 |
| ClaimWrap | once `send_next_` has wrapped, every acknowledgement fails the range test, which compares plain integers | tcb.cpp:131 |
| ClaimFastRetransmit | a packet is lost, the peer acknowledges three times the data before it, and nothing is sent: the counter of `_handle_ack` is behind a test that a repeated acknowledgement fails (tcb.cpp:132) | README.md:11, fast retransmit; tcb.cpp:168-169 |

Seen while modelling, present in the model, and without a run of their own:

* once a timeout has shrunk the window below what is in flight, the unsigned
  allowance wraps and the whole buffer is sent (tcb.cpp:431);
* `_handle_try_send` does not look at `peer_usable_window_size_` (tcb.h:122);
* `drop_timer_up_to(ack - 1)` keeps the timer of an acknowledged packet of one
  byte (tcb.cpp:133-135);
* packets stay in `inflight_packets_`, whose keys are in network byte order
  (tcb.cpp:349 against 147);
* data ahead of a gap is dropped, although tcb.h:151-152 says that it is put in
  `ooo_map_`: it is kept only within the receive window, which is one byte long and
  never grows (tcb.cpp:22-26 and 241; the theorem `NoReassembly`);
* `close()` stops all timers, sends the FIN in the place of the data that the window has
  held back, and discards that data (tcb.cpp:664-674); tcb.h:119 says that it waits until
  the send buffer is empty;
* `close()` in SYN_RECEIVED goes to CLOSED and never calls `on_closed_cb_` (tcb.cpp:684),
  although stack.h:76 says that a closed session is erased; it stays in the table and
  swallows every later SYN of its remote;
* `send()` looks at no state: after `close()` it takes bytes that are never sent
  (tcb.cpp:508);
* a FIN that overtakes data ends the stream early (tcb.cpp:877-882);
* the RST that `listen()` sends has no checksum and is discarded (stack.h:136);
* a RST in the same poll phase as data erases a session that is in `ready_queue_`
  (stack.h:80), and `_on_idle_dispatch` then uses freed memory; so does every
  dispatch after `stop_and_destory`, which clears the table and leaves the queue
  (stack.h:159);
* the receive callback that `connect()` installs (tcb.cpp:638) does not look at the
  sender: where stack.h:113-115 says that the session of the remote address gets the
  datagram, the session that connected gets it (`OneSessionPerDatagram`). The callback
  outlives its session and then calls a destroyed one;
* `stop_and_destory` calls `UdpDriver::stop()`, which takes the address of its
  pointer to the handle for the handle; the socket is not closed, so the loop
  goes on and a stack that listens creates sessions again;
* each retransmission leaves a stopped handle that nobody closes
  (TimerManager.cpp:104), so `uv_loop_close` finds the loop busy;
* `_2msl_timer` is freed without `uv_close` (TimerManager.cpp:119). Although
  tcb.h:126-127 says that all timers are stopped when a session is closed, it can still be
  running then: after `stop_and_destory`, since `close()` ignores TIME_WAIT, and in
  LAST_ACK after a `connect()` in TIME_WAIT;
* `create_session` returns the session that the remote already has, in whatever
  state it is, and `connect()` (tcb.cpp:633) does not look at the state either and
  resets only the numbers. Connecting again in TIME_WAIT reuses a session whose 2MSL
  timer goes on: it may erase the new connection, also while the session waits in
  `ready_queue_`, since timers are served before the idle handle (`DanglingHasCause`
  names this case); or the new connection goes on to LAST_ACK and is erased there with
  the timer running (`LastAckLeavesNoTimer`). A session that has called `close()` once
  keeps `user_want_to_close_`;
* a session that is connected again while it is open also keeps its buffers: what the old
  connection had not sent is sent on the new one, so that what the peer reads is no
  longer the stream from its first byte on. When the client of the connection may connect
  again in any state, TLC finds `StreamPrefix`, `AckedWasReceived`, `StreamSpec` and `TeardownCompletes` violated. No
  document says what `connect()` promises then, so the runs of the connection leave this out;
* in the example server the branch that reports the peer's closure is never
  reached, since `read_all()` closes the session first;
* two exchanged words, and any change of the sum by a multiple of 0xFFFF, pass the
  checksum (this is RFC 1071's limit, stated by `AcceptsMultiples`);
* after a timeout with an even window `ssthresh_` becomes the window plus one
  (tcb.cpp:389);
* when the ACK of a FIN is lost, the peer's own FIN finds FIN_WAIT_1 and the
  session stays in CLOSE_WAIT;
* after a simultaneous open the SYN-ACK takes a sequence number of its own that
  the peer does not count, and no data is accepted (tcb.cpp:726-732).

## 5. Proofs

`tlapm` proves, for every value of the constants that satisfies the assumptions:

| Theorem | Statement |
|---|---|
| `TypeCorrect` | `Spec => []TypeOK` of the connection: types, and no buffer above its capacity |
| `NoFastRetransmit` | `Spec => []FastRetransmitUnreachable`: the duplicate counter never exceeds 1 (if only closed sessions are connected) |
| `NoReassembly` | `Spec => []ReassemblyUnreachable`: `ooo_map_` is always empty |
| `QuietWhenClosed` | `Spec => []ClosedIsQuiet`: no timer in a closed or listening session |
| `StreamsArePrefixes` | `Spec => []StreamPrefix`: what an application reads is a prefix of what the peer wrote |
| `InflightBuffered` | `Spec => []InflightIsBuffered`: an established session has no more in flight than in its send buffer |
| `AckedIsReceived` | `Spec => []AckedWasReceived`: on the first connection, what a send buffer has given up the peer has received |
| `WindowsInStep` | `Spec => []WindowsAgree`: on the first connection, `recv_next_` lies between the peer's `send_unack_` and `send_next_` |
| `StreamsImplemented` | `Spec => StreamSpec`: the connection implements `ByteStreams`, step by step, and no step loses a received byte unless it ends the session (one connection of the client) |
| `OldestTimed` | `Spec => [](FirstConnection => OldestIsTimed)`: on the first connection, the oldest unacknowledged packet of an established session has a timer, unless one was given up |
| `WakeupsArrive` | `Spec => []NoLostWakeup`: whoever has something to read is in the ready queue |
| `RingInvariant` | `Spec => []RingInv` of the ring |
| `RingImplementsFifo` | the ring implements `BoundedFifo`, step by step |
| `Invariant` | the map of timers and the states of the handles fit together |
| `NoUseAfterClose` | `Spec => []MapIsSound`: no closed or deleted handle is touched |
| `NoStrayTimer` | `Spec => []ActiveIsMapped`: every timer that may fire can be found |
| `NoStrayMsl` | `Spec => []MslEndsWithSession`: a RST and the 2MSL timer leave no 2MSL timer behind |
| `OnlyRestartsLose` | `Spec => LostOnlyByRestart`: a handle is lost only when its entry is overwritten |
| `HandlesImplementTimerSet` | the handles implement `TimerSet` |
| `StackTypes` | `Spec => []TypeOK` of the stack |
| `TableSound` | `Spec => []TableIsSound`: the table holds exactly the live sessions |
| `QueueSound` | `Spec => []QueueIsSound`: queue, flags and idle handle agree |
| `DanglingOnlyWithCause` | `Spec => []DanglingHasCause`: a queued session is erased only by a RST, by `stop_and_destory`, or after a `connect()` that followed `close()` |
| `LastAckIsTimerless` | `Spec => LastAckLeavesNoTimer`: no last ACK erases a session with a running 2MSL timer, unless `connect()` has reused it |
| `DatagramToOne` | `Spec => OneSessionPerDatagram`: a datagram changes one session at most |
| `OneOctetShows` | `Spec => []AcceptsExactlyIntact`: what was calculated is accepted, and refused after any change of one octet |
| `LoopsAddEndAround` | `Spec => []SumIsEndAround`: the loops compute the one's complement sum |
| `VerifyTestsTheSum` | `Spec => []AcceptsMultiples`: what the checksum accepts, for octets of any radix and packets of any size |

Assumptions: `SessionAssumption` (a word is two octets, buffers are smaller than
the sequence space), `ConnectionAssumption` (two stacks, budgets and bounds are
naturals), `StackAssumption` (the stack is none of its remotes), `TimerAssumption`
(sequence numbers are naturals, no handle is the null handle), `ChecksumAssumption`
(an octet has two values at least, the header is a whole number of words and the
checksum is one of them) and the
ring's capacity is positive. The proofs put no bound on bytes, faults, opens,
remotes, sessions, timers or sizes of packets.

The five theorems about what is in packets have hypotheses of their own, stated in
`TcpConnection` and evaluated by TLC on the constants of every run of the
connection (`MCConnection!StreamHypothesis`) but Duplex, where the client may call
`connect()` again before it is answered; the properties hold there too. `InflightBuffered` supposes
`ClientServer`: one stack connects, only with a closed session (`ConnectsClosed`, which
`NoFastRetransmit` supposes too), and the other listens; after a simultaneous open
it fails (section 4). `StreamsArePrefixes` supposes `StreamAssumption`: also that two
initial sequence numbers are further apart than the streams are long (`Apart`) and
that no stream is as long as there are sequence numbers. The code draws its numbers
at random and does not guarantee this; a packet of an earlier attempt whose number
falls into the present stream would be taken for a part of it. `AckedIsReceived`,
`WindowsInStep`, `StreamsImplemented` and `OldestTimed` suppose `StreamAssumption` and
`MaxOpens <= 1`. With a second open the first two fail: the RST that `close()` sends in SYN_SENT may arrive late and end
the server's session of the second attempt, and a repeated SYN starts another one;
if all initial sequence numbers come out as before, it accepts the client's
acknowledgements, is established, and has none of the data that the client has
already released. (TLC finds this in 17 steps with `Duplex.cfg` when one datagram
may be late and one repeated; the run `duplex` has neither and leaves the two
properties out.) `StreamsImplemented` fails for a like reason: the late RST ends a
server's session whose data is on its way; once another session of the server has
begun, with nothing written, that data reaches the client. (`duplex` checks
`StreamSpec` with two opens and a network without faults, where it holds.)
`OldestTimed` says `FirstConnection => OldestIsTimed`: the client is in its first
connection (SYN_SENT or ESTABLISHED) or has not opened yet. While the client is
established this holds of itself. For the server it is needed: after the end of
the client's session a repeated SYN may start a second session of the server with the same
initial number and other segments, and an old acknowledgement may then fall inside
one of them.

The inductive invariant of the connection, `IInv`, is `TypeOK` and, for each
session, `SessionInv`:

* the record is well formed and its buffers fit;
* `ooo_map = {}`: a packet is kept only if `recv_next < seq < recv_next + 1`
  (modulo `SeqMod`), which no word satisfies (`NothingInWindow`);
* `DupInv`: the counter of duplicates is 0 or 1, it is 0 before the connection
  is established, and in ESTABLISHED it is 1 only when `last_ack_received` is at
  most `send_unack`. "At most 1" alone is not
  inductive: `last_ack_received_` starts at a random number that has nothing to
  do with the numbers of the connection, so one acknowledgement may equal it by
  accident; after it, an acceptable acknowledgement is larger than `send_unack`
  and so resets the counter. A session that is connected again while it is open
  carries its counter and `last_ack_received_` over to other numbers, so all this is
  claimed under `ConnectsClosed` only, and otherwise that the counter is a natural;
* `Quiet`: a closed or listening session has no timer.

`TcpSessionProofs` has one lemma per operator of `TcpSession`, up to `InputInv`,
`ConnectInv`, `CloseInv`, `SendInv` and `RecvInv`; `TcpConnectionProofs` has one
per group of actions (`ApplicationInv`, `CallbackInv`, `DeliverInv`, `UdpInv`) and
combines them in `StepInv`. The ring's refinement maps the abstract queue to the
cells from head on, and rests on the arithmetic of wrapped indices.

`NoLostWakeup` needs, for each session, `Awake`: a session with bytes in
`recv_buffer` counts as queued, and so does one in CLOSE_WAIT that the application
has not closed. It needs a third part: FIN_WAIT_1 is reached only by the
application's `close()`. The FIN of the peer takes FIN_WAIT_1 to CLOSE_WAIT without
calling `on_data_cb_`, and only because the application has closed already does
nobody wait for that call. `WakeStep` goes through the actions.

`StreamPrefix` relates what the receiver has to packets that the sender, or an
earlier session of it, made long ago, so its invariant speaks of every packet and
every timer. A pledge `b` says what a stack may ever put into a packet: the
initial numbers of its SYNs, the flags, and for data (`DataOK`) that counted from
the initial number it is either the part of the stream with that position, ending
at or before the mark `b.g`, or lies wholly between `b.g` and the mark `b.h`, where
the receiver will never accept it. The second case is there because the code, after
a simultaneous close, sends data again with numbers beyond its FIN. For each handler
`TcpSessionStream` shows that it keeps the numbers of the session in order
(`Holds`: `Flight`, which is `InflightIsBuffered` for the states that send, and
`Numbered`, the positions of `send_unack_`, `send_next_` and the buffer) and adds
only packets and timers within the pledge (`Mail`). `TcpConnectionProofs` composes
this:

* `StepKinds` reduces every step to one of five ways to change one session, or to a
  step that leaves the sessions alone; faults keep every pledge (`FaultKeeps`);
* `Marks` ties `b.g` to `send_next_`, and `Grows` says that a pledge only ever
  allows more, so old packets stay within it. A client that closes in SYN_SENT and
  connects again starts a new pledge while datagrams of the first are on their way,
  which is sound since none of them carries data;
* `Reads` is the receiver's side: `recv_next_` is one more than the bytes received,
  counted from one of the peer's initial numbers, and no more bytes are received
  than the peer's mark. A packet whose number equals `recv_next_` then carries the
  next bytes; `Apart` excludes that it belongs to another session;
* of the server all this is claimed only while the client is young (it has sent no
  FIN), since a server may have several sessions in turn; afterwards the client
  takes no data any more. `Streams` is the conjunction, and `StreamsStep` goes
  through the steps of client and server.

`AckedWasReceived` and `WindowsAgree` relate the two sides to each other, so their
invariant, `Sync`, has to follow both at once, packets under way included.
`Connected` says that until the client closes or is reset (`Fresh`) there is a
`Pair` of pledges with one initial number for each side:

* `Dial`, what the client may send: only the SYN with its own number, no FIN and no RST,
  and, once established, acknowledgements up to what it has received (`Upto`).
  The bound on acknowledgements grows with the bytes received, so every older
  acknowledgement on its way stays within it. This is what makes repeated and
  late datagrams harmless;
* `Reply`, the same for the server, whose acknowledgements begin when it has the
  client's number (`Spoken`). Its FIN and RST are allowed without restriction: they only
  make the client leave ESTABLISHED, where the two properties no longer apply;
* `Linked`: each side's `recv_next_` counts the bytes it has received (`Reads`), and
  each side's `send_unack_` is at most what the peer expects. Since the
  numbers of a session are ordered (`Holds`, `Marks`), the two
  properties follow by arithmetic (`WindowBounds`, `InSyncBounds`).

`Waits`, that only TIME_WAIT has a 2MSL timer, is part of `Sync` because otherwise the
timer could replace a session in the middle of the connection. `CallerStep` and
`CalleeStep` go through what the client and the server may do, and `SyncStep`
combines them. With `MaxOpens <= 1` a client that has left the
connection never comes back, so nothing is claimed of it any more.

`StreamSpec` is the prefix property of every state and what every step may do to the
streams. `StreamSteps` lists the changes that are steps of `ByteStreams` or leave it
alone, and one lemma for each kind of step (`TakesStream`, `UsesStream`, `BeginsStream`,
combined in `ActsStream`) shows that the connection makes no other. The hard part is
`Arrive`: the byte must have been written in the present session of the peer.
`Marks` bounds the mark of a pledge by the bytes accepted (`b.g <= b.A`), so a
packet that an established session takes carries written bytes (`TakesWritten`);
the client's session is the `Fresh` one, so the pledges of `Pair` apply, and for the
server, which may be in a later session than the one the client speaks to, the
pledges of `Streams` do, since the client never starts anew.

`OldestIsTimed` depends on where acknowledgements fall. `_handle_ack` moves
`send_unack_` to the number of the acknowledgement and stops the timers below it; if
that number were inside a packet, the timer of that packet would be gone, and what is
left of it would never be sent again. The argument says that it is always an edge:

* `Edges` of a session are the numbers up to `send_unack_`, those that its timers
  hold and `send_next_`. `Cuts` says that a handler loses no edge, ends every packet it
  sends at one, and keeps the oldest packet timed if acknowledgements are edges.
  `TcpSessionStream` shows it of each handler (the pledge's field `ends`, `Ending`);
* `Timing`, for each side: as long as it sends (`Rooted`: its first number is the one
  it counts from) and has given up no packet, every packet of its own on its way ends
  at one of its edges (`Sends`), and its peer's `recv_next_` and every acknowledgement of the
  peer on its way is one (`Heeds`). A session that has given up a packet stays one that
  has (`Abandons`), so nothing is claimed of it again;
* the two depend on each other: the receiver takes whole packets, so its `recv_next_` is the end
  of one (`DataEnds`), and the sender's new edges never remove an old one.
  `CallerSends`, `CallerHeeds`, `CalleeSends` and `CalleeHeeds` go through the steps of
  both sides, and `ClockedStep` combines them with `Sync`.

The invariant of the stack (`TcpStackProofs!IInv`) uses the same `SessionInv` for
every session. To it come three things that `TcpConnection` does not need:

* `Lifecycle`, for each live session that `connect()` has not reused after `close()`
  (`reopened`): only TIME_WAIT has a 2MSL timer, `user_want_to_close` is set in the
  states that the application's `close()` leads to and not before or in ESTABLISHED,
  and no queued session is in TIME_WAIT, since a session gets there in the phase of
  the sockets from states that no longer queue it. A session that has been reused
  satisfies none of this, and nothing is claimed of its end;
* `Polled`: in the phase of the sockets, no queued session has been closed by the
  application. Without it LAST_ACK could end a session that is queued;
* `WaitsSinceIdle`: the queue is empty in the application's phase before the
  sockets, since the idle handle has just emptied it and the application queues
  nobody. This gives `Polled` when the sockets are polled.

For each handler one lemma says to which states it may move the session and that
it leaves the fields that table and queue depend on alone (`ListenMoves`,
`EstablishedMoves`, ..., `InputMoves`, in `TcpSessionMoves`); `BecomesInv` and `CreateInv` say what that
does to the stack, and one lemma per action combines the two.

The invariant of the timers is `MapIsSound`, `ActiveIsMapped` and
`MslEndsWithSession` together: the entry that `start_timer` overwrites was stopped
just before, and no other entry holds the same handle, so no active handle is
lost. The invariant of the checksum is that the sum being folded and the whole
sum leave the same residue modulo `AllOnes`, and only the empty sum folds to 0.
`PacketOK` adds what the whole sum is: the sum of the octets, each with the weight
of its place in its word (`Sum`), as far as the loops have come; a packet that is as it
was sent has a sum that is a positive multiple of `AllOnes` (`Complete`), because
`Store` adds what is missing, and any other packet has none, because one octet
changes the sum by less than `AllOnes` (`DamageShows`). The reference of
`SumIsEndAround` leaves the same residue (`ReferenceResidue`), and there is only one
(`ResidueUnique`). `Sum` and the reference are recursive functions; `Induction`, from
the well-foundedness of the numbers, proves that they satisfy their recursive
equations and what follows from them.

Only model-checked:

* `OldestIsTimed` in a later session of the server, after the client's first connection
  has ended (see the hypotheses above);
* `TimeWaitProtects`. It holds within the budgets of `Recovery.cfg` and not for all: a
  2MSL timer that expires early finds the peer in LAST_ACK, and so does any when the
  peer has given up its FIN;
* liveness under fairness (`ReliableDelivery`, `TrafficEnds`,
  `HandshakeCompletesIfLossless`, `TeardownCompletes`, `ReceivedIsRead`), which is beyond
  the prover.

## 6. Not modelled

* `UdpDriver`'s buffers and asynchronous send requests: input and output. Its
  simulated loss, its receive callback and its `stop()` are in `TcpConnection` and
  `TcpStack`;
* what undefined behaviour may do beyond the one outcome kept for each case
  (section 2);
* the network of a simultaneous open: `TcpStack` reaches the branch in SYN_SENT for
  the properties of table and queue, but nothing is claimed of the stream that
  follows (section 4);
* the distribution of the initial sequence numbers, address parsing, logging,
  the round-trip clocks, build files.

## 7. Plan

Done: `TcpSession`, `TcpConnection` with its refinement, `RingQueue`; `TimerManager` with its
refinement; `TcpStack` with several sessions; `Checksum`; `connect()` in any state, in the
connection and in the stack; the theorems of section 5.

Left:

1. `TimeWaitProtects`: that the peer of a session in TIME_WAIT has not opened again.
