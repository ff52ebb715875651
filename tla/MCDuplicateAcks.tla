-------------------------- MODULE MCDuplicateAcks --------------------------
(***************************************************************************)
(* TcpConnection with an observer that counts duplicate acknowledgements,  *)
(* for what README.md and tcb.cpp say of fast retransmission.              *)
(***************************************************************************)
EXTENDS MCConnection

VARIABLE repeats  \* history: the duplicate acknowledgements of send_unack_ so far

Bytes60 == Bytes(6, 0)

observed == <<vars, repeats>>

\* An acknowledgement without data of what is acknowledged, while data is in flight.
DuplicateAck(s, packet) ==
  /\ s.state = "ESTABLISHED" /\ packet.valid
  /\ packet.flags = {"ACK"} /\ packet.payload = <<>>
  /\ packet.ack = s.send_unack /\ s.send_unack # s.send_next

CountRepeats(e) ==
  repeats' =
    [repeats EXCEPT ![e] =
       CASE sess'[e].send_unack # sess[e].send_unack -> 0
         [] DuplicateAck(sess[e], Head(net[e])) -> @ + 1
         [] OTHER -> @]

ObservedInit == Init /\ repeats = [e \in Addr |-> 0]

ObservedNext ==
  \E e \in Addr :
    \/ Deliver(e) /\ CountRepeats(e)
    \/ /\ Application(e) \/ Dispatch(e) \/ Timeout(e) \/ MslTimeout(e) \/ Udp(e)
       /\ UNCHANGED repeats

ObservedSpec == ObservedInit /\ [][ObservedNext]_observed

\* README.md:11 promises fast retransmission, and tcb.cpp:168-169 says when: the
\* third duplicate acknowledgement has the packet it asks for sent again at once.
\* The code breaks this: _handle_ack counts behind a test that every repeated
\* acknowledgement fails (tcb.cpp:132, ClaimFastRetransmit.cfg).
FastRetransmits ==
  [][\A e \in Addr : repeats[e] = 2 /\ repeats'[e] = 3 =>
       \E i \in DOMAIN net'[Peer(e)] :
         /\ i > Len(net[Peer(e)])
         /\ net'[Peer(e)][i].payload # <<>>
         /\ net'[Peer(e)][i].seq = sess[e].send_unack]_observed

=============================================================================
