---------------------------- MODULE BoundedFifo ----------------------------
(***************************************************************************)
(* What RingQueue<T, Capacity> promises its users: a queue of at most      *)
(* Capacity values, with what each call returns (ok) and hands out (out).  *)
(* push() on a full queue forgets the oldest value; push_batch() takes all *)
(* of its values or none.                                                  *)
(***************************************************************************)
EXTENDS Integers, Sequences

CONSTANTS
  T,          \* the values
  Capacity,   \* the greatest number of values in the queue
  Batches,    \* the arguments of push_batch()
  Counts      \* the arguments of pop_front() and peek_range()

VARIABLES queue, ok, out

fifo == <<queue, ok, out>>

Returns(result, values) == ok' = result /\ out' = values

Init == queue = <<>> /\ ok = TRUE /\ out = <<>>

Push(v) ==
  /\ queue' = Append(IF Len(queue) < Capacity THEN queue ELSE Tail(queue), v)
  /\ Returns(TRUE, <<>>)

PushBatch(values) ==
  LET fits == Len(queue) + Len(values) <= Capacity
  IN  /\ queue' = IF fits THEN queue \o values ELSE queue
      /\ Returns(fits, <<>>)

TryPush(v) ==
  LET fits == Len(queue) < Capacity
  IN  /\ queue' = IF fits THEN Append(queue, v) ELSE queue
      /\ Returns(fits, <<>>)

PeekRange(offset, n) ==
  /\ UNCHANGED queue
  /\ Returns(TRUE, SubSeq(queue, offset + 1,
                          IF offset + n < Len(queue) THEN offset + n ELSE Len(queue)))

PopFront(n) ==
  /\ queue' = SubSeq(queue, n + 1, Len(queue))
  /\ Returns(TRUE, <<>>)

Pop ==
  /\ queue' = IF queue = <<>> THEN queue ELSE Tail(queue)
  /\ Returns(queue # <<>>, IF queue = <<>> THEN <<>> ELSE <<Head(queue)>>)

\* front() and back() are called on a queue that is not empty.
Front == queue # <<>> /\ UNCHANGED queue /\ Returns(TRUE, <<Head(queue)>>)

Back == queue # <<>> /\ UNCHANGED queue /\ Returns(TRUE, <<queue[Len(queue)]>>)

Clear == queue' = <<>> /\ Returns(TRUE, <<>>)

Next ==
  \/ \E v \in T : Push(v) \/ TryPush(v)
  \/ \E values \in Batches : PushBatch(values)
  \/ \E offset, n \in Counts : PeekRange(offset, n)
  \/ \E n \in Counts : PopFront(n)
  \/ Pop \/ Front \/ Back \/ Clear

Spec == Init /\ [][Next]_fifo

=============================================================================
