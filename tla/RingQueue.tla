----------------------------- MODULE RingQueue -----------------------------
(***************************************************************************)
(* RingQueue<T, Capacity> (include/myutcp/core/RingBuffer.h): an array of  *)
(* Capacity cells with the position of the next free cell (head), that of  *)
(* the oldest value (tail) and the number of values (size).  The send and  *)
(* receive buffers of a session are such queues.                           *)
(***************************************************************************)
EXTENDS Integers, Sequences

CONSTANTS
  T,          \* the values
  Zero,       \* the value T{} that fills a new array
  Capacity,   \* 1024 in the code
  Batches,    \* bound: the arguments of push_batch()
  Counts      \* bound: the arguments of pop_front() and peek_range()

ASSUME QueueAssumption ==
  /\ Zero \in T
  /\ Capacity \in Nat \ {0}
  /\ Batches \subseteq Seq(T)
  /\ Counts \subseteq Nat

VARIABLES
  buffer, head, tail, size,
  ok, out     \* what the last call returned and handed out

vars == <<buffer, head, tail, size, ok, out>>

Cell == 0..(Capacity - 1)

\* An index that has run past the end of the array starts again at its front.
Wrap(i) == i % Capacity

Returns(result, values) == ok' = result /\ out' = values

Init ==
  /\ buffer = [i \in Cell |-> Zero]
  /\ head = 0 /\ tail = 0 /\ size = 0
  /\ ok = TRUE /\ out = <<>>

-----------------------------------------------------------------------------
empty == size = 0

full == size = Capacity

\* operator[]: the value at a logical index.
At(i) == buffer[Wrap(tail + i)]

\* Mutant: a push on a full queue does not move tail.
AdvanceHeadOnly ==
  /\ head' = Wrap(head + 1)
  /\ size' = IF size < Capacity THEN size + 1 ELSE size
  /\ UNCHANGED tail

advance ==
  /\ head' = Wrap(head + 1)
  /\ IF size < Capacity
       THEN size' = size + 1 /\ UNCHANGED tail
       ELSE tail' = Wrap(tail + 1) /\ UNCHANGED size

push(v) ==
  /\ buffer' = [buffer EXCEPT ![head] = v]
  /\ advance
  /\ Returns(TRUE, <<>>)

\* The loop writes values[1], values[2], ... to the cells from head on.
WriteAt(h, values) ==
  [i \in Cell |-> LET k == Wrap(i - h)
                  IN  IF k < Len(values) THEN values[k + 1] ELSE buffer[i]]

push_batch(values) ==
  IF Len(values) > Capacity - size
    THEN UNCHANGED <<buffer, head, tail, size>> /\ Returns(FALSE, <<>>)
    ELSE /\ buffer' = WriteAt(head, values)
         /\ head' = Wrap(head + Len(values))
         /\ size' = size + Len(values)
         /\ UNCHANGED tail
         /\ Returns(TRUE, <<>>)

try_push(v) ==
  IF full
    THEN UNCHANGED <<buffer, head, tail, size>> /\ Returns(FALSE, <<>>)
    ELSE /\ buffer' = [buffer EXCEPT ![head] = v]
         /\ head' = Wrap(head + 1)
         /\ size' = size + 1
         /\ UNCHANGED tail
         /\ Returns(TRUE, <<>>)

Peeked(offset, n) ==
  IF offset >= size \/ n = 0
    THEN <<>>
    ELSE [i \in 1..(IF offset + n > size THEN size - offset ELSE n) |-> At(offset + i - 1)]

peek_range(offset, n) ==
  UNCHANGED <<buffer, head, tail, size>> /\ Returns(TRUE, Peeked(offset, n))

pop_front(n) ==
  LET actual_to_pop == IF n > size THEN size ELSE n
  IN  /\ tail' = Wrap(tail + actual_to_pop)
      /\ size' = size - actual_to_pop
      /\ UNCHANGED <<buffer, head>>
      /\ Returns(TRUE, <<>>)

pop ==
  IF empty
    THEN UNCHANGED <<buffer, head, tail, size>> /\ Returns(FALSE, <<>>)
    ELSE /\ tail' = Wrap(tail + 1)
         /\ size' = size - 1
         /\ UNCHANGED <<buffer, head>>
         /\ Returns(TRUE, <<buffer[tail]>>)

\* Callers test empty() before they call front() or back().
front ==
  ~empty /\ UNCHANGED <<buffer, head, tail, size>> /\ Returns(TRUE, <<buffer[tail]>>)

\* Mutant: back() reads the next free cell.
BackAtHead ==
  ~empty /\ UNCHANGED <<buffer, head, tail, size>> /\ Returns(TRUE, <<buffer[head]>>)

back ==
  /\ ~empty
  /\ UNCHANGED <<buffer, head, tail, size>>
  /\ Returns(TRUE, <<buffer[Wrap(head + Capacity - 1)]>>)

clear ==
  /\ head' = 0 /\ tail' = 0 /\ size' = 0
  /\ UNCHANGED buffer
  /\ Returns(TRUE, <<>>)

Next ==
  \/ \E v \in T : push(v) \/ try_push(v)
  \/ \E values \in Batches : push_batch(values)
  \/ \E offset, n \in Counts : peek_range(offset, n)
  \/ \E n \in Counts : pop_front(n)
  \/ pop \/ front \/ back \/ clear

Spec == Init /\ [][Next]_vars

-----------------------------------------------------------------------------
\* The indices stay inside the array and agree with the size: head is always
\* size cells after tail, so that a full queue and an empty one, which have
\* head = tail, are told apart.
RingInv ==
  /\ buffer \in [Cell -> T]
  /\ head \in Cell /\ tail \in Cell /\ size \in 0..Capacity
  /\ head = Wrap(tail + size)
  /\ ok \in BOOLEAN /\ out \in Seq(T)

\* The values in the queue, oldest first.
Contents == [i \in 1..size |-> At(i - 1)]

Fifo == INSTANCE BoundedFifo WITH queue <- Contents

\* The ring is a bounded FIFO queue: every call changes its contents, and
\* returns, what BoundedFifo says, however often the indices wrap around.
FifoSpec == Fifo!Spec

=============================================================================
