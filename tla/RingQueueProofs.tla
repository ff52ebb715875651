-------------------------- MODULE RingQueueProofs --------------------------
(***************************************************************************)
(* RingInv is an inductive invariant of RingQueue, and with it every step  *)
(* of the ring is a step of BoundedFifo on its contents.                   *)
(***************************************************************************)
EXTENDS RingQueue, SequenceTheorems, TLAPS

\* Wrap subtracts the capacity from an index that exceeds the array by less
\* than its length, and adds it to a negative one.
LEMMA WrapLemma ==
  ASSUME NEW i \in (-Capacity)..(2 * Capacity - 1)
  PROVE  /\ Wrap(i) \in Cell
         /\ i < 0 => Wrap(i) = i + Capacity
         /\ 0 <= i /\ i < Capacity => Wrap(i) = i
         /\ Capacity <= i => Wrap(i) = i - Capacity
<1>1. CASE i < 0
  BY <1>1, QueueAssumption DEF Wrap, Cell
<1>2. CASE 0 <= i /\ i < Capacity
  BY <1>2, QueueAssumption DEF Wrap, Cell
<1>3. CASE Capacity <= i
  BY <1>3, QueueAssumption DEF Wrap, Cell
<1> QED
  BY <1>1, <1>2, <1>3, QueueAssumption

\* One cell after the head is one cell after the last value.
LEMMA HeadLemma ==
  ASSUME RingInv, NEW k \in 0..(Capacity - size)
  PROVE  Wrap(head + k) = Wrap(tail + (size + k))
<1>1. head + k \in (-Capacity)..(2 * Capacity - 1)
  BY QueueAssumption DEF RingInv, Cell
<1>2. tail + (size + k) \in (-Capacity)..(2 * Capacity - 1)
  BY QueueAssumption DEF RingInv, Cell
<1>3. tail + size \in (-Capacity)..(2 * Capacity - 1)
  BY QueueAssumption DEF RingInv, Cell
<1>4. /\ head = Wrap(tail + size) /\ tail \in 0..(Capacity - 1)
      /\ size \in 0..Capacity /\ k \in 0..Capacity
  BY QueueAssumption DEF RingInv, Cell
<1> QED
  BY <1>1, <1>2, <1>3, <1>4, WrapLemma, QueueAssumption

\* Dropping the k oldest values moves tail towards head.
LEMMA TailLemma ==
  ASSUME RingInv, NEW k \in 0..size
  PROVE  /\ Wrap(tail + k) \in Cell
         /\ head = Wrap(Wrap(tail + k) + (size - k))
         /\ \A j \in 0..(size - k) : Wrap(Wrap(tail + k) + j) = Wrap(tail + (k + j))
<1>1. /\ head = Wrap(tail + size) /\ tail \in 0..(Capacity - 1)
      /\ size \in 0..Capacity /\ k \in 0..Capacity /\ Capacity \in Nat \ {0}
  BY QueueAssumption DEF RingInv, Cell
<1>2. Wrap(tail + k) \in Cell
  BY <1>1, WrapLemma
<1>3. ASSUME NEW j \in 0..(size - k)
      PROVE  Wrap(Wrap(tail + k) + j) = Wrap(tail + (k + j))
  <2>1. /\ tail + k \in (-Capacity)..(2 * Capacity - 1)
        /\ tail + (k + j) \in (-Capacity)..(2 * Capacity - 1)
        /\ Wrap(tail + k) + j \in (-Capacity)..(2 * Capacity - 1)
    BY <1>1, <1>2 DEF Cell
  <2> QED
    BY <1>1, <2>1, WrapLemma
<1>4. Wrap(Wrap(tail + k) + (size - k)) = Wrap(tail + (k + (size - k)))
  BY <1>1, <1>3
<1>5. k + (size - k) = size
  BY <1>1
<1> QED
  BY <1>1, <1>2, <1>3, <1>4, <1>5

\* RingInv holds initially and every call preserves it.
THEOREM RingInvariant == Spec => []RingInv
<1>1. Init => RingInv
  BY QueueAssumption, WrapLemma DEF Init, RingInv, Cell
<1>2. RingInv /\ [Next]_vars => RingInv'
  <2> SUFFICES ASSUME RingInv, [Next]_vars PROVE RingInv'
    OBVIOUS
  <2>0. /\ head \in 0..(Capacity - 1) /\ tail \in 0..(Capacity - 1)
        /\ size \in 0..Capacity /\ Capacity \in Nat \ {0}
    BY QueueAssumption DEF RingInv, Cell
  <2>1. ASSUME NEW v \in T, push(v) PROVE RingInv'
    <3>1. CASE size < Capacity
      BY <2>0, <2>1, <3>1, HeadLemma, WrapLemma DEF RingInv, push, advance, Returns, Cell
    <3>2. CASE size = Capacity
      <4>1. head = tail
        BY <2>0, <3>2, WrapLemma DEF RingInv, Cell
      <4>2. Wrap(tail + 1) \in Cell /\ Wrap(Wrap(tail + 1) + Capacity) = Wrap(tail + 1)
        BY <2>0, WrapLemma DEF Cell
      <4> QED
        BY <2>0, <2>1, <3>2, <4>1, <4>2 DEF RingInv, push, advance, Returns
    <3> QED
      BY <2>0, <3>1, <3>2
  <2>2. ASSUME NEW v \in T, try_push(v) PROVE RingInv'
    <3>1. CASE full
      <4>1. UNCHANGED <<buffer, head, tail, size>> /\ ok' = FALSE /\ out' = <<>>
        BY <2>2, <3>1 DEF try_push, Returns
      <4>2. ok' \in BOOLEAN
        BY <4>1, Zenon
      <4> QED
        BY <4>1, <4>2 DEF RingInv
    <3>2. CASE ~full
      <4>1. /\ buffer' = [buffer EXCEPT ![head] = v] /\ head' = Wrap(head + 1)
            /\ size' = size + 1 /\ tail' = tail /\ ok' = TRUE /\ out' = <<>>
        BY <2>2, <3>2 DEF try_push, Returns
      <4>2. 1 \in 0..(Capacity - size)
        BY <2>0, <3>2 DEF full
      <4>3. head' = Wrap(tail' + size') /\ head' \in Cell
        BY <2>0, <4>1, <4>2, HeadLemma, WrapLemma
      <4> QED
        BY <2>0, <4>1, <4>2, <4>3 DEF RingInv
    <3> QED
      BY <3>1, <3>2
  <2>3. ASSUME NEW values \in Batches, push_batch(values) PROVE RingInv'
    <3> DEFINE n == Len(values)
    <3>1. n \in Nat /\ values \in Seq(T)
      BY QueueAssumption
    <3>2. CASE n > Capacity - size
      <4>1. UNCHANGED <<buffer, head, tail, size>> /\ ok' = FALSE /\ out' = <<>>
        BY <2>3, <3>2 DEF push_batch, Returns
      <4>2. ok' \in BOOLEAN
        BY <4>1, Zenon
      <4> QED
        BY <4>1, <4>2 DEF RingInv
    <3>3. CASE n <= Capacity - size
      <4>0. /\ buffer' = WriteAt(head, values) /\ head' = Wrap(head + n)
            /\ size' = size + n /\ tail' = tail /\ ok' = TRUE /\ out' = <<>>
        BY <2>0, <2>3, <3>1, <3>3 DEF push_batch, Returns
      <4>1. head' = Wrap(tail' + size') /\ head' \in Cell
        <5>1. n \in 0..(Capacity - size)
          BY <2>0, <3>1, <3>3
        <5>2. head + n \in (-Capacity)..(2 * Capacity - 1)
          BY <2>0, <5>1
        <5>3. Wrap(head + n) \in Cell /\ Wrap(head + n) = Wrap(tail + (size + n))
          BY <5>1, <5>2, HeadLemma, WrapLemma
        <5> QED
          BY <4>0, <5>3
      <4>2. buffer' \in [Cell -> T]
        <5>1. \A i \in Cell : Wrap(i - head) \in Cell
          BY <2>0, WrapLemma DEF Cell
        <5>2. ASSUME NEW k \in Cell, k < n PROVE values[k + 1] \in T
          BY <2>0, <3>1, <5>2 DEF Cell
        <5>3. \A i \in Cell : WriteAt(head, values)[i] \in T
          BY <5>1, <5>2 DEF WriteAt, RingInv
        <5> QED
          BY <4>0, <5>3 DEF WriteAt
      <4> QED
        BY <2>0, <3>1, <3>3, <4>0, <4>1, <4>2 DEF RingInv
    <3> QED
      BY <2>0, <3>1, <3>2, <3>3
  <2>4. ASSUME NEW offset \in Counts, NEW n \in Counts, peek_range(offset, n)
        PROVE  RingInv'
    <3>1. offset \in Nat /\ n \in Nat
      BY QueueAssumption
    <3>2. Peeked(offset, n) \in Seq(T)
      <4>1. ASSUME NEW i \in Nat, i < size PROVE At(i) \in T
        BY <2>0, <4>1, WrapLemma DEF At, RingInv, Cell
      <4> QED
        BY <2>0, <3>1, <4>1 DEF Peeked
    <3> QED
      BY <2>4, <3>2 DEF RingInv, peek_range, Returns
  <2>5. ASSUME NEW n \in Counts, pop_front(n) PROVE RingInv'
    <3> DEFINE k == IF n > size THEN size ELSE n
    <3>1. k \in 0..size
      BY <2>0, QueueAssumption
    <3> QED
      BY <2>0, <2>5, <3>1, TailLemma DEF RingInv, pop_front, Returns
  <2>6. CASE pop
    BY <2>0, <2>6, TailLemma DEF RingInv, pop, empty, Returns, Cell
  <2>7. CASE front
    BY <2>7 DEF RingInv, front, empty, Returns, Cell
  <2>8. CASE back
    BY <2>0, <2>8, WrapLemma DEF RingInv, back, empty, Returns, Cell
  <2>9. CASE clear
    BY <2>0, <2>9, WrapLemma DEF RingInv, clear, Returns, Cell
  <2>10. CASE UNCHANGED vars
    BY <2>10 DEF RingInv, vars
  <2> QED
    BY <2>1, <2>2, <2>3, <2>4, <2>5, <2>6, <2>7, <2>8, <2>9, <2>10 DEF Next
<1> QED
  BY <1>1, <1>2, PTL DEF Spec

-----------------------------------------------------------------------------
\* The contents are a sequence of size values.
LEMMA ContentsLemma ==
  ASSUME RingInv
  PROVE  /\ Contents \in Seq(T)
         /\ Len(Contents) = size
         /\ \A i \in 1..size : Contents[i] = buffer[Wrap(tail + (i - 1))]
<1>1. \A i \in 1..size : At(i - 1) \in T
  BY QueueAssumption, WrapLemma DEF RingInv, At, Cell
<1>2. size \in Nat
  BY QueueAssumption DEF RingInv
<1> QED
  BY <1>1, <1>2 DEF Contents, At

\* Different positions of the queue lie in different cells.
LEMMA CellsDiffer ==
  ASSUME RingInv, NEW j \in Cell, NEW k \in Cell, j # k
  PROVE  Wrap(tail + j) # Wrap(tail + k)
<1>1. /\ tail \in 0..(Capacity - 1) /\ Capacity \in Nat \ {0}
      /\ j \in 0..(Capacity - 1) /\ k \in 0..(Capacity - 1)
  BY QueueAssumption DEF RingInv, Cell
<1>2. /\ tail + j \in (-Capacity)..(2 * Capacity - 1)
      /\ tail + k \in (-Capacity)..(2 * Capacity - 1)
  BY <1>1
<1> QED
  BY <1>1, <1>2, WrapLemma

\* A sequence that agrees with a ring cell by cell is the ring's contents.
LEMMA SameContents ==
  ASSUME NEW cells, NEW from, NEW n \in Nat, NEW q \in Seq(T), Len(q) = n,
         \A i \in 1..n : q[i] = cells[Wrap(from + (i - 1))]
  PROVE  [i \in 1..n |-> cells[Wrap(from + (i - 1))]] = q
OBVIOUS

\* Writing v behind the last value of a ring that is not full appends v.
LEMMA AppendStep ==
  ASSUME RingInv, RingInv', size < Capacity, NEW v \in T,
         buffer' = [buffer EXCEPT ![head] = v], size' = size + 1, tail' = tail
  PROVE  Contents' = Append(Contents, v)
<1>1. /\ head \in 0..(Capacity - 1) /\ tail \in 0..(Capacity - 1) /\ head = Wrap(tail + size)
      /\ size \in 0..Capacity /\ Capacity \in Nat \ {0} /\ buffer \in [Cell -> T]
  BY QueueAssumption DEF RingInv, Cell
<1> DEFINE q == Append(Contents, v)
<1>2. /\ q \in Seq(T) /\ Len(q) = size + 1
      /\ \A i \in 1..size : q[i] = Contents[i]
      /\ q[size + 1] = v
  BY ContentsLemma, AppendProperties
<1>3. ASSUME NEW i \in 1..size' PROVE q[i] = buffer'[Wrap(tail' + (i - 1))]
  <2>1. CASE i = size + 1
    <3>1. i - 1 = size
      BY <1>1, <2>1
    <3> QED
      BY <1>1, <1>2, <2>1, <3>1 DEF Cell
  <2>2. CASE i # size + 1
    <3>1. i \in 1..size /\ i - 1 \in Cell /\ size \in Cell /\ i - 1 # size
      BY <1>1, <2>2 DEF Cell
    <3>2. Wrap(tail + (i - 1)) # head
      BY <1>1, <3>1, CellsDiffer
    <3>3. Wrap(tail + (i - 1)) \in Cell
      BY <1>1, <3>1, WrapLemma DEF Cell
    <3> QED
      BY <1>1, <1>2, <3>1, <3>2, <3>3, ContentsLemma
  <2> QED
    BY <2>1, <2>2
<1>4. size' \in Nat /\ Len(q) = size'
  BY <1>1, <1>2
<1> HIDE DEF q
<1>5. [i \in 1..size' |-> buffer'[Wrap(tail' + (i - 1))]] = q
  BY <1>2, <1>3, <1>4, SameContents
<1> QED
  BY <1>5 DEF q, Contents, At

\* push_batch() writes its values behind the last value of the ring.
LEMMA ConcatStep ==
  ASSUME RingInv, NEW values \in Seq(T), Len(values) <= Capacity - size,
         buffer' = WriteAt(head, values), size' = size + Len(values), tail' = tail
  PROVE  Contents' = Contents \o values
<1>1. /\ head \in 0..(Capacity - 1) /\ tail \in 0..(Capacity - 1) /\ head = Wrap(tail + size)
      /\ size \in 0..Capacity /\ Capacity \in Nat \ {0} /\ buffer \in [Cell -> T]
      /\ Len(values) \in Nat
  BY QueueAssumption DEF RingInv, Cell
<1> DEFINE q == Contents \o values
<1>2. /\ q \in Seq(T) /\ Len(q) = size + Len(values)
      /\ \A i \in 1..(size + Len(values)) :
           q[i] = IF i <= size THEN Contents[i] ELSE values[i - size]
  BY ContentsLemma, ConcatProperties
<1>3. ASSUME NEW i \in 1..size' PROVE q[i] = buffer'[Wrap(tail' + (i - 1))]
  <2> DEFINE cell == Wrap(tail + (i - 1))
             k    == Wrap(cell - head)
  <2>1. i \in 1..(size + Len(values)) /\ i - 1 \in 0..(Capacity - 1)
    BY <1>1
  <2>2. /\ tail + (i - 1) \in (-Capacity)..(2 * Capacity - 1)
        /\ tail + size \in (-Capacity)..(2 * Capacity - 1)
        /\ cell \in 0..(Capacity - 1)
    BY <1>1, <2>1, WrapLemma DEF Cell
  <2>3. cell - head \in (-Capacity)..(2 * Capacity - 1)
    BY <1>1, <2>2
  <2>4. k = IF i <= size THEN (i - 1) - size + Capacity ELSE (i - 1) - size
    <3>1. /\ cell = IF tail + (i - 1) < Capacity THEN tail + (i - 1) ELSE tail + (i - 1) - Capacity
          /\ head = IF tail + size < Capacity THEN tail + size ELSE tail + size - Capacity
      BY <1>1, <2>1, <2>2, WrapLemma
    <3>2. k = IF cell < head THEN cell - head + Capacity ELSE cell - head
      BY <1>1, <2>2, <2>3, WrapLemma
    <3> HIDE DEF cell, k
    <3> QED
      BY <1>1, <2>1, <2>2, <3>1, <3>2
  <2>5. buffer'[cell] = IF k < Len(values) THEN values[k + 1] ELSE buffer[cell]
    BY <2>2 DEF WriteAt, Cell
  <2>6. CASE i <= size
    <3>1. ~(k < Len(values))
      BY <1>1, <2>1, <2>4, <2>6
    <3> QED
      BY <1>1, <1>2, <2>1, <2>5, <2>6, <3>1, ContentsLemma
  <2>7. CASE ~(i <= size)
    <3>1. k < Len(values) /\ k + 1 = i - size
      BY <1>1, <2>1, <2>4, <2>7
    <3> QED
      BY <1>1, <1>2, <2>1, <2>5, <2>7, <3>1
  <2> QED
    BY <2>6, <2>7
<1>4. size' \in Nat /\ Len(q) = size'
  BY <1>1, <1>2
<1> HIDE DEF q
<1>5. [i \in 1..size' |-> buffer'[Wrap(tail' + (i - 1))]] = q
  BY <1>2, <1>3, <1>4, SameContents
<1> QED
  BY <1>5 DEF q, Contents, At

\* Moving tail by k drops the k oldest values.
LEMMA DropStep ==
  ASSUME RingInv, NEW k \in 0..size,
         buffer' = buffer, size' = size - k, tail' = Wrap(tail + k)
  PROVE  Contents' = SubSeq(Contents, k + 1, size)
<1>1. /\ tail \in 0..(Capacity - 1) /\ size \in 0..Capacity
      /\ Capacity \in Nat \ {0} /\ k \in Nat /\ k <= size
  BY QueueAssumption DEF RingInv, Cell
<1> DEFINE q == SubSeq(Contents, k + 1, size)
<1>2. \A i \in (k + 1)..size : Contents[i] \in T
  BY <1>1, ContentsLemma
<1>3. /\ q \in Seq(T) /\ Len(q) = size - k
      /\ \A i \in 1..(size - k) : q[i] = Contents[k + i]
  BY <1>1, <1>2, SubSeqProperties
<1>4. ASSUME NEW i \in 1..size' PROVE q[i] = buffer'[Wrap(tail' + (i - 1))]
  <2>1. i - 1 \in 0..(size - k) /\ k + i \in 1..size /\ k + (i - 1) = (k + i) - 1
    BY <1>1
  <2>2. Wrap(tail' + (i - 1)) = Wrap(tail + ((k + i) - 1))
    BY <2>1, TailLemma
  <2> QED
    BY <1>3, <2>1, <2>2, ContentsLemma
<1>5. size' \in Nat /\ Len(q) = size'
  BY <1>1, <1>3
<1> HIDE DEF q
<1>6. [i \in 1..size' |-> buffer'[Wrap(tail' + (i - 1))]] = q
  BY <1>3, <1>4, <1>5, SameContents
<1> QED
  BY <1>6 DEF q, Contents, At

\* push() on a full ring overwrites the oldest value and moves both indices.
LEMMA OverwriteStep ==
  ASSUME RingInv, size = Capacity, NEW v \in T,
         buffer' = [buffer EXCEPT ![head] = v], size' = size, tail' = Wrap(tail + 1)
  PROVE  Contents' = Append(Tail(Contents), v)
<1>1. /\ tail \in 0..(Capacity - 1) /\ size \in 0..Capacity
      /\ Capacity \in Nat \ {0} /\ buffer \in [Cell -> T]
  BY QueueAssumption DEF RingInv, Cell
<1>2. head = tail
  BY <1>1, WrapLemma DEF RingInv
<1> DEFINE q == Append(Tail(Contents), v)
<1>3. Contents # <<>>
  BY <1>1, ContentsLemma
<1>4. /\ Tail(Contents) \in Seq(T) /\ Len(Tail(Contents)) = size - 1
      /\ \A i \in 1..(size - 1) : Tail(Contents)[i] = Contents[i + 1]
  BY <1>3, ContentsLemma, HeadTailProperties
<1>5. /\ q \in Seq(T) /\ Len(q) = size /\ q[size] = v
      /\ \A i \in 1..(size - 1) : q[i] = Contents[i + 1]
  BY <1>1, <1>4, AppendProperties
<1>6. ASSUME NEW i \in 1..size' PROVE q[i] = buffer'[Wrap(tail' + (i - 1))]
  <2>1. 1 \in 0..size /\ i - 1 \in 0..(size - 1)
    BY <1>1
  <2>2. Wrap(tail' + (i - 1)) = Wrap(tail + (1 + (i - 1)))
    BY <2>1, TailLemma
  <2>3. 1 + (i - 1) = i
    BY <1>1
  <2>4. CASE i = size
    <3>1. Wrap(tail + i) = tail
      BY <1>1, <2>4, WrapLemma
    <3> QED
      BY <1>1, <1>2, <1>5, <2>2, <2>3, <2>4, <3>1 DEF Cell
  <2>5. CASE i # size
    <3>1. i \in 1..(size - 1) /\ i \in Cell /\ 0 \in Cell /\ i + 1 \in 1..size /\ (i + 1) - 1 = i
      BY <1>1, <2>5 DEF Cell
    <3>2. Wrap(tail + 0) = tail
      BY <1>1, WrapLemma
    <3>3. Wrap(tail + i) # head /\ Wrap(tail + i) \in Cell
      BY <1>1, <1>2, <3>1, <3>2, CellsDiffer, WrapLemma DEF Cell
    <3> QED
      BY <1>1, <1>5, <2>2, <2>3, <3>1, <3>3, ContentsLemma
  <2> QED
    BY <2>4, <2>5
<1>7. size' \in Nat /\ Len(q) = size'
  BY <1>1, <1>5
<1> HIDE DEF q
<1>8. [i \in 1..size' |-> buffer'[Wrap(tail' + (i - 1))]] = q
  BY <1>5, <1>6, <1>7, SameContents
<1> QED
  BY <1>8 DEF q, Contents, At

\* A call that leaves the ring alone leaves its contents alone.
LEMMA SameStep ==
  ASSUME UNCHANGED <<buffer, head, tail, size>>
  PROVE  Contents' = Contents
BY DEF Contents, At

\* Every call of RingQueue does to the contents of the ring, and returns, what
\* BoundedFifo says: the code implements its abstract specification, for every
\* capacity.
THEOREM RingImplementsFifo == Spec => FifoSpec
<1>1. Init => Fifo!Init
  <2> SUFFICES ASSUME Init PROVE Fifo!Init
    OBVIOUS
  <2>1. Contents = <<>>
    BY DEF Init, Contents
  <2> QED
    BY <2>1 DEF Init, Fifo!Init
<1>2. RingInv /\ RingInv' /\ [Next]_vars => [Fifo!Next]_Fifo!fifo
  <2> SUFFICES ASSUME RingInv, RingInv', [Next]_vars PROVE [Fifo!Next]_Fifo!fifo
    OBVIOUS
  <2>0. /\ head \in 0..(Capacity - 1) /\ tail \in 0..(Capacity - 1)
        /\ size \in 0..Capacity /\ Capacity \in Nat \ {0}
        /\ Contents \in Seq(T) /\ Len(Contents) = size
    BY QueueAssumption, ContentsLemma DEF RingInv, Cell
  <2>1. ASSUME NEW v \in T, push(v) PROVE Fifo!Push(v)
    <3>1. CASE size < Capacity
      BY <2>0, <2>1, <3>1, AppendStep DEF push, advance, Returns, Fifo!Push, Fifo!Returns
    <3>2. CASE ~(size < Capacity)
      <4>1. size = Capacity
        BY <2>0, <3>2
      <4>2. /\ buffer' = [buffer EXCEPT ![head] = v] /\ size' = size /\ tail' = Wrap(tail + 1)
            /\ ok' = TRUE /\ out' = <<>>
        BY <2>1, <3>2 DEF push, advance, Returns
      <4>3. Contents' = Append(Tail(Contents), v)
        BY <4>1, <4>2, OverwriteStep
      <4> QED
        BY <2>0, <3>2, <4>2, <4>3 DEF Fifo!Push, Fifo!Returns
    <3> QED
      BY <3>1, <3>2
  <2>2. ASSUME NEW v \in T, try_push(v) PROVE Fifo!TryPush(v)
    <3>1. CASE full
      <4>1. Contents' = Contents /\ ok' = FALSE /\ out' = <<>>
        BY <2>2, <3>1, SameStep DEF try_push, Returns
      <4>2. (Len(Contents) < Capacity) = FALSE
        BY <2>0, <3>1 DEF full
      <4> QED
        BY <4>1, <4>2, Zenon DEF Fifo!TryPush, Fifo!Returns
    <3>2. CASE ~full
      <4>1. /\ buffer' = [buffer EXCEPT ![head] = v] /\ size' = size + 1 /\ tail' = tail
            /\ ok' = TRUE /\ out' = <<>>
        BY <2>2, <3>2 DEF try_push, Returns
      <4>2. (Len(Contents) < Capacity) = TRUE /\ size < Capacity
        BY <2>0, <3>2 DEF full
      <4>3. Contents' = Append(Contents, v)
        BY <4>1, <4>2, AppendStep
      <4> QED
        BY <4>1, <4>2, <4>3, Zenon DEF Fifo!TryPush, Fifo!Returns
    <3> QED
      BY <3>1, <3>2
  <2>3. ASSUME NEW values \in Batches, push_batch(values) PROVE Fifo!PushBatch(values)
    <3>0. values \in Seq(T) /\ Len(values) \in Nat
      BY QueueAssumption
    <3>1. CASE Len(values) > Capacity - size
      <4>1. Contents' = Contents /\ ok' = FALSE /\ out' = <<>>
        BY <2>3, <3>1, SameStep DEF push_batch, Returns
      <4>2. (Len(Contents) + Len(values) <= Capacity) = FALSE
        BY <2>0, <3>0, <3>1
      <4> QED
        BY <4>1, <4>2, Zenon DEF Fifo!PushBatch, Fifo!Returns
    <3>2. CASE ~(Len(values) > Capacity - size)
      <4>1. /\ buffer' = WriteAt(head, values) /\ size' = size + Len(values) /\ tail' = tail
            /\ ok' = TRUE /\ out' = <<>>
        BY <2>3, <3>2 DEF push_batch, Returns
      <4>2. (Len(Contents) + Len(values) <= Capacity) = TRUE /\ Len(values) <= Capacity - size
        BY <2>0, <3>0, <3>2
      <4>3. Contents' = Contents \o values
        BY <3>0, <4>1, <4>2, ConcatStep
      <4> QED
        BY <4>1, <4>2, <4>3, Zenon DEF Fifo!PushBatch, Fifo!Returns
    <3> QED
      BY <3>1, <3>2
  <2>4. ASSUME NEW offset \in Counts, NEW n \in Counts, peek_range(offset, n)
        PROVE  Fifo!PeekRange(offset, n)
    <3>0. offset \in Nat /\ n \in Nat
      BY QueueAssumption
    <3> DEFINE last == IF offset + n < Len(Contents) THEN offset + n ELSE Len(Contents)
               q    == SubSeq(Contents, offset + 1, last)
    <3>1. last \in Nat /\ last <= size
      BY <2>0, <3>0
    <3>2. \A i \in (offset + 1)..last : Contents[i] \in T
      BY <2>0, <3>0, <3>1
    <3>3. /\ q \in Seq(T)
          /\ Len(q) = IF offset + 1 <= last THEN last - offset ELSE 0
          /\ \A i \in 1..(last - offset) : q[i] = Contents[offset + i]
      BY <3>0, <3>1, <3>2, SubSeqProperties
    <3>4. Peeked(offset, n) = q
      <4>1. CASE offset >= size \/ n = 0
        BY <2>0, <3>0, <3>1, <3>3, <4>1 DEF Peeked
      <4>2. CASE ~(offset >= size \/ n = 0)
        <5>1. Len(q) = last - offset /\ last - offset \in Nat /\ last > offset
          BY <2>0, <3>0, <3>3, <4>2
        <5>2. (IF offset + n > size THEN size - offset ELSE n) = last - offset
          BY <2>0, <3>0
        <5>3. ASSUME NEW i \in 1..(last - offset) PROVE q[i] = At(offset + i - 1)
          <6>1. offset + i \in 1..size /\ (offset + i) - 1 = offset + i - 1
            BY <2>0, <3>0, <3>1
          <6> QED
            BY <3>3, <6>1, ContentsLemma DEF At
        <5>4. [i \in 1..(last - offset) |-> At(offset + i - 1)] = q
          <6> HIDE DEF q, last
          <6> QED
            BY <3>3, <5>1, <5>3
        <5> QED
          BY <4>2, <5>2, <5>4 DEF Peeked
      <4> QED
        BY <4>1, <4>2
    <3> QED
      BY <2>4, <3>4, SameStep DEF peek_range, Returns, Fifo!PeekRange, Fifo!Returns
  <2>5. ASSUME NEW n \in Counts, pop_front(n) PROVE Fifo!PopFront(n)
    <3> DEFINE k == IF n > size THEN size ELSE n
    <3>1. k \in 0..size /\ n \in Nat
      BY <2>0, QueueAssumption
    <3>2. Contents' = SubSeq(Contents, k + 1, size)
      BY <2>5, <3>1, DropStep DEF pop_front
    <3>3. SubSeq(Contents, k + 1, size) = SubSeq(Contents, n + 1, size)
      BY <2>0, <3>1, SubSeqEmpty
    <3> QED
      BY <2>0, <2>5, <3>2, <3>3 DEF pop_front, Returns, Fifo!PopFront, Fifo!Returns
  <2>6. ASSUME ~empty PROVE Contents # <<>> /\ Head(Contents) = buffer[tail]
    <3>1. Contents # <<>> /\ 1 \in 1..size /\ Wrap(tail + (1 - 1)) = tail
      BY <2>0, <2>6, WrapLemma DEF empty
    <3> QED
      BY <2>0, <3>1, ContentsLemma
  <2>7. ASSUME pop PROVE Fifo!Pop
    <3>1. CASE empty
      <4>1. Contents = <<>>
        BY <2>0, <3>1 DEF empty
      <4> QED
        <5>1. Contents' = Contents /\ ok' = FALSE /\ out' = <<>>
          BY <2>7, <3>1, SameStep DEF pop, Returns
        <5>2. (Contents # <<>>) = FALSE
          BY <4>1
        <5> QED
          BY <4>1, <5>1, <5>2, Zenon DEF Fifo!Pop, Fifo!Returns
    <3>2. CASE ~empty
      <4>1. Contents' = SubSeq(Contents, 2, size)
        BY <2>0, <2>7, <3>2, DropStep DEF pop, empty
      <4>2. SubSeq(Contents, 2, size) = Tail(Contents)
        BY <2>0
      <4> QED
        <5>1. Contents' = Tail(Contents) /\ ok' = TRUE /\ out' = <<Head(Contents)>>
          BY <2>6, <2>7, <3>2, <4>1, <4>2 DEF pop, Returns
        <5>2. (Contents # <<>>) = TRUE
          BY <2>6, <3>2
        <5> QED
          BY <5>1, <5>2, Zenon DEF Fifo!Pop, Fifo!Returns
    <3> QED
      BY <3>1, <3>2
  <2>8. ASSUME front PROVE Fifo!Front
    BY <2>6, <2>8, SameStep DEF front, Returns, Fifo!Front, Fifo!Returns
  <2>9. ASSUME back PROVE Fifo!Back
    <3>1. ~empty /\ size \in 1..size
      BY <2>0, <2>9 DEF back, empty
    <3>2. Contents[size] = buffer[Wrap(tail + (size - 1))]
      BY <3>1, ContentsLemma
    <3>3. Wrap(tail + (size - 1)) = Wrap(head + Capacity - 1)
      <4>1. /\ tail + size \in (-Capacity)..(2 * Capacity - 1)
            /\ tail + (size - 1) \in (-Capacity)..(2 * Capacity - 1)
            /\ head + Capacity - 1 \in (-Capacity)..(2 * Capacity - 1)
            /\ head = Wrap(tail + size)
        BY <2>0, <3>1 DEF RingInv
      <4> QED
        BY <2>0, <3>1, <4>1, WrapLemma
    <3> QED
      BY <2>0, <2>6, <2>9, <3>1, <3>2, <3>3, SameStep
      DEF back, Returns, Fifo!Back, Fifo!Returns
  <2>10. ASSUME clear PROVE Fifo!Clear
    <3>1. Contents' = <<>>
      BY <2>10 DEF clear, Contents
    <3> QED
      BY <2>10, <3>1 DEF clear, Returns, Fifo!Clear, Fifo!Returns
  <2>11. CASE UNCHANGED vars
    BY <2>11, SameStep DEF vars, Fifo!fifo
  <2> QED
    BY <2>1, <2>2, <2>3, <2>4, <2>5, <2>7, <2>8, <2>9, <2>10, <2>11
    DEF Next, Fifo!Next
<1> QED
  BY <1>1, <1>2, RingInvariant, PTL DEF Spec, FifoSpec, Fifo!Spec

=============================================================================
