---------------------------- MODULE MCRingQueue ----------------------------
(* Constants of the TLC run of RingQueue.                                  *)
EXTENDS RingQueue, TLC

ThreeBytes == {0, 1, 2}

\* Batches up to one more than the capacity of 3.
SmallBatches == {<<>>, <<1>>, <<1, 2>>, <<2, 1, 2>>, <<1, 2, 1, 2>>}
=============================================================================
