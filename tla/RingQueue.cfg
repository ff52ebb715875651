SPECIFICATION Spec
CONSTANTS
  T <- ThreeBytes
  Zero = 0
  Capacity = 3
  Batches <- SmallBatches
  Counts = {0, 1, 2, 3, 4}
INVARIANT RingInv
PROPERTY FifoSpec
