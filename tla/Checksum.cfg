\* Octets with four values; payloads of odd and even length.  A packet goes its
\* way once, so the system stops.
SPECIFICATION Spec
CONSTANTS
  Radix = 4
  HeaderSize = 4
  FlagsAt = 2
  ChecksumAt = 3
  MaxPayload = 3
INVARIANTS SumIsEndAround AcceptsExactlyIntact AcceptsMultiples
CHECK_DEADLOCK FALSE
