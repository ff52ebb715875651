------------------------------- MODULE Checksum -------------------------------
(***************************************************************************)
(* The checksum of a packet (tcb.cpp, _calculate_checksum and              *)
(* _verify_checksum): the one's complement of the sum of its words, first  *)
(* those of the header and then those of the payload, as RFC 1071 has it.  *)
(*                                                                         *)
(* A packet goes its way once: the sender calculates, one octet may be     *)
(* damaged on the wire, the receiver verifies.  Nothing runs between two   *)
(* iterations of the loops; each is a step of its own so that the          *)
(* invariants of the loops can be stated.                                  *)
(*                                                                         *)
(* An octet has Radix values (256 in the code), a word is two octets, the  *)
(* lower one first.  The sum is not bounded: the 65,507 octets of the      *)
(* largest datagram add up to less than 2^32.                              *)
(***************************************************************************)
EXTENDS Integers, Sequences

CONSTANTS
  Radix,        \* 256 in the code
  HeaderSize,   \* 20 in the code
  FlagsAt,      \* the position of the flags in the header
  ChecksumAt,   \* the position of the first octet of the checksum
  MaxPayload    \* bound: the size of a payload

ASSUME ChecksumAssumption ==
  /\ Radix \in Nat \ {0, 1}
  /\ HeaderSize \in Nat /\ HeaderSize % 2 = 0
  /\ ChecksumAt \in 1..(HeaderSize - 1) /\ ChecksumAt % 2 = 1  \* 17 in the code
  /\ FlagsAt \in 1..HeaderSize
  /\ MaxPayload \in Nat

VARIABLES
  header, payload,
  pc,        \* the function that runs, or what is done to the packet next
  part,      \* the part of the packet whose octets are added, or "fold"
  at,        \* the position of the next octet of that part
  sum,
  total,     \* history: the sum before it is folded
  intact,    \* history: the packet was calculated and is as it was sent
  accepted   \* what _verify_checksum returned

vars == <<header, payload, pc, part, at, sum, total, intact, accepted>>

Octet == 0..(Radix - 1)

Modulus == Radix * Radix

AllOnes == Modulus - 1

Header == [1..HeaderSize -> Octet]

Payload == UNION {[1..n -> Octet] : n \in 0..MaxPayload}

Data == IF part = "header" THEN header ELSE payload

Init ==
  /\ header \in Header /\ payload \in Payload
  /\ pc = "new" /\ part = "header" /\ at = 1
  /\ sum = 0 /\ total = 0
  /\ intact = FALSE /\ accepted = FALSE

Begin(function) ==
  /\ pc' = function
  /\ part' = "header" /\ at' = 1 /\ sum' = 0 /\ total' = 0

\* Mutant: the field still holds the checksum of an earlier transmission.
KeepField(h) == h

ZeroField(h) == [h EXCEPT ![ChecksumAt] = 0, ![ChecksumAt + 1] = 0]

\* The packet may have been sent before: _handle_retransmit changes its
\* acknowledgement and window and calculates again.
_calculate_checksum ==
  /\ pc = "new"
  /\ header' = ZeroField(header)
  /\ Begin("calculate")
  /\ UNCHANGED <<payload, intact, accepted>>

Running == pc \in {"calculate", "verify"}

\* The loop of add_to_sum.
AddWord ==
  /\ Running /\ part # "fold" /\ at < Len(Data)
  /\ sum' = sum + Data[at] + Radix * Data[at + 1]
  /\ total' = sum'
  /\ at' = at + 2
  /\ UNCHANGED <<header, payload, pc, part, intact, accepted>>

\* The last octet of an odd number.
AddOctet ==
  /\ Running /\ part # "fold" /\ at = Len(Data)
  /\ sum' = sum + Data[at]
  /\ total' = sum'
  /\ at' = at + 1
  /\ UNCHANGED <<header, payload, pc, part, intact, accepted>>

NextPart ==
  /\ Running /\ part # "fold" /\ at > Len(Data)
  /\ part' = IF part = "header" THEN "payload" ELSE "fold"
  /\ at' = 1
  /\ UNCHANGED <<header, payload, pc, sum, total, intact, accepted>>

\* Mutant: the carry is cut off.
DropCarry ==
  /\ Running /\ part = "fold" /\ sum >= Modulus
  /\ sum' = sum % Modulus
  /\ UNCHANGED <<header, payload, pc, part, at, total, intact, accepted>>

\* The loop that folds the carry back into the sum.
Fold ==
  /\ Running /\ part = "fold" /\ sum >= Modulus
  /\ sum' = (sum % Modulus) + (sum \div Modulus)
  /\ UNCHANGED <<header, payload, pc, part, at, total, intact, accepted>>

Folded == part = "fold" /\ sum < Modulus

Store ==
  /\ pc = "calculate" /\ Folded
  /\ header' = [header EXCEPT ![ChecksumAt] = (AllOnes - sum) % Radix,
                              ![ChecksumAt + 1] = (AllOnes - sum) \div Radix]
  /\ pc' = "sent" /\ intact' = TRUE
  /\ UNCHANGED <<payload, part, at, sum, total, accepted>>

\* The RST of TcpStack::listen(): zeroed, but for the flags, and not calculated.
SendZeroed ==
  /\ pc = "new" /\ payload = <<>>
  /\ \E rst \in Octet \ {0} :
       header' = [i \in 1..HeaderSize |-> IF i = FlagsAt THEN rst ELSE 0]
  /\ pc' = "sent"
  /\ UNCHANGED <<payload, part, at, sum, total, intact, accepted>>

\* UDP delivers a packet with one octet that is not the one that was sent.
Damage ==
  /\ pc = "sent" /\ intact
  /\ \/ \E i \in DOMAIN header : \E o \in Octet \ {header[i]} :
          header' = [header EXCEPT ![i] = o] /\ UNCHANGED payload
     \/ \E i \in DOMAIN payload : \E o \in Octet \ {payload[i]} :
          payload' = [payload EXCEPT ![i] = o] /\ UNCHANGED header
  /\ intact' = FALSE
  /\ UNCHANGED <<pc, part, at, sum, total, accepted>>

_verify_checksum ==
  /\ pc = "sent"
  /\ Begin("verify")
  /\ UNCHANGED <<header, payload, intact, accepted>>

\* Mutant: the sum is compared without its complement.
AcceptZero ==
  /\ pc = "verify" /\ Folded
  /\ accepted' = (sum = 0)
  /\ pc' = "done"
  /\ UNCHANGED <<header, payload, part, at, sum, total, intact>>

Return ==
  /\ pc = "verify" /\ Folded
  /\ accepted' = (AllOnes - sum = 0)
  /\ pc' = "done"
  /\ UNCHANGED <<header, payload, part, at, sum, total, intact>>

Next ==
  \/ _calculate_checksum \/ _verify_checksum
  \/ AddWord \/ AddOctet \/ NextPart \/ Fold \/ Store \/ Return
  \/ SendZeroed \/ Damage

Spec == Init /\ [][Next]_vars

-----------------------------------------------------------------------------
(* Properties.                                                             *)

\* A word of a string of octets; the last octet of an odd number is one.
WordOf(octets, k) ==
  octets[2 * k - 1] + (IF 2 * k <= Len(octets) THEN Radix * octets[2 * k] ELSE 0)

Words(octets) == (Len(octets) + 1) \div 2

\* The carry of one addition is added at the other end.
EndAround(n) == IF n >= Modulus THEN n - AllOnes ELSE n

\* The sums of the first words, each word added with an end-around carry of its own.
EndAroundSums(octets) ==
  LET sums[k \in 0..Words(octets)] ==
        IF k = 0 THEN 0 ELSE EndAround(sums[k - 1] + WordOf(octets, k))
  IN  sums

\* The reference, over header and payload taken as one string of octets.
EndAroundSum ==
  LET octets == header \o payload IN EndAroundSums(octets)[Words(octets)]

\* The loops of both functions, which collect all carries and fold them at the
\* end, compute the one's complement sum.
SumIsEndAround == Running /\ Folded => sum = EndAroundSum

\* _verify_checksum accepts a packet that _calculate_checksum has completed,
\* whatever its field held before, and refuses it when any one octet has changed;
\* it also refuses the RST that listen() sends without a checksum.
AcceptsExactlyIntact == pc = "done" => (accepted <=> intact)

Multiple(n) == \E k \in 0..n : n = k * AllOnes

\* _verify_checksum decides on nothing but the sum: it accepts if the sum of all
\* words is a multiple of 0xFFFF, but not if it is zero.  Hence damage that changes
\* the sum by a multiple of 0xFFFF, such as two exchanged words, passes.
AcceptsMultiples == pc = "done" => (accepted <=> (total # 0 /\ Multiple(total)))

=============================================================================
