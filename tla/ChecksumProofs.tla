--------------------------- MODULE ChecksumProofs ---------------------------
(***************************************************************************)
(* What _verify_checksum decides on, for every size of octet, header and   *)
(* payload: the loop that folds the carries keeps the sum modulo 0xFFFF,   *)
(* the checksum completes the sum to a multiple, and a change of one octet *)
(* spoils it.                                                              *)
(***************************************************************************)
EXTENDS Checksum, SequenceTheorems, WellFoundedInduction, TLAPS

\* The folded sum and the whole sum leave the same residue, and only the empty
\* sum folds to zero.
Residue(whole, rest) ==
  /\ rest = 0 <=> whole = 0
  /\ \E k \in Nat : whole = rest + k * AllOnes

TypeInv ==
  /\ header \in Seq(Nat) /\ Len(header) = HeaderSize
  /\ payload \in Seq(Nat)
  /\ part \in {"header", "payload", "fold"}
  /\ at \in Nat \ {0} /\ sum \in Nat /\ total \in Nat
  /\ accepted \in BOOLEAN

\* The invariants of the two loops.
LoopInv ==
  /\ Running /\ part # "fold" => sum = total
  /\ Running /\ part = "fold" => Residue(total, sum)

IInv == TypeInv /\ LoopInv /\ AcceptsMultiples

-----------------------------------------------------------------------------
(* Arithmetic.                                                             *)

\* The numbers of values of an octet and of a word.
LEMMA Sizes ==
  Radix \in Nat /\ Radix >= 2 /\ Modulus \in Nat /\ AllOnes \in Nat /\ AllOnes >= 3
  /\ Modulus = AllOnes + 1
<1>1. Radix \in Nat /\ Radix >= 2
  BY ChecksumAssumption
<1>2. Radix * Radix \in Nat /\ Radix * Radix >= 2 * Radix
  BY <1>1
<1> QED
  BY <1>1, <1>2 DEF Modulus, AllOnes

\* Quotient and remainder.
LEMMA Division ==
  ASSUME NEW n \in Nat, NEW m \in Nat, m > 0
  PROVE  /\ n \div m \in Nat /\ n % m \in Nat /\ n % m < m
         /\ n = m * (n \div m) + (n % m)
  OBVIOUS

\* One iteration of the folding loop.
LEMMA FoldKeepsResidue ==
  ASSUME NEW whole \in Nat, NEW n \in Nat, n >= Modulus, Residue(whole, n)
  PROVE  /\ (n % Modulus) + (n \div Modulus) \in Nat
         /\ Residue(whole, (n % Modulus) + (n \div Modulus))
<1> DEFINE q == n \div Modulus
           r == n % Modulus
<1>1. q \in Nat /\ r \in Nat /\ r < Modulus /\ n = Modulus * q + r
  BY Sizes, Division
<1>2. PICK k \in Nat : whole = n + k * AllOnes
  BY DEF Residue
<1> HIDE DEF q, r
<1>3. q > 0
  <2>1. CASE q = 0
    <3>1. n = r
      BY <1>1, <2>1, Sizes
    <3> QED
      BY <1>1, <3>1, Sizes
  <2> QED
    BY <1>1, <2>1
<1>4. Modulus * q = AllOnes * q + q
  BY <1>1, Sizes
<1>5. (q + k) * AllOnes = AllOnes * q + k * AllOnes
  BY <1>1, Sizes
<1>6. AllOnes * q \in Nat /\ k * AllOnes \in Nat
  BY <1>1, Sizes
<1>7. whole = (r + q) + (q + k) * AllOnes
  BY <1>1, <1>2, <1>4, <1>5, <1>6
<1>8. r + q # 0 /\ whole # 0 /\ r + q \in Nat /\ q + k \in Nat
  BY <1>1, <1>3, <1>6, <1>7, <1>5
<1>9. Residue(whole, r + q)
  BY <1>7, <1>8 DEF Residue
<1> QED
  BY <1>8, <1>9 DEF q, r

\* The test of _verify_checksum on the folded sum.
LEMMA TestOfResidue ==
  ASSUME NEW whole \in Nat, NEW n \in Nat, n < Modulus, Residue(whole, n)
  PROVE  AllOnes - n = 0 <=> (whole # 0 /\ Multiple(whole))
<1>1. PICK k \in Nat : whole = n + k * AllOnes
  BY DEF Residue
<1>2. ASSUME AllOnes - n = 0
      PROVE  whole # 0 /\ Multiple(whole)
  <2>1. n = AllOnes /\ n # 0
    BY <1>2, Sizes
  <2>2. whole = (k + 1) * AllOnes
    BY <1>1, <2>1, Sizes
  <2>3. k + 1 <= (k + 1) * AllOnes
    BY Sizes
  <2>4. k + 1 \in 0..whole
    BY <2>2, <2>3
  <2> QED
    BY <2>1, <2>2, <2>4 DEF Multiple, Residue
<1>3. ASSUME whole # 0, Multiple(whole)
      PROVE  AllOnes - n = 0
  <2>1. PICK j \in Nat : whole = j * AllOnes
    BY <1>3 DEF Multiple
  <2>2. n > 0 /\ n <= AllOnes
    BY <1>3, Sizes DEF Residue
  <2>3. n = (j - k) * AllOnes
    BY <1>1, <2>1, Sizes
  <2>4. j - k > 0
    <3>1. CASE j - k <= 0
      <4>1. (j - k) * AllOnes <= 0
        BY <3>1, Sizes
      <4> QED
        BY <4>1, <2>2, <2>3
    <3> QED
      BY <3>1
  <2>5. j - k < 2
    <3>1. CASE j - k >= 2
      <4>1. (j - k) * AllOnes >= 2 * AllOnes
        BY <3>1, Sizes
      <4> QED
        BY <4>1, <2>2, <2>3, Sizes
    <3> QED
      BY <3>1
  <2>6. j - k = 1
    BY <2>4, <2>5
  <2> QED
    BY <2>3, <2>6, Sizes
<1> QED
  BY <1>2, <1>3

-----------------------------------------------------------------------------
(* The steps.                                                              *)

\* Octets are numbers.
LEMMA NatOctets == Octet \subseteq Nat
  BY Sizes DEF Octet

\* A function on 1..n is a sequence of length n.
LEMMA FunctionIsSeq ==
  ASSUME NEW S, NEW n \in Nat, NEW f \in [1..n -> S]
  PROVE  f \in Seq(S) /\ Len(f) = n
<1>1. f \in Seq(S)
  BY SeqDef
<1>2. DOMAIN f = 1..n /\ DOMAIN f = 1..Len(f) /\ Len(f) \in Nat
  BY <1>1, LenProperties
<1> QED
  BY <1>1, <1>2

\* Replacing an element by a number keeps a sequence of numbers.
LEMMA ReplaceOctet ==
  ASSUME NEW q \in Seq(Nat), NEW i \in DOMAIN q, NEW o \in Nat
  PROVE  [q EXCEPT ![i] = o] \in Seq(Nat) /\ Len([q EXCEPT ![i] = o]) = Len(q)
<1>1. i \in 1..Len(q)
  BY LenProperties
<1> QED
  BY <1>1, ExceptSeq

\* The invariant of the sum holds at first.
LEMMA InitIInv == Init => IInv
<1> SUFFICES ASSUME Init PROVE IInv
  OBVIOUS
<1>1. header \in Seq(Nat) /\ Len(header) = HeaderSize
  <2>1. header \in [1..HeaderSize -> Nat] /\ HeaderSize \in Nat
    BY NatOctets, ChecksumAssumption DEF Init, Header
  <2> QED
    BY <2>1, FunctionIsSeq
<1>2. payload \in Seq(Nat)
  <2>1. PICK n \in 0..MaxPayload : payload \in [1..n -> Octet]
    BY DEF Init, Payload
  <2>2. n \in Nat
    BY ChecksumAssumption
  <2>3. payload \in [1..n -> Nat]
    BY <2>1, NatOctets
  <2> QED
    BY <2>2, <2>3, FunctionIsSeq
<1>3. TypeInv
  <2>1. pc = "new" /\ part = "header" /\ at = 1 /\ sum = 0 /\ total = 0 /\ accepted = FALSE
    BY DEF Init
  <2>2. accepted \in BOOLEAN
    BY <2>1
  <2>3. at \in Nat \ {0} /\ sum \in Nat /\ total \in Nat
    BY <2>1
  <2> QED
    BY <1>1, <1>2, <2>1, <2>2, <2>3 DEF TypeInv
<1>4. LoopInv /\ AcceptsMultiples
  BY DEF Init, LoopInv, AcceptsMultiples, Running
<1> QED
  BY <1>3, <1>4 DEF IInv

\* And _calculate_checksum keeps it,
LEMMA CalculateStep ==
  ASSUME IInv, _calculate_checksum PROVE IInv'
<1>1. /\ ZeroField(header) \in Seq(Nat) /\ Len(ZeroField(header)) = HeaderSize
  <2>1. /\ [header EXCEPT ![ChecksumAt] = 0] \in Seq(Nat)
        /\ Len([header EXCEPT ![ChecksumAt] = 0]) = HeaderSize
    BY ExceptSeq, ChecksumAssumption DEF IInv, TypeInv
  <2> QED
    BY <2>1, ExceptSeq, ChecksumAssumption DEF ZeroField
<1> QED
  BY <1>1 DEF _calculate_checksum, Begin, IInv, TypeInv, LoopInv, AcceptsMultiples,
              Running

\* the loops,
LEMMA AddStep ==
  ASSUME IInv, AddWord \/ AddOctet \/ NextPart PROVE IInv'
<1>1. Data \in Seq(Nat)
  BY DEF Data, IInv, TypeInv
<1>2. CASE AddWord
  <2>1. Data[at] \in Nat /\ Data[at + 1] \in Nat
    <3>1. at \in Nat \ {0} /\ at < Len(Data)
      BY <1>2 DEF AddWord, IInv, TypeInv
    <3>2. at \in 1..Len(Data) /\ at + 1 \in 1..Len(Data)
      BY <1>1, <3>1, LenProperties
    <3> QED
      BY <1>1, <3>2
  <2>2. Radix * Data[at + 1] \in Nat
    BY <2>1, Sizes
  <2>3. sum' \in Nat
    BY <1>2, <2>1, <2>2 DEF AddWord, IInv, TypeInv
  <2> QED
    BY <1>2, <2>3 DEF AddWord, IInv, TypeInv, LoopInv, AcceptsMultiples, Running
<1>3. CASE AddOctet
  <2>1. Data[at] \in Nat
    BY <1>1, <1>3 DEF AddOctet, IInv, TypeInv
  <2>2. sum' \in Nat
    BY <1>3, <2>1 DEF AddOctet, IInv, TypeInv
  <2> QED
    BY <1>3, <2>2 DEF AddOctet, IInv, TypeInv, LoopInv, AcceptsMultiples, Running
<1>4. CASE NextPart
  <2>1. Residue(sum, sum)
    <3>1. sum = sum + 0 * AllOnes
      BY Sizes DEF IInv, TypeInv
    <3> QED
      BY <3>1 DEF Residue
  <2>2. TypeInv'
    BY <1>4 DEF NextPart, IInv, TypeInv
  <2>3. sum = total
    BY <1>4 DEF NextPart, IInv, LoopInv
  <2>4. LoopInv'
    BY <1>4, <2>1, <2>3 DEF NextPart, LoopInv, Running, Residue
  <2> QED
    BY <1>4, <2>2, <2>4 DEF NextPart, IInv, AcceptsMultiples, Running
<1> QED
  BY <1>2, <1>3, <1>4

\* the loop that folds,
LEMMA FoldStep ==
  ASSUME IInv, Fold PROVE IInv'
<1>1. sum' \in Nat /\ Residue(total, sum')
  BY FoldKeepsResidue DEF Fold, IInv, TypeInv, LoopInv
<1>2. TypeInv' /\ Residue(total, sum)'
  BY <1>1 DEF Fold, IInv, TypeInv, Residue
<1> QED
  BY <1>2 DEF Fold, IInv, LoopInv, AcceptsMultiples, Running

\* the end of _calculate_checksum,
LEMMA StoreStep ==
  ASSUME IInv, Store PROVE IInv'
<1>1. sum \in Nat /\ AllOnes - sum \in Nat
  BY Sizes DEF Store, Folded, IInv, TypeInv
<1>2. (AllOnes - sum) % Radix \in Nat /\ (AllOnes - sum) \div Radix \in Nat
  BY <1>1, Sizes, Division
<1>3. header' \in Seq(Nat) /\ Len(header') = HeaderSize
  <2> DEFINE low == [header EXCEPT ![ChecksumAt] = (AllOnes - sum) % Radix]
  <2>1. low \in Seq(Nat) /\ Len(low) = HeaderSize
    <3>1. header \in Seq(Nat) /\ ChecksumAt \in 1..Len(header) /\ Len(header) = HeaderSize
      BY ChecksumAssumption DEF IInv, TypeInv
    <3> QED
      BY <1>2, <3>1, ExceptSeq
  <2>2. header' = [low EXCEPT ![ChecksumAt + 1] = (AllOnes - sum) \div Radix]
    BY DEF Store
  <2> HIDE DEF low
  <2>3. ChecksumAt + 1 \in 1..Len(low)
    BY <2>1, ChecksumAssumption
  <2> QED
    BY <1>2, <2>1, <2>2, <2>3, ExceptSeq
<1> QED
  BY <1>3 DEF Store, IInv, TypeInv, LoopInv, AcceptsMultiples, Running

\* the wire,
LEMMA WireStep ==
  ASSUME IInv, SendZeroed \/ Damage \/ _verify_checksum PROVE IInv'
<1>1. CASE SendZeroed
  <2>1. header' \in [1..HeaderSize -> Nat] /\ HeaderSize \in Nat
    BY <1>1, NatOctets, ChecksumAssumption DEF SendZeroed
  <2>2. header' \in Seq(Nat) /\ Len(header') = HeaderSize
    BY <2>1, FunctionIsSeq
  <2> QED
    BY <1>1, <2>2 DEF SendZeroed, IInv, TypeInv, LoopInv, AcceptsMultiples, Running
<1>2. CASE Damage
  <2>1. /\ header' \in Seq(Nat) /\ Len(header') = HeaderSize
        /\ payload' \in Seq(Nat)
    <3>1. CASE \E i \in DOMAIN header : \E o \in Octet \ {header[i]} :
                 header' = [header EXCEPT ![i] = o] /\ UNCHANGED payload
      <4>1. PICK i \in DOMAIN header : \E o \in Nat : header' = [header EXCEPT ![i] = o]
        BY <3>1, NatOctets
      <4> QED
        BY <3>1, <4>1, ReplaceOctet DEF IInv, TypeInv
    <3>2. CASE \E i \in DOMAIN payload : \E o \in Octet \ {payload[i]} :
                 payload' = [payload EXCEPT ![i] = o] /\ UNCHANGED header
      <4>1. PICK i \in DOMAIN payload : \E o \in Nat : payload' = [payload EXCEPT ![i] = o]
        BY <3>2, NatOctets
      <4> QED
        BY <3>2, <4>1, ReplaceOctet DEF IInv, TypeInv
    <3> QED
      BY <1>2, <3>1, <3>2 DEF Damage
  <2> QED
    BY <1>2, <2>1 DEF Damage, IInv, TypeInv, LoopInv, AcceptsMultiples, Running
<1>3. CASE _verify_checksum
  BY <1>3 DEF _verify_checksum, Begin, IInv, TypeInv, LoopInv, AcceptsMultiples,
              Running
<1> QED
  BY <1>1, <1>2, <1>3

\* and the end of _verify_checksum.
LEMMA ReturnStep ==
  ASSUME IInv, Return PROVE IInv'
<1>1. Residue(total, sum) /\ sum < Modulus /\ sum \in Nat /\ total \in Nat
  BY DEF Return, Folded, IInv, TypeInv, LoopInv, Running
<1>2. AllOnes - sum = 0 <=> (total # 0 /\ Multiple(total))
  BY <1>1, TestOfResidue
<1>3. AcceptsMultiples'
  BY <1>2 DEF Return, AcceptsMultiples, Multiple
<1> QED
  BY <1>3 DEF Return, IInv, TypeInv, LoopInv, Running

\* So every step keeps it.
LEMMA NextStep == IInv /\ [Next]_vars => IInv'
<1> SUFFICES ASSUME IInv, [Next]_vars PROVE IInv'
  OBVIOUS
<1>1. CASE Next
  BY <1>1, CalculateStep, AddStep, FoldStep, StoreStep, WireStep, ReturnStep DEF Next
<1>2. CASE UNCHANGED vars
  BY <1>2 DEF vars, IInv, TypeInv, LoopInv, AcceptsMultiples, Running, Residue, Multiple
<1> QED
  BY <1>1, <1>2

-----------------------------------------------------------------------------
\* _verify_checksum accepts exactly the packets whose words have a sum that is a
\* positive multiple of 0xFFFF, however often its loop has to fold.
THEOREM VerifyTestsTheSum == Spec => []AcceptsMultiples
<1>1. IInv => AcceptsMultiples
  BY DEF IInv
<1> QED
  BY InitIInv, NextStep, <1>1, PTL DEF Spec

-----------------------------------------------------------------------------
(* Induction.  The theorem of the library about well-founded orders needs no *)
(* operator for a parameter, and so serves to prove recursive definitions.   *)

\* Induction over the numbers, for a set.
LEMMA Induction ==
  ASSUME NEW S, 0 \in S, \A n \in Nat : n \in S => n + 1 \in S
  PROVE  Nat \subseteq S
<1> SUFFICES ASSUME Nat \ S # {} PROVE FALSE
  OBVIOUS
<1> DEFINE R == {ss \in Nat \X Nat : ss[1] < ss[2]}
<1>1. IsWellFoundedOn(R, Nat)
  BY NatLessThanWellFounded DEF OpToRel
<1>2. PICK x \in Nat \ S : \A y \in Nat \ S : ~(<<y, x>> \in R)
  <2> HIDE DEF R
  <2>1. Nat \ S \subseteq Nat
    OBVIOUS
  <2> QED
    BY <1>1, <2>1, WFMin
<1>3. x - 1 \in Nat \ S /\ <<x - 1, x>> \in R
  OBVIOUS
<1> QED
  BY <1>2, <1>3

\* f starts with 0 and follows the steps up to m.
Follows(f, m, step) ==
  /\ f \in [0..m -> Nat] /\ f[0] = 0
  /\ \A k \in 1..m : f[k] = step[<<f[k - 1], k>>]

\* There is a function on 0..n with given steps.
LEMMA Recursion ==
  ASSUME NEW n \in Nat, NEW step, step \in [Nat \X (1..n) -> Nat]
  PROVE  \E f : Follows(f, n, step)
<1> DEFINE S == {m \in Nat : m <= n => \E f : Follows(f, m, step)}
<1>1. 0 \in S
  <2>1. Follows([k \in 0..0 |-> 0], 0, step)
    BY DEF Follows
  <2> QED
    BY <2>1
<1>2. ASSUME NEW m \in Nat, m \in S PROVE m + 1 \in S
  <2>1. ASSUME m + 1 <= n PROVE \E f : Follows(f, m + 1, step)
    <3>1. m <= n
      BY <1>2, <2>1
    <3>2. PICK f : Follows(f, m, step)
      BY <1>2, <3>1
    <3> DEFINE v == step[<<f[m], m + 1>>]
               g == [k \in 0..(m + 1) |-> IF k = m + 1 THEN v ELSE f[k]]
    <3>3. v \in Nat
      <4>1. f[m] \in Nat /\ m + 1 \in 1..n
        BY <2>1, <3>2 DEF Follows
      <4> QED
        BY <4>1
    <3> HIDE DEF v
    <3>4. g \in [0..(m + 1) -> Nat] /\ g[0] = 0
      BY <3>2, <3>3 DEF Follows
    <3>5. ASSUME NEW k \in 1..(m + 1)
          PROVE  g[k] = step[<<g[k - 1], k>>]
      <4>1. CASE k = m + 1
        <5>1. g[k] = v /\ g[k - 1] = f[m]
          BY <4>1
        <5> QED
          BY <4>1, <5>1 DEF v
      <4>2. CASE k # m + 1
        <5>1. k \in 1..m /\ g[k] = f[k] /\ g[k - 1] = f[k - 1]
          BY <4>2
        <5> QED
          BY <3>2, <5>1 DEF Follows
      <4> QED
        BY <4>1, <4>2
    <3> HIDE DEF g
    <3>6. Follows(g, m + 1, step)
      BY <3>4, <3>5 DEF Follows
    <3> QED
      BY <3>6
  <2> QED
    BY <2>1
<1>3. n \in S
  <2> HIDE DEF S
  <2> QED
    BY <1>1, <1>2, Induction
<1> QED
  BY <1>3

-----------------------------------------------------------------------------
(* The sums.                                                               *)

\* What an octet adds to the sum: it is the lower or the higher octet of a word.
Weight(i) == IF i % 2 = 1 THEN 1 ELSE Radix

\* What octet i of q adds.
Term(q, i) == Weight(i) * q[i]

\* The sums of the first octets.
Sums(q) ==
  LET f[k \in 0..Len(q)] == IF k = 0 THEN 0 ELSE f[k - 1] + Term(q, k)
  IN  f

\* The sum of all octets.
Sum(q) == Sums(q)[Len(q)]

\* An octet counts for no more than a word.
LEMMA TermBound ==
  ASSUME NEW q \in Seq(Octet), NEW i \in 1..Len(q)
  PROVE  /\ Term(q, i) \in Nat
         /\ i % 2 = 1 => Term(q, i) = q[i]
         /\ i % 2 # 1 => Term(q, i) = Radix * q[i] /\ Radix * q[i] <= Modulus - Radix
<1>1. q[i] \in Nat /\ q[i] <= Radix - 1
  BY Sizes DEF Octet
<1>2. Radix * q[i] \in Nat /\ Radix * q[i] <= Radix * (Radix - 1)
  BY <1>1, Sizes
<1>3. Radix * (Radix - 1) = Modulus - Radix
  BY Sizes DEF Modulus
<1> QED
  BY <1>1, <1>2, <1>3 DEF Term, Weight

\* The recursive definition of Sums.
LEMMA SumsDef ==
  ASSUME NEW q \in Seq(Octet)
  PROVE  /\ Sums(q) \in [0..Len(q) -> Nat] /\ Sums(q)[0] = 0
         /\ \A k \in 1..Len(q) : Sums(q)[k] = Sums(q)[k - 1] + Term(q, k)
<1> DEFINE n == Len(q)
           step == [x \in Nat \X (1..n) |-> x[1] + Term(q, x[2])]
           F(f) == [k \in 0..n |-> IF k = 0 THEN 0 ELSE f[k - 1] + Term(q, k)]
<1>1. n \in Nat
  BY LenProperties
<1>2. step \in [Nat \X (1..n) -> Nat]
  BY TermBound
<1>3. PICK f : Follows(f, n, step)
  <2> HIDE DEF step, n
  <2> QED
    BY <1>1, <1>2, Recursion
<1>4. ASSUME NEW k \in 1..n PROVE f[k] = f[k - 1] + Term(q, k)
  <2>1. f[k - 1] \in Nat
    BY <1>1, <1>3 DEF Follows
  <2>2. step[<<f[k - 1], k>>] = f[k - 1] + Term(q, k)
    BY <2>1
  <2> QED
    BY <1>3, <2>2 DEF Follows
<1>5. f = F(f)
  <2>1. \A k \in 0..n : f[k] = IF k = 0 THEN 0 ELSE f[k - 1] + Term(q, k)
    <3> HIDE DEF step
    <3> QED
      BY <1>1, <1>3, <1>4 DEF Follows
  <2>2. f \in [0..n -> Nat]
    BY <1>3 DEF Follows
  <2> QED
    BY <2>1, <2>2
<1>6. Sums(q) = CHOOSE h : h = F(h)
  BY DEF Sums
<1> DEFINE s == Sums(q)
<1>7. s = F(s)
  <2> HIDE DEF F
  <2> QED
    BY <1>5, <1>6
<1> HIDE DEF s
<1>8. /\ DOMAIN s = 0..n /\ s[0] = 0
      /\ \A k \in 1..n : s[k] = s[k - 1] + Term(q, k)
  BY <1>1, <1>7
<1>9. \A k \in 0..n : s[k] \in Nat
  <2> DEFINE S == {k \in Nat : k <= n => s[k] \in Nat}
  <2>1. 0 \in S
    BY <1>8
  <2>2. \A k \in Nat : k \in S => k + 1 \in S
    <3> SUFFICES ASSUME NEW k \in Nat, k \in S, k + 1 <= n PROVE s[k + 1] \in Nat
      OBVIOUS
    <3>1. s[k + 1] = s[k] + Term(q, k + 1) /\ s[k] \in Nat
      BY <1>1, <1>8
    <3>2. Term(q, k + 1) \in Nat
      BY <1>1, TermBound
    <3> QED
      BY <3>1, <3>2
  <2>3. Nat \subseteq S
    <3> HIDE DEF S
    <3> QED
      BY <2>1, <2>2, Induction
  <2> QED
    BY <1>1, <2>3
<1>10. s \in [0..n -> Nat]
  BY <1>7, <1>9
<1> QED
  BY <1>8, <1>10 DEF s

\* How many words there are.
LEMMA WordsBound ==
  ASSUME NEW q \in Seq(Octet)
  PROVE  /\ Len(q) \in Nat /\ Words(q) \in Nat
         /\ 2 * Words(q) >= Len(q) /\ 2 * Words(q) <= Len(q) + 1
<1>1. Len(q) \in Nat
  BY LenProperties
<1>2. \A n \in Nat : /\ (n + 1) \div 2 \in Nat
                     /\ 2 * ((n + 1) \div 2) >= n /\ 2 * ((n + 1) \div 2) <= n + 1
  OBVIOUS
<1> QED
  BY <1>1, <1>2 DEF Words

\* The sum of the first words goes on by one word.
LEMMA WordAdds ==
  ASSUME NEW q \in Seq(Octet), NEW k \in Nat, k + 1 <= Words(q)
  PROVE  /\ WordOf(q, k + 1) \in Nat /\ WordOf(q, k + 1) <= AllOnes
         /\ 2 * k < Len(q)
         /\ Sums(q)[IF 2 * (k + 1) <= Len(q) THEN 2 * (k + 1) ELSE Len(q)]
              = Sums(q)[2 * k] + WordOf(q, k + 1)
<1> DEFINE s == Sums(q)
           n == Len(q)
           i == 2 * k + 1
           w == WordOf(q, k + 1)
<1>1. n \in Nat /\ i \in 1..n /\ 2 * k < n /\ i - 1 = 2 * k /\ i % 2 = 1
  <2>1. n \in Nat /\ Words(q) \in Nat /\ 2 * Words(q) <= n + 1
    BY WordsBound
  <2>2. 2 * k + 1 <= n
    BY <2>1
  <2> QED
    BY <2>1, <2>2
<1>2. s[i] = s[2 * k] + q[i] /\ q[i] \in Octet /\ s[2 * k] \in Nat
  <2>1. q[i] \in Octet
    BY <1>1
  <2>2. Term(q, i) = q[i]
    BY <1>1, TermBound
  <2>3. s[i] = s[i - 1] + Term(q, i) /\ s \in [0..n -> Nat]
    BY <1>1, SumsDef
  <2>4. 2 * k \in 0..n
    BY <1>1
  <2> HIDE DEF s, n
  <2> QED
    BY <1>1, <2>1, <2>2, <2>3, <2>4
<1>3. 2 * (k + 1) - 1 = i /\ 2 * (k + 1) = i + 1
  BY <1>1
<1>4. q[i] \in Nat /\ q[i] <= Radix - 1
  BY <1>2, Sizes DEF Octet
<1>5. CASE i + 1 <= n
  <2>1. i + 1 \in 1..n /\ (i + 1) % 2 # 1 /\ (i + 1) - 1 = i
    BY <1>1, <1>5
  <2>2. /\ Term(q, i + 1) \in Nat /\ Term(q, i + 1) <= Modulus - Radix
        /\ Term(q, i + 1) = Radix * q[i + 1]
    BY <2>1, TermBound
  <2>3. w = q[i] + Term(q, i + 1)
    BY <1>3, <1>5, <2>2 DEF WordOf
  <2>4. s[i + 1] = s[i] + Term(q, i + 1)
    BY <2>1, SumsDef
  <2> DEFINE t == Term(q, i + 1)
  <2> HIDE DEF w, s, n, t, i
  <2>5. w \in Nat /\ w <= AllOnes
    BY <1>4, <2>2, <2>3, Sizes DEF t
  <2>6. s[i + 1] = s[2 * k] + w
    BY <1>2, <1>4, <2>2, <2>3, <2>4 DEF t
  <2> QED
    BY <1>1, <1>3, <1>5, <2>5, <2>6 DEF w, s, n
<1>6. CASE ~(i + 1 <= n)
  <2>1. n = i
    BY <1>1, <1>6
  <2>2. w = q[i]
    BY <1>3, <1>4, <1>6 DEF WordOf
  <2> HIDE DEF w, s, n, i
  <2>3. w \in Nat /\ w <= AllOnes
    <3>1. Modulus >= 2 * Radix
      BY Sizes DEF Modulus
    <3> QED
      BY <1>4, <2>2, <3>1, Sizes
  <2> QED
    BY <1>1, <1>2, <1>3, <1>6, <2>1, <2>2, <2>3 DEF w, s, n
<1> QED
  BY <1>5, <1>6

\* The recursive definition of the reference.
LEMMA EndAroundDef ==
  ASSUME NEW q \in Seq(Octet)
  PROVE  /\ EndAroundSums(q)[0] = 0
         /\ \A k \in 1..Words(q) : EndAroundSums(q)[k] = EndAround(EndAroundSums(q)[k - 1] + WordOf(q, k))
<1> DEFINE n == Words(q)
           step == [x \in Nat \X (1..n) |-> EndAround(x[1] + WordOf(q, x[2]))]
           F(f) == [k \in 0..n |-> IF k = 0 THEN 0 ELSE EndAround(f[k - 1] + WordOf(q, k))]
<1>1. n \in Nat
  BY WordsBound
<1>2. \A k \in 1..n : WordOf(q, k) \in Nat
  <2> SUFFICES ASSUME NEW k \in 1..n PROVE WordOf(q, k) \in Nat
    OBVIOUS
  <2>1. k - 1 \in Nat /\ (k - 1) + 1 = k /\ (k - 1) + 1 <= n
    BY <1>1
  <2>2. WordOf(q, (k - 1) + 1) \in Nat
    BY <2>1, WordAdds
  <2> QED
    BY <2>1, <2>2
<1>3. \A v \in Nat, k \in 1..n : EndAround(v + WordOf(q, k)) \in Nat
  BY <1>2, Sizes DEF EndAround
<1>4. step \in [Nat \X (1..n) -> Nat]
  BY <1>3
<1>5. PICK f : Follows(f, n, step)
  <2> HIDE DEF step, n
  <2> QED
    BY <1>1, <1>4, Recursion
<1>6. ASSUME NEW k \in 1..n PROVE f[k] = EndAround(f[k - 1] + WordOf(q, k))
  <2>1. f[k - 1] \in Nat
    BY <1>1, <1>5 DEF Follows
  <2>2. step[<<f[k - 1], k>>] = EndAround(f[k - 1] + WordOf(q, k))
    BY <2>1
  <2> QED
    BY <1>5, <2>2 DEF Follows
<1>7. f = F(f)
  <2>1. \A k \in 0..n : f[k] = IF k = 0 THEN 0 ELSE EndAround(f[k - 1] + WordOf(q, k))
    <3> HIDE DEF step
    <3> QED
      BY <1>1, <1>5, <1>6 DEF Follows
  <2>2. f \in [0..n -> Nat]
    BY <1>5 DEF Follows
  <2> QED
    BY <2>1, <2>2
<1>8. EndAroundSums(q) = CHOOSE h : h = F(h)
  BY DEF EndAroundSums
<1> DEFINE s == EndAroundSums(q)
<1>9. s = F(s)
  <2> HIDE DEF F
  <2> QED
    BY <1>7, <1>8
<1> HIDE DEF s
<1>10. s[0] = 0 /\ \A k \in 1..n : s[k] = EndAround(s[k - 1] + WordOf(q, k))
  BY <1>1, <1>9
<1> QED
  BY <1>10 DEF s

\* Adding a word to both sums keeps the residue.
LEMMA ResidueAdds ==
  ASSUME NEW whole \in Nat, NEW n \in Nat, n <= AllOnes, Residue(whole, n),
         NEW w \in Nat, w <= AllOnes
  PROVE  /\ Residue(whole + w, EndAround(n + w))
         /\ EndAround(n + w) \in Nat /\ EndAround(n + w) <= AllOnes
<1>1. PICK k \in Nat : whole = n + k * AllOnes
  BY DEF Residue
<1>2. AllOnes \in Nat /\ AllOnes >= 3 /\ Modulus = AllOnes + 1 /\ k * AllOnes \in Nat
  BY Sizes
<1>3. (k + 1) * AllOnes = k * AllOnes + AllOnes
  BY <1>2
<1>4. CASE n + w >= Modulus
  <2>1. EndAround(n + w) = n + w - AllOnes
    BY <1>2, <1>4 DEF EndAround
  <2>2. whole + w = (n + w - AllOnes) + (k + 1) * AllOnes
    BY <1>1, <1>2, <1>3
  <2>3. n + w - AllOnes \in Nat /\ n + w - AllOnes <= AllOnes /\ n + w - AllOnes # 0
    BY <1>2, <1>4
  <2>4. whole + w # 0
    BY <1>2, <1>4, <2>2, <2>3, <1>3
  <2> QED
    BY <2>1, <2>2, <2>3, <2>4 DEF Residue
<1>5. CASE ~(n + w >= Modulus)
  <2>1. EndAround(n + w) = n + w
    BY <1>2, <1>5 DEF EndAround
  <2>2. whole + w = (n + w) + k * AllOnes
    BY <1>1, <1>2
  <2>3. n + w = 0 <=> whole + w = 0
    BY DEF Residue
  <2> QED
    BY <1>2, <1>5, <2>1, <2>2, <2>3 DEF Residue
<1> QED
  BY <1>4, <1>5

\* There is one residue of a sum.
LEMMA ResidueUnique ==
  ASSUME NEW whole \in Nat, NEW m \in Nat, m <= AllOnes, Residue(whole, m),
         NEW n \in Nat, n <= AllOnes, Residue(whole, n)
  PROVE  m = n
<1>1. PICK j \in Nat : whole = m + j * AllOnes
  BY DEF Residue
<1>2. PICK k \in Nat : whole = n + k * AllOnes
  BY DEF Residue
<1>3. m = 0 <=> n = 0
  BY DEF Residue
<1>4. AllOnes \in Nat /\ AllOnes >= 3
  BY Sizes
<1>5. m - n = (k - j) * AllOnes
  <2>1. (k - j) * AllOnes = k * AllOnes - j * AllOnes
    BY <1>4
  <2>2. k * AllOnes \in Nat /\ j * AllOnes \in Nat
    BY <1>4
  <2> QED
    BY <1>1, <1>2, <2>1, <2>2
<1>6. CASE k - j >= 1
  <2>1. (k - j) * AllOnes >= AllOnes
    BY <1>4, <1>6
  <2> QED
    BY <1>3, <1>4, <1>5, <2>1
<1>7. CASE k - j <= 0 - 1
  <2>1. (k - j) * AllOnes <= 0 - AllOnes
    BY <1>4, <1>7
  <2> QED
    BY <1>3, <1>4, <1>5, <2>1
<1>8. CASE k - j = 0
  BY <1>4, <1>5, <1>8
<1> QED
  BY <1>6, <1>7, <1>8

\* The sum and the reference leave the same residue.
LEMMA ReferenceResidue ==
  ASSUME NEW q \in Seq(Octet)
  PROVE  LET n == EndAroundSums(q)[Words(q)]
         IN  n \in Nat /\ n <= AllOnes /\ Sum(q) \in Nat /\ Residue(Sum(q), n)
<1> DEFINE s == Sums(q)
           f == EndAroundSums(q)
           end(k) == IF 2 * k <= Len(q) THEN 2 * k ELSE Len(q)
           Good(k) == f[k] \in Nat /\ f[k] <= AllOnes /\ Residue(s[end(k)], f[k])
           S == {k \in Nat : k <= Words(q) => Good(k)}
<1>1. Len(q) \in Nat /\ Words(q) \in Nat /\ 2 * Words(q) >= Len(q)
  BY WordsBound
<1>2. s \in [0..Len(q) -> Nat] /\ s[0] = 0
  BY SumsDef
<1>3. 0 \in S
  <2>1. f[0] = 0 /\ end(0) = 0 /\ AllOnes \in Nat
    BY <1>1, EndAroundDef, Sizes
  <2>2. Residue(0, 0)
    BY Sizes DEF Residue
  <2> QED
    BY <1>2, <2>1, <2>2
<1>4. ASSUME NEW k \in Nat, k \in S PROVE k + 1 \in S
  <2> SUFFICES ASSUME k + 1 <= Words(q) PROVE Good(k + 1)
    OBVIOUS
  <2>1. Good(k) /\ 2 * k < Len(q)
    BY <1>1, <1>4, WordAdds
  <2>2. end(k) = 2 * k /\ s[2 * k] \in Nat
    BY <1>1, <1>2, <2>1
  <2> DEFINE w == WordOf(q, k + 1)
  <2>3. w \in Nat /\ w <= AllOnes /\ s[end(k + 1)] = s[2 * k] + w
    BY WordAdds
  <2>4. f[k + 1] = EndAround(f[k] + w)
    <3>1. k + 1 \in 1..Words(q) /\ (k + 1) - 1 = k
      BY <1>1
    <3> QED
      BY <3>1, EndAroundDef
  <2> HIDE DEF w, s, f, end
  <2>5. /\ Residue(s[2 * k] + w, EndAround(f[k] + w))
        /\ EndAround(f[k] + w) \in Nat /\ EndAround(f[k] + w) <= AllOnes
    BY <2>1, <2>2, <2>3, ResidueAdds
  <2> QED
    BY <2>3, <2>4, <2>5
<1>5. Good(Words(q))
  <2> HIDE DEF Good
  <2>1. Nat \subseteq S
    <3> HIDE DEF S
    <3> QED
      BY <1>3, <1>4, Induction
  <2> QED
    BY <1>1, <2>1
<1>6. end(Words(q)) = Len(q)
  BY <1>1
<1>7. s[Len(q)] \in Nat
  BY <1>1, <1>2
<1> QED
  BY <1>5, <1>6, <1>7 DEF Sum

\* One octet makes a difference of its own weight.
LEMMA SumChanges ==
  ASSUME NEW q \in Seq(Octet), NEW r \in Seq(Octet), Len(r) = Len(q), NEW i \in 1..Len(q),
         \A x \in 1..Len(q) : x # i => r[x] = q[x]
  PROVE  /\ Sum(q) \in Nat /\ Term(q, i) \in Nat /\ Term(r, i) \in Nat
         /\ Sum(r) = Sum(q) + Term(r, i) - Term(q, i)
<1> DEFINE n == Len(q)
           s == Sums(q)
           t == Sums(r)
           d == Term(r, i) - Term(q, i)
           Good(k) == t[k] = s[k] + (IF k >= i THEN d ELSE 0)
           S == {k \in Nat : k <= n => Good(k)}
<1>1. n \in Nat /\ i \in 1..n /\ i \in 1..Len(r)
  BY LenProperties
<1>2. /\ s \in [0..n -> Nat] /\ s[0] = 0 /\ \A k \in 1..n : s[k] = s[k - 1] + Term(q, k)
      /\ t \in [0..n -> Nat] /\ t[0] = 0 /\ \A k \in 1..n : t[k] = t[k - 1] + Term(r, k)
  BY SumsDef
<1>3. \A k \in 1..n : Term(q, k) \in Nat /\ Term(r, k) \in Nat
  BY TermBound
<1>4. \A k \in 1..n : k # i => Term(r, k) = Term(q, k)
  BY DEF Term
<1>5. d \in Int
  BY <1>1, <1>3
<1> HIDE DEF s, t
<1>6. 0 \in S
  BY <1>1, <1>2
<1>7. ASSUME NEW k \in Nat, k \in S PROVE k + 1 \in S
  <2> SUFFICES ASSUME k + 1 <= n PROVE Good(k + 1)
    OBVIOUS
  <2>1. Good(k) /\ k + 1 \in 1..n /\ (k + 1) - 1 = k /\ k \in 0..n
    BY <1>1, <1>7
  <2> DEFINE a == Term(q, k + 1)
             b == Term(r, k + 1)
  <2>2. a \in Nat /\ b \in Nat /\ s[k] \in Nat
    BY <1>2, <1>3, <2>1
  <2>3. s[k + 1] = s[k] + a /\ t[k + 1] = t[k] + b
    BY <1>2, <2>1
  <2>4. CASE k + 1 = i
    <3>1. d = b - a /\ t[k] = s[k] + 0
      BY <1>1, <2>1, <2>4
    <3> HIDE DEF a, b, d
    <3> QED
      BY <2>2, <2>3, <2>4, <3>1
  <2>5. CASE k + 1 # i
    <3>1. a = b
      BY <1>4, <2>1, <2>5
    <3> HIDE DEF a, b, d
    <3>2. k + 1 >= i <=> k >= i
      BY <1>1, <2>5
    <3> QED
      BY <1>5, <2>1, <2>2, <2>3, <3>1, <3>2
  <2> QED
    BY <2>4, <2>5
<1>8. Nat \subseteq S
  <2> HIDE DEF S
  <2> QED
    BY <1>6, <1>7, Induction
<1>9. t[n] = s[n] + d
  <2> HIDE DEF d
  <2> QED
    BY <1>1, <1>8
<1>10. s[n] \in Nat
  BY <1>1, <1>2
<1>11. Sum(q) = s[n] /\ Sum(r) = t[n]
  BY DEF Sum, s, t
<1>12. Term(q, i) \in Nat /\ Term(r, i) \in Nat
  BY <1>1, <1>3
<1> DEFINE a == Term(q, i)
           b == Term(r, i)
<1> HIDE DEF a, b, n
<1>13. t[n] = s[n] + b - a
  <2>1. d = b - a
    BY DEF a, b
  <2> HIDE DEF d
  <2> QED
    BY <1>9, <1>10, <1>12, <2>1 DEF a, b
<1> QED
  BY <1>10, <1>11, <1>12, <1>13 DEF a, b

\* Nothing adds up to nothing.
LEMMA SumOfZeros ==
  ASSUME NEW q \in Seq(Octet), \A x \in 1..Len(q) : q[x] = 0
  PROVE  Sum(q) = 0
<1> DEFINE n == Len(q)
           s == Sums(q)
           S == {k \in Nat : k <= n => s[k] = 0}
<1>1. n \in Nat /\ s[0] = 0 /\ \A k \in 1..n : s[k] = s[k - 1] + Term(q, k)
  BY LenProperties, SumsDef
<1>2. \A k \in 1..n : Term(q, k) = 0
  BY Sizes DEF Term, Weight
<1>3. ASSUME NEW k \in Nat, k \in S PROVE k + 1 \in S
  <2> SUFFICES ASSUME k + 1 <= n PROVE s[k + 1] = 0
    OBVIOUS
  <2>1. s[k] = 0 /\ k + 1 \in 1..n /\ (k + 1) - 1 = k
    BY <1>1, <1>3
  <2> HIDE DEF s, n
  <2> QED
    BY <1>1, <1>2, <2>1
<1>4. 0 \in S
  BY <1>1
<1>5. Nat \subseteq S
  <2> HIDE DEF S
  <2> QED
    BY <1>3, <1>4, Induction
<1> QED
  BY <1>1, <1>5 DEF Sum

\* What _verify_checksum looks for (TestOfResidue).
Complete(whole) == whole # 0 /\ Multiple(whole)

\* A positive multiple of AllOnes.
LEMMA CompleteMeans ==
  ASSUME NEW whole \in Nat
  PROVE  Complete(whole) <=> \E k \in Nat : k >= 1 /\ whole = k * AllOnes
<1>1. ASSUME Complete(whole) PROVE \E k \in Nat : k >= 1 /\ whole = k * AllOnes
  <2>1. PICK k \in 0..whole : whole = k * AllOnes
    BY <1>1 DEF Complete, Multiple
  <2>2. k # 0
    BY <1>1, <2>1, Sizes DEF Complete
  <2> QED
    BY <2>1, <2>2
<1>2. ASSUME NEW k \in Nat, k >= 1, whole = k * AllOnes PROVE Complete(whole)
  <2>1. k <= k * AllOnes
    BY Sizes
  <2>2. k \in 0..whole /\ whole # 0
    BY <1>2, <2>1
  <2> QED
    BY <1>2, <2>2 DEF Complete, Multiple
<1> QED
  BY <1>1, <1>2

\* A change by less than AllOnes spoils a multiple.
LEMMA SpoiledSum ==
  ASSUME NEW whole \in Nat, Complete(whole), NEW d \in Int, d # 0, d < AllOnes, 0 - d < AllOnes,
         NEW other \in Nat, other = whole + d
  PROVE  ~Complete(other)
<1> SUFFICES ASSUME Complete(other) PROVE FALSE
  OBVIOUS
<1>1. PICK j \in Nat : whole = j * AllOnes
  BY CompleteMeans
<1>2. PICK k \in Nat : other = k * AllOnes
  BY CompleteMeans
<1>3. AllOnes \in Nat /\ AllOnes >= 3
  BY Sizes
<1>4. d = (k - j) * AllOnes
  <2>1. (k - j) * AllOnes = k * AllOnes - j * AllOnes
    BY <1>3
  <2>2. k * AllOnes \in Nat /\ j * AllOnes \in Nat
    BY <1>3
  <2> QED
    BY <1>1, <1>2, <2>1, <2>2
<1>5. CASE k - j >= 1
  <2>1. (k - j) * AllOnes >= AllOnes
    BY <1>3, <1>5
  <2> QED
    BY <1>3, <1>4, <2>1
<1>6. CASE k - j <= 0 - 1
  <2>1. (k - j) * AllOnes <= 0 - AllOnes
    BY <1>3, <1>6
  <2> QED
    BY <1>3, <1>4, <2>1
<1>7. CASE k - j = 0
  BY <1>3, <1>4, <1>7
<1> QED
  BY <1>5, <1>6, <1>7

\* Multiplication by the radix keeps numbers apart.
LEMMA TimesRadix ==
  ASSUME NEW x \in Nat, NEW y \in Nat, x # y
  PROVE  Radix * x # Radix * y
<1>1. \A a, b \in Nat : a < b => Radix * a < Radix * b
  <2> SUFFICES ASSUME NEW a \in Nat, NEW b \in Nat, a < b PROVE Radix * a < Radix * b
    OBVIOUS
  <2> DEFINE k == b - a
  <2>1. k \in Nat /\ k >= 1 /\ b = a + k
    OBVIOUS
  <2> HIDE DEF k
  <2>2. Radix * b = Radix * a + Radix * k
    BY <2>1, Sizes
  <2>3. Radix * k >= k
    BY <2>1, Sizes
  <2>4. Radix * a \in Nat /\ Radix * k \in Nat
    BY <2>1, Sizes
  <2> QED
    BY <2>1, <2>2, <2>3, <2>4
<1>2. x < y \/ y < x
  OBVIOUS
<1>3. Radix * x \in Nat /\ Radix * y \in Nat
  BY Sizes
<1> QED
  BY <1>1, <1>2, <1>3

\* Another value of one octet spoils the sum.
LEMMA DamageShows ==
  ASSUME NEW q \in Seq(Octet), NEW r \in Seq(Octet), Len(r) = Len(q), NEW i \in 1..Len(q),
         \A x \in 1..Len(q) : x # i => r[x] = q[x], r[i] # q[i], Complete(Sum(q))
  PROVE  ~Complete(Sum(r))
<1> DEFINE a == Term(q, i)
           b == Term(r, i)
<1>1. /\ Sum(q) \in Nat /\ a \in Nat /\ b \in Nat /\ Sum(r) = Sum(q) + b - a
  BY SumChanges
<1>2. q[i] \in Nat /\ q[i] <= Radix - 1 /\ r[i] \in Nat /\ r[i] <= Radix - 1
  BY Sizes DEF Octet
<1>3. Modulus >= 2 * Radix /\ AllOnes = Modulus - 1 /\ Radix \in Nat /\ Radix >= 2 /\ Modulus \in Nat
  BY Sizes DEF Modulus
<1>4. b - a # 0 /\ b - a < AllOnes /\ 0 - (b - a) < AllOnes
  <2>1. CASE i % 2 = 1
    <3>1. a = q[i] /\ b = r[i]
      BY <2>1, TermBound
    <3> HIDE DEF a, b
    <3> QED
      BY <1>2, <1>3, <3>1
  <2>2. CASE i % 2 # 1
    <3>1. /\ a = Radix * q[i] /\ a <= Modulus - Radix
          /\ b = Radix * r[i] /\ b <= Modulus - Radix
      BY <2>2, TermBound
    <3>2. Radix * q[i] # Radix * r[i]
      BY <1>2, TimesRadix
    <3> HIDE DEF a, b
    <3> QED
      BY <1>1, <1>3, <3>1, <3>2
  <2> QED
    BY <2>1, <2>2
<1>5. Sum(r) \in Nat
  BY LenProperties, SumsDef DEF Sum
<1> HIDE DEF a, b
<1>6. b - a \in Int /\ Sum(r) = Sum(q) + (b - a)
  BY <1>1
<1> QED
  BY <1>1, <1>4, <1>5, <1>6, SpoiledSum

-----------------------------------------------------------------------------
(* The packet and its sum.                                                 *)

\* The packet as one string.
Octets == header \o payload

\* How many octets have been added.
Position ==
  IF part = "header" THEN at - 1 ELSE IF part = "payload" THEN HeaderSize + at - 1
  ELSE HeaderSize + Len(payload)

\* The packet consists of octets.
PacketInv ==
  /\ header \in Seq(Octet) /\ Len(header) = HeaderSize
  /\ payload \in Seq(Octet)
  /\ intact \in BOOLEAN

\* The loops add the octets one after the other, two at a time.
SumInv ==
  Running => /\ total = Sums(Octets)[Position]
             /\ part # "fold" => /\ at \in 1..(Len(Data) + 1)
                                 /\ at <= Len(Data) => at % 2 = 1

\* Whoever looks at the sum sees whether the packet is as it was sent.
WireInv ==
  /\ pc = "new" => ~intact
  /\ pc = "calculate" => header[ChecksumAt] = 0 /\ header[ChecksumAt + 1] = 0
  /\ pc \in {"sent", "verify", "done"} => (intact <=> Complete(Sum(Octets)))
  /\ pc = "done" => (accepted <=> Complete(Sum(Octets)))

\* The invariant of the packet and its sum.
PacketOK == PacketInv /\ SumInv /\ WireInv

\* The string of a packet.
LEMMA OctetsType ==
  ASSUME NEW h \in Seq(Octet), Len(h) = HeaderSize, NEW p \in Seq(Octet)
  PROVE  /\ HeaderSize \in Nat /\ HeaderSize % 2 = 0 /\ Len(p) \in Nat
         /\ h \o p \in Seq(Octet) /\ Len(h \o p) = HeaderSize + Len(p)
         /\ \A i \in 1..HeaderSize : (h \o p)[i] = h[i]
         /\ \A i \in 1..Len(p) : (h \o p)[HeaderSize + i] = p[i]
<1>1. HeaderSize \in Nat /\ HeaderSize % 2 = 0 /\ Len(p) \in Nat
  BY ChecksumAssumption, LenProperties
<1>2. h \o p \in Seq(Octet) /\ Len(h \o p) = HeaderSize + Len(p)
  BY ConcatProperties
<1>3. ASSUME NEW i \in 1..HeaderSize PROVE (h \o p)[i] = h[i]
  <2>1. i \in 1..(Len(h) + Len(p)) /\ i <= Len(h)
    BY <1>1
  <2> QED
    BY <2>1, ConcatProperties
<1>4. ASSUME NEW i \in 1..Len(p) PROVE (h \o p)[HeaderSize + i] = p[i]
  <2> DEFINE x == HeaderSize + i
  <2>1. x \in 1..(Len(h) + Len(p)) /\ ~(x <= Len(h)) /\ x - Len(h) = i
    BY <1>1
  <2> HIDE DEF x
  <2>2. (h \o p)[x] = p[x - Len(h)]
    BY <2>1, ConcatProperties
  <2> QED
    BY <2>1, <2>2 DEF x
<1> QED
  BY <1>1, <1>2, <1>3, <1>4

\* An even number in front changes nothing.
LEMMA Parity ==
  ASSUME NEW a \in Nat, a % 2 = 0, NEW b \in Nat
  PROVE  (a + b) % 2 = 1 <=> b % 2 = 1
OBVIOUS

\* The next octet of the loop.
LEMMA NextOctet ==
  ASSUME PacketInv, part \in {"header", "payload"}, NEW i \in 1..Len(Data)
  PROVE  LET x == IF part = "header" THEN i ELSE HeaderSize + i
         IN  /\ x \in 1..Len(Octets) /\ Octets[x] = Data[i] /\ x \in Nat
             /\ x % 2 = 1 <=> i % 2 = 1
<1>1. CASE part = "header"
  <2>1. i \in 1..HeaderSize /\ Data = header
    BY <1>1 DEF Data, PacketInv
  <2> QED
    BY <1>1, <2>1, OctetsType DEF PacketInv, Octets
<1>2. CASE part # "header"
  <2>1. i \in 1..Len(payload) /\ Data = payload
    BY <1>2 DEF Data
  <2>2. HeaderSize \in Nat /\ HeaderSize % 2 = 0 /\ Len(payload) \in Nat
    BY OctetsType DEF PacketInv
  <2>3. HeaderSize + i \in 1..(HeaderSize + Len(payload))
    BY <2>1, <2>2
  <2>4. (HeaderSize + i) % 2 = 1 <=> i % 2 = 1
    <3>1. i \in Nat
      BY <2>1, <2>2
    <3> QED
      BY <2>2, <3>1, Parity
  <2>5. Len(Octets) = HeaderSize + Len(payload) /\ Octets[HeaderSize + i] = payload[i]
    BY <2>1, OctetsType DEF PacketInv, Octets
  <2>6. i \in Nat /\ HeaderSize + i \in Nat
    BY <2>1, <2>2
  <2> QED
    BY <1>2, <2>1, <2>3, <2>4, <2>5, <2>6
<1> QED
  BY <1>1, <1>2

\* Nothing of the packet changes.
LEMMA SamePacket ==
  ASSUME PacketInv, header' = header, payload' = payload, intact' = intact
  PROVE  PacketInv' /\ Octets' = Octets
BY DEF PacketInv, Octets

\* The loops begin with nothing.
LEMMA BeginSum ==
  ASSUME PacketInv', NEW f, Begin(f)
  PROVE  SumInv'
<1>1. part' = "header" /\ at' = 1 /\ total' = 0
  BY DEF Begin
<1>2. Position' = 0 /\ Octets' \in Seq(Octet)
  BY <1>1, OctetsType DEF Position, PacketInv, Octets
<1>3. Sums(Octets')[0] = 0
  BY <1>2, SumsDef
<1>4. Len(Data)' \in Nat
  <2>1. Data' = header' /\ header' \in Seq(Octet)
    BY <1>1 DEF Data, PacketInv
  <2> QED
    BY <2>1, LenProperties
<1> QED
  BY <1>1, <1>2, <1>3, <1>4 DEF SumInv

\* _calculate_checksum zeroes its field,
LEMMA CalculatePacket ==
  ASSUME IInv, PacketOK, _calculate_checksum PROVE PacketOK'
<1>1. PacketInv' /\ (header[ChecksumAt] = 0)' /\ (header[ChecksumAt + 1] = 0)'
  <2> DEFINE low == [header EXCEPT ![ChecksumAt] = 0]
  <2>1. ChecksumAt \in 1..HeaderSize /\ ChecksumAt + 1 \in 1..HeaderSize /\ 0 \in Octet
    BY ChecksumAssumption, Sizes DEF Octet
  <2>2. header \in Seq(Octet) /\ Len(header) = HeaderSize
    BY DEF PacketOK, PacketInv
  <2>3. low \in Seq(Octet) /\ Len(low) = HeaderSize /\ low[ChecksumAt] = 0
    BY <2>1, <2>2, ExceptSeq
  <2>4. header' = [low EXCEPT ![ChecksumAt + 1] = 0]
    BY DEF _calculate_checksum, ZeroField
  <2> HIDE DEF low
  <2>5. ChecksumAt # ChecksumAt + 1
    BY <2>1
  <2>6. /\ header' \in Seq(Octet) /\ Len(header') = HeaderSize
        /\ header'[ChecksumAt] = 0 /\ header'[ChecksumAt + 1] = 0
    BY <2>1, <2>3, <2>4, <2>5, ExceptSeq
  <2> QED
    BY <2>6 DEF _calculate_checksum, PacketOK, PacketInv
<1>2. SumInv'
  BY <1>1, BeginSum DEF _calculate_checksum
<1>3. WireInv'
  BY <1>1 DEF _calculate_checksum, Begin, WireInv
<1> QED
  BY <1>1, <1>2, <1>3 DEF PacketOK

\* _verify_checksum does not touch the packet,
LEMMA VerifyPacket ==
  ASSUME PacketOK, _verify_checksum PROVE PacketOK'
<1>1. PacketInv' /\ Octets' = Octets
  BY SamePacket DEF _verify_checksum, PacketOK
<1>2. SumInv'
  BY <1>1, BeginSum DEF _verify_checksum
<1>3. WireInv'
  BY <1>1 DEF _verify_checksum, Begin, PacketOK, WireInv
<1> QED
  BY <1>1, <1>2, <1>3 DEF PacketOK

\* the loops add the octets in turn,
LEMMA AddPacket ==
  ASSUME IInv, PacketOK, AddWord \/ AddOctet \/ NextPart PROVE PacketOK'
<1>1. /\ PacketInv' /\ Octets' = Octets /\ pc' = pc /\ header' = header
      /\ payload' = payload /\ accepted' = accepted /\ intact' = intact
  BY SamePacket DEF AddWord, AddOctet, NextPart, PacketOK
<1>2. Running /\ Running' /\ part # "fold" /\ part \in {"header", "payload"}
  BY <1>1 DEF AddWord, AddOctet, NextPart, Running, IInv, TypeInv
<1>3. sum = total /\ total = Sums(Octets)[Position]
  BY <1>2 DEF IInv, LoopInv, PacketOK, SumInv
<1> DEFINE n == Len(Data)
           q == Octets
           s == Sums(q)
<1>4. n \in Nat /\ at \in 1..(n + 1) /\ (at <= n => at % 2 = 1)
  <2>1. Data \in Seq(Octet)
    BY DEF Data, PacketOK, PacketInv
  <2>2. n \in Nat
    BY <2>1, LenProperties
  <2> QED
    BY <1>2, <2>2 DEF PacketOK, SumInv
<1>5. PacketInv /\ HeaderSize \in Nat /\ q \in Seq(Octet) /\ Len(q) = HeaderSize + Len(payload)
      /\ Len(payload) \in Nat /\ Len(header) = HeaderSize
  BY OctetsType DEF PacketOK, PacketInv, Octets
<1>6. WireInv'
  <2>1. pc \notin {"sent", "done", "new"}
    BY <1>2 DEF Running
  <2> QED
    BY <1>1, <2>1 DEF PacketOK, WireInv
<1>7. CASE AddWord \/ AddOctet
  <2>1. part' = part /\ Data' = Data /\ at \in 1..n /\ at % 2 = 1
    BY <1>1, <1>4, <1>7 DEF AddWord, AddOctet, Data
  <2> DEFINE x == IF part = "header" THEN at ELSE HeaderSize + at
  <2>2. x \in 1..Len(q) /\ x \in Nat /\ q[x] = Data[at] /\ x % 2 = 1 /\ Position = x - 1
    <3>1. x \in 1..Len(q) /\ x \in Nat /\ q[x] = Data[at] /\ x % 2 = 1
      BY <1>2, <1>5, <2>1, NextOctet
    <3>2. Position = x - 1
      BY <1>2, <1>5, <2>1 DEF Position
    <3> QED
      BY <3>1, <3>2
  <2>3. s[x] = s[x - 1] + Data[at] /\ Data[at] \in Nat /\ s[x - 1] \in Nat
    <3>1. s[x] = s[x - 1] + Term(q, x) /\ s \in [0..Len(q) -> Nat] /\ x - 1 \in 0..Len(q)
      <4> HIDE DEF x, q
      <4>1. x \in 1..Len(q) /\ q \in Seq(Octet) /\ Len(q) \in Nat
        BY <1>5, <2>2
      <4> QED
        BY <4>1, SumsDef
    <3>2. Term(q, x) = q[x] /\ Term(q, x) \in Nat
      BY <1>5, <2>2, TermBound
    <3> HIDE DEF x, q, s
    <3> QED
      BY <2>2, <3>1, <3>2
  <2>4. CASE AddOctet
    <3>1. at = n /\ at' = at + 1 /\ total' = sum + Data[at]
      BY <2>4 DEF AddOctet
    <3>2. Position' = x
      BY <1>2, <1>5, <2>1, <3>1 DEF Position
    <3>3. total' = s[x]
      BY <1>3, <2>2, <2>3, <3>1
    <3>4. at' \in 1..(n + 1) /\ ~(at' <= n)
      BY <1>4, <3>1
    <3>5. SumInv'
      BY <1>1, <2>1, <3>2, <3>3, <3>4 DEF SumInv
    <3> QED
      BY <1>1, <1>6, <3>5 DEF PacketOK
  <2>5. CASE AddWord
    <3>1. /\ at < n /\ at' = at + 2
          /\ total' = sum + Data[at] + Radix * Data[at + 1]
      BY <2>5 DEF AddWord
    <3>2. at + 1 \in 1..n /\ (at + 1) % 2 # 1
      BY <1>4, <2>1, <3>1
    <3>3. x + 1 \in 1..Len(q) /\ q[x + 1] = Data[at + 1] /\ (x + 1) % 2 # 1
      <4> DEFINE y == IF part = "header" THEN at + 1 ELSE HeaderSize + (at + 1)
      <4>1. y \in 1..Len(q) /\ q[y] = Data[at + 1]
        BY <1>2, <1>5, <3>2, NextOctet
      <4>2. y = x + 1
        BY <1>5, <2>1
      <4>3. (x + 1) % 2 # 1
        BY <2>2
      <4> HIDE DEF y, x, q
      <4> QED
        BY <4>1, <4>2, <4>3
    <3>4. s[x + 1] = s[x] + Radix * Data[at + 1] /\ Radix * Data[at + 1] \in Nat
      <4>1. s[x + 1] = s[(x + 1) - 1] + Term(q, x + 1) /\ (x + 1) - 1 = x
        <5> HIDE DEF x, q
        <5>1. x + 1 \in 1..Len(q) /\ q \in Seq(Octet) /\ x \in Nat
          BY <1>5, <2>2, <3>3
        <5> QED
          BY <5>1, SumsDef
      <4>2. Term(q, x + 1) = Radix * q[x + 1] /\ Term(q, x + 1) \in Nat
        BY <1>5, <3>3, TermBound
      <4> HIDE DEF x, q, s
      <4> QED
        BY <3>3, <4>1, <4>2
    <3>5. Position' = x + 1
      BY <1>2, <1>5, <2>1, <3>1 DEF Position
    <3>6. total' = s[x + 1]
      <4> HIDE DEF x, q, s
      <4>1. sum = s[x - 1]
        BY <1>3, <2>2 DEF s, q
      <4> DEFINE a == Data[at]
                 b == Radix * Data[at + 1]
      <4>2. total' = s[x - 1] + a + b /\ a \in Nat /\ b \in Nat
        BY <2>3, <3>1, <3>4, <4>1
      <4>3. s[x + 1] = s[x] + b /\ s[x] = s[x - 1] + a /\ s[x - 1] \in Nat
        BY <2>3, <3>4
      <4> HIDE DEF a, b
      <4> QED
        BY <4>2, <4>3
    <3>7. at' \in 1..(n + 1) /\ (at' <= n => at' % 2 = 1)
      BY <1>4, <2>1, <3>1
    <3>8. SumInv'
      BY <1>1, <2>1, <3>5, <3>6, <3>7 DEF SumInv
    <3> QED
      BY <1>1, <1>6, <3>8 DEF PacketOK
  <2> QED
    BY <1>7, <2>4, <2>5
<1>8. CASE NextPart
  <2>1. at = n + 1 /\ at' = 1 /\ total' = total
    BY <1>4, <1>8 DEF NextPart
  <2>2. Position' = Position
    <3>1. CASE part = "header"
      <4>1. n = HeaderSize /\ part' = "payload"
        BY <1>5, <1>8, <3>1 DEF NextPart, Data
      <4> QED
        BY <1>5, <2>1, <3>1, <4>1 DEF Position
    <3>2. CASE part # "header"
      <4>1. n = Len(payload) /\ part' = "fold" /\ part = "payload"
        BY <1>2, <1>8, <3>2 DEF NextPart, Data
      <4> QED
        BY <1>1, <1>5, <2>1, <4>1 DEF Position
    <3> QED
      BY <3>1, <3>2
  <2>3. Len(Data)' \in Nat
    <3>1. Data' \in Seq(Octet)
      BY <1>1 DEF Data, PacketInv
    <3> QED
      BY <3>1, LenProperties
  <2>4. SumInv'
    BY <1>1, <1>3, <2>1, <2>2, <2>3 DEF SumInv
  <2> QED
    BY <1>1, <1>6, <2>4 DEF PacketOK
<1> QED
  BY <1>7, <1>8

\* and folding leaves the whole sum alone.
LEMMA FoldPacket ==
  ASSUME PacketOK, Fold PROVE PacketOK'
<1>1. PacketInv' /\ Octets' = Octets
  BY SamePacket DEF Fold, PacketOK
<1> QED
  BY <1>1 DEF Fold, PacketOK, SumInv, WireInv, Running, Position

\* What the loops have added up at their end.
LEMMA WholeSum ==
  ASSUME IInv, PacketOK, Running, part = "fold"
  PROVE  total = Sum(Octets) /\ Sum(Octets) \in Nat /\ Residue(Sum(Octets), sum)
<1>1. Position = Len(Octets)
  BY OctetsType DEF Position, PacketOK, PacketInv, Octets
<1>2. total = Sum(Octets)
  BY <1>1 DEF PacketOK, SumInv, Sum
<1> QED
  BY <1>2 DEF IInv, TypeInv, LoopInv

\* _verify_checksum sees whether the sum is complete.
LEMMA ReturnPacket ==
  ASSUME IInv, PacketOK, Return PROVE PacketOK'
<1>1. PacketInv' /\ Octets' = Octets
  BY SamePacket DEF Return, PacketOK
<1>2. accepted' <=> Complete(Sum(Octets))
  <2>1. Running /\ part = "fold" /\ sum < Modulus /\ sum \in Nat
    BY DEF Return, Running, Folded, IInv, TypeInv
  <2>2. AllOnes - sum = 0 <=> Complete(Sum(Octets))
    BY <2>1, WholeSum, TestOfResidue DEF Complete
  <2> QED
    BY <2>2 DEF Return
<1> QED
  BY <1>1, <1>2 DEF Return, PacketOK, SumInv, WireInv, Running

\* The two octets of a checksum.
LEMMA FieldOctets ==
  ASSUME NEW n \in Nat, n <= AllOnes
  PROVE  /\ n % Radix \in Octet /\ n \div Radix \in Octet
         /\ n = (n % Radix) + Radix * (n \div Radix)
<1> DEFINE d == n \div Radix
           m == n % Radix
<1>1. d \in Nat /\ m \in Nat /\ m < Radix /\ n = Radix * d + m
  BY Sizes, Division
<1> HIDE DEF d, m
<1>2. d < Radix
  <2> SUFFICES ASSUME d >= Radix PROVE FALSE
    BY <1>1, Sizes
  <2>1. Radix * d >= Radix * Radix
    BY <1>1, Sizes
  <2>2. Radix * d \in Nat
    BY <1>1, Sizes
  <2> QED
    BY <1>1, <2>1, <2>2, Sizes DEF Modulus
<1>3. Radix * d \in Nat
  BY <1>1, Sizes
<1>4. d \in Octet /\ m \in Octet /\ n = m + Radix * d
  BY <1>1, <1>2, <1>3, Sizes DEF Octet
<1> QED
  BY <1>4 DEF d, m

\* The checksum completes the sum to a multiple of AllOnes.
LEMMA StorePacket ==
  ASSUME IInv, PacketOK, Store PROVE PacketOK'
<1> DEFINE n == AllOnes - sum
           a == n % Radix
           b == n \div Radix
           c == ChecksumAt
           low == [header EXCEPT ![c] = a]
           q == header \o payload
           l == low \o payload
           r == header' \o payload
<1>1. /\ Running /\ part = "fold" /\ sum \in Nat /\ sum <= AllOnes
      /\ n \in Nat /\ n <= AllOnes
  <2>1. Running /\ part = "fold" /\ sum \in Nat /\ sum < Modulus
    BY DEF Store, Running, Folded, IInv, TypeInv
  <2> QED
    BY <2>1, Sizes
<1>2. a \in Octet /\ b \in Octet /\ n = a + Radix * b
  <2> HIDE DEF n
  <2> QED
    BY <1>1, FieldOctets
<1>3. /\ c \in 1..HeaderSize /\ c + 1 \in 1..HeaderSize /\ c % 2 = 1 /\ c \in Nat
      /\ (c + 1) % 2 # 1 /\ c # c + 1 /\ HeaderSize \in Nat
  <2>1. HeaderSize \in Nat /\ c \in 1..(HeaderSize - 1) /\ c % 2 = 1
    BY ChecksumAssumption
  <2> HIDE DEF c
  <2>2. c \in Nat /\ c + 1 \in 1..HeaderSize /\ c \in 1..HeaderSize
    BY <2>1
  <2> QED
    BY <2>1, <2>2
<1>4. /\ header \in Seq(Octet) /\ Len(header) = HeaderSize /\ payload \in Seq(Octet)
      /\ header[c] = 0 /\ header[c + 1] = 0 /\ payload' = payload
  BY DEF PacketOK, PacketInv, WireInv, Store
<1>5. header' = [low EXCEPT ![c + 1] = b]
  BY DEF Store
<1> HIDE DEF c, a, b, n
<1>6. /\ low \in Seq(Octet) /\ Len(low) = HeaderSize /\ low[c] = a
      /\ \A i \in 1..HeaderSize : i # c => low[i] = header[i]
  BY <1>2, <1>3, <1>4, ExceptSeq
<1> HIDE DEF low
<1>7. /\ header' \in Seq(Octet) /\ Len(header') = HeaderSize /\ header'[c + 1] = b
      /\ \A i \in 1..HeaderSize : i # c + 1 => header'[i] = low[i]
  BY <1>2, <1>3, <1>5, <1>6, ExceptSeq
<1>8. /\ q \in Seq(Octet) /\ l \in Seq(Octet) /\ r \in Seq(Octet)
      /\ Len(q) = HeaderSize + Len(payload) /\ Len(l) = Len(q) /\ Len(r) = Len(q)
      /\ c \in 1..Len(q) /\ c + 1 \in 1..Len(l)
  <2>1. q \in Seq(Octet) /\ Len(q) = HeaderSize + Len(payload) /\ Len(payload) \in Nat
    BY <1>4, OctetsType
  <2>2. l \in Seq(Octet) /\ Len(l) = HeaderSize + Len(payload)
    BY <1>4, <1>6, OctetsType
  <2>3. r \in Seq(Octet) /\ Len(r) = HeaderSize + Len(payload)
    BY <1>4, <1>7, OctetsType
  <2> HIDE DEF q, l, r
  <2> QED
    BY <1>3, <2>1, <2>2, <2>3
<1>9. /\ q[c] = 0 /\ l[c] = a /\ l[c + 1] = 0 /\ r[c + 1] = b
      /\ \A x \in 1..Len(q) : x # c => l[x] = q[x]
      /\ \A x \in 1..Len(l) : x # c + 1 => r[x] = l[x]
  <2>1. /\ \A i \in 1..HeaderSize : q[i] = header[i] /\ l[i] = low[i] /\ r[i] = header'[i]
        /\ \A i \in 1..Len(payload) : /\ q[HeaderSize + i] = payload[i]
                                      /\ l[HeaderSize + i] = payload[i]
                                      /\ r[HeaderSize + i] = payload[i]
    <3>1. \A i \in 1..HeaderSize : q[i] = header[i]
      BY <1>4, OctetsType
    <3>2. \A i \in 1..HeaderSize : l[i] = low[i]
      BY <1>4, <1>6, OctetsType
    <3>3. \A i \in 1..HeaderSize : r[i] = header'[i]
      BY <1>4, <1>7, OctetsType
    <3>4. \A i \in 1..Len(payload) : q[HeaderSize + i] = payload[i]
      BY <1>4, OctetsType
    <3>5. \A i \in 1..Len(payload) : l[HeaderSize + i] = payload[i]
      BY <1>4, <1>6, OctetsType
    <3>6. \A i \in 1..Len(payload) : r[HeaderSize + i] = payload[i]
      BY <1>4, <1>7, OctetsType
    <3> QED
      BY <3>1, <3>2, <3>3, <3>4, <3>5, <3>6
  <2>2. Len(payload) \in Nat
    BY <1>4, LenProperties
  <2> HIDE DEF q, l, r
  <2>3. ASSUME NEW x \in 1..Len(q) PROVE (x # c => l[x] = q[x]) /\ (x # c + 1 => r[x] = l[x])
    <3>1. CASE x <= HeaderSize
      <4>1. x \in 1..HeaderSize
        BY <1>3, <1>8, <2>2, <2>3, <3>1
      <4>2. q[x] = header[x] /\ l[x] = low[x] /\ r[x] = header'[x]
        BY <2>1, <4>1
      <4> QED
        BY <1>6, <1>7, <4>1, <4>2
    <3>2. CASE ~(x <= HeaderSize)
      <4>1. x - HeaderSize \in 1..Len(payload) /\ HeaderSize + (x - HeaderSize) = x
        BY <1>3, <1>8, <2>2, <2>3, <3>2
      <4> QED
        BY <2>1, <4>1
    <3> QED
      BY <3>1, <3>2
  <2> QED
    BY <1>3, <1>4, <1>6, <1>7, <1>8, <2>1, <2>3
<1> HIDE DEF q, l, r
<1>10. Sum(q) \in Nat /\ Sum(l) = Sum(q) + a
  <2>1. /\ Sum(q) \in Nat /\ Term(l, c) \in Nat /\ Term(q, c) \in Nat
        /\ Sum(l) = Sum(q) + Term(l, c) - Term(q, c)
    BY <1>8, <1>9, SumChanges
  <2>2. Term(l, c) = a /\ Term(q, c) = 0
    BY <1>3, <1>8, <1>9, TermBound
  <2> QED
    BY <2>1, <2>2
<1>11. Sum(r) = Sum(l) + Radix * b
  <2>1. /\ Sum(l) \in Nat /\ Term(r, c + 1) \in Nat /\ Term(l, c + 1) \in Nat
        /\ Sum(r) = Sum(l) + Term(r, c + 1) - Term(l, c + 1)
    BY <1>8, <1>9, SumChanges
  <2>2. Term(r, c + 1) = Radix * b /\ Term(l, c + 1) = 0
    <3>1. Term(r, c + 1) = Radix * r[c + 1] /\ Term(l, c + 1) = Radix * l[c + 1]
      BY <1>3, <1>8, TermBound
    <3>2. Radix * 0 = 0
      BY Sizes
    <3> QED
      BY <1>9, <3>1, <3>2
  <2> QED
    BY <2>1, <2>2
<1>12. Sum(r) = Sum(q) + n
  <2>1. a \in Nat /\ Radix * b \in Nat
    BY <1>2, Sizes DEF Octet
  <2> QED
    BY <1>2, <1>10, <1>11, <2>1
<1>13. Complete(Sum(r))
  <2>1. PICK k \in Nat : Sum(q) = sum + k * AllOnes
    BY <1>1, WholeSum DEF Residue, Octets, q
  <2>2. Sum(r) = sum + k * AllOnes + (AllOnes - sum)
    BY <1>12, <2>1 DEF n
  <2>3. (k + 1) * AllOnes = k * AllOnes + AllOnes /\ k * AllOnes \in Nat
    BY Sizes
  <2>4. Sum(r) = (k + 1) * AllOnes /\ Sum(r) \in Nat
    BY <1>1, <2>2, <2>3, Sizes
  <2> QED
    BY <2>4, CompleteMeans
<1>14. PacketInv' /\ Octets' = r
  BY <1>4, <1>7 DEF PacketInv, Octets, r, Store
<1> QED
  BY <1>13, <1>14 DEF Store, PacketOK, SumInv, WireInv, Running

\* One octet on the wire.
LEMMA DamagePacket ==
  ASSUME PacketOK, Damage PROVE PacketOK'
<1> DEFINE q == Octets
           r == header' \o payload'
<1>1. /\ header \in Seq(Octet) /\ Len(header) = HeaderSize /\ payload \in Seq(Octet)
      /\ Complete(Sum(q)) /\ pc' = "sent" /\ pc = "sent"
  BY DEF PacketOK, PacketInv, WireInv, Damage
<1>2. q \in Seq(Octet) /\ Len(q) = HeaderSize + Len(payload) /\ HeaderSize \in Nat
      /\ Len(payload) \in Nat
  BY <1>1, OctetsType DEF Octets
<1>3. /\ header' \in Seq(Octet) /\ Len(header') = HeaderSize /\ payload' \in Seq(Octet)
      /\ r \in Seq(Octet) /\ Len(r) = Len(q)
      /\ \E i \in 1..Len(q) : r[i] # q[i] /\ \A x \in 1..Len(q) : x # i => r[x] = q[x]
  <2>1. CASE \E i \in DOMAIN header : \E o \in Octet \ {header[i]} :
               header' = [header EXCEPT ![i] = o] /\ UNCHANGED payload
    <3>0. PICK i \in DOMAIN header : \E o \in Octet \ {header[i]} :
                 header' = [header EXCEPT ![i] = o] /\ UNCHANGED payload
      BY <2>1
    <3>1. PICK o \in Octet \ {header[i]} :
                 header' = [header EXCEPT ![i] = o] /\ payload' = payload
      BY <3>0
    <3>2. i \in 1..HeaderSize
      BY <1>1, LenProperties
    <3>3. /\ header' \in Seq(Octet) /\ Len(header') = HeaderSize /\ header'[i] = o
          /\ \A x \in 1..HeaderSize : x # i => header'[x] = header[x]
      BY <1>1, <3>1, <3>2, ExceptSeq
    <3>4. r \in Seq(Octet) /\ Len(r) = Len(q)
      BY <1>1, <1>2, <3>1, <3>3, OctetsType
    <3>5. ASSUME NEW x \in 1..Len(q), x # i PROVE r[x] = q[x]
      <4>1. CASE x <= HeaderSize
        <5>1. x \in 1..HeaderSize
          BY <1>2, <3>5, <4>1
        <5>2. q[x] = header[x] /\ r[x] = header'[x]
          BY <1>1, <3>1, <3>3, <5>1, OctetsType DEF Octets
        <5> QED
          BY <3>3, <3>5, <5>1, <5>2
      <4>2. CASE ~(x <= HeaderSize)
        <5> DEFINE y == x - HeaderSize
        <5>1. y \in 1..Len(payload) /\ HeaderSize + y = x
          BY <1>2, <3>5, <4>2
        <5> HIDE DEF y
        <5>2. q[HeaderSize + y] = payload[y] /\ r[HeaderSize + y] = payload[y]
          BY <1>1, <3>1, <3>3, <5>1, OctetsType DEF Octets
        <5> QED
          BY <5>1, <5>2
      <4> QED
        BY <4>1, <4>2
    <3>6. q[i] = header[i] /\ r[i] = o /\ o # header[i]
      BY <1>1, <3>1, <3>2, <3>3, OctetsType DEF Octets
    <3>7. i \in 1..Len(q)
      BY <1>2, <3>2
    <3> HIDE DEF q, r
    <3> QED
      BY <1>1, <3>1, <3>3, <3>4, <3>5, <3>6, <3>7
  <2>2. CASE \E i \in DOMAIN payload : \E o \in Octet \ {payload[i]} :
               payload' = [payload EXCEPT ![i] = o] /\ UNCHANGED header
    <3>0. PICK j \in DOMAIN payload : \E o \in Octet \ {payload[j]} :
                 payload' = [payload EXCEPT ![j] = o] /\ UNCHANGED header
      BY <2>2
    <3>1. PICK o \in Octet \ {payload[j]} :
                 payload' = [payload EXCEPT ![j] = o] /\ header' = header
      BY <3>0
    <3>2. j \in 1..Len(payload)
      BY <1>1, LenProperties
    <3>3. /\ payload' \in Seq(Octet) /\ Len(payload') = Len(payload) /\ payload'[j] = o
          /\ \A x \in 1..Len(payload) : x # j => payload'[x] = payload[x]
      BY <1>1, <3>1, <3>2, ExceptSeq
    <3>4. r \in Seq(Octet) /\ Len(r) = Len(q)
      BY <1>1, <1>2, <3>1, <3>3, OctetsType
    <3> DEFINE i == HeaderSize + j
    <3>5. ASSUME NEW x \in 1..Len(q), x # i PROVE r[x] = q[x]
      <4>1. CASE x <= HeaderSize
        <5>1. x \in 1..HeaderSize
          BY <1>2, <3>5, <4>1
        <5>2. q[x] = header[x] /\ r[x] = header[x]
          BY <1>1, <3>1, <3>3, <5>1, OctetsType DEF Octets
        <5> QED
          BY <5>2
      <4>2. CASE ~(x <= HeaderSize)
        <5> DEFINE y == x - HeaderSize
        <5>1. y \in 1..Len(payload) /\ HeaderSize + y = x /\ y # j
          BY <1>2, <3>2, <3>5, <4>2
        <5> HIDE DEF y, i
        <5>2. q[HeaderSize + y] = payload[y] /\ r[HeaderSize + y] = payload'[y]
          BY <1>1, <3>1, <3>3, <5>1, OctetsType DEF Octets
        <5> QED
          BY <3>3, <5>1, <5>2
      <4> QED
        BY <4>1, <4>2
    <3>6. q[i] = payload[j] /\ r[i] = o /\ o # payload[j]
      BY <1>1, <3>1, <3>2, <3>3, OctetsType DEF Octets
    <3>7. i \in 1..Len(q)
      BY <1>2, <3>2
    <3> HIDE DEF q, r, i
    <3> QED
      BY <1>1, <3>1, <3>3, <3>4, <3>5, <3>6, <3>7
  <2> QED
    BY <2>1, <2>2 DEF Damage
<1>4. ~Complete(Sum(r))
  <2> HIDE DEF q, r
  <2> QED
    BY <1>1, <1>2, <1>3, DamageShows
<1>5. PacketInv'
  BY <1>3 DEF PacketInv, Damage
<1>6. WireInv'
  BY <1>1, <1>4 DEF WireInv, Damage, Octets
<1>7. SumInv'
  BY <1>1 DEF SumInv, Running
<1> QED
  BY <1>5, <1>6, <1>7 DEF PacketOK

\* The RST of listen() has one octet that is not zero.
LEMMA ZeroedPacket ==
  ASSUME PacketOK, SendZeroed PROVE PacketOK'
<1> DEFINE r == header' \o payload'
           z == [i \in 1..HeaderSize |-> 0] \o payload'
<1>1. PICK rst \in Octet \ {0} :
             header' = [i \in 1..HeaderSize |-> IF i = FlagsAt THEN rst ELSE 0]
  BY DEF SendZeroed
<1>2. /\ payload' = <<>> /\ payload' \in Seq(Octet) /\ Len(payload') = 0
      /\ pc' = "sent" /\ intact' = FALSE /\ accepted' = accepted
  BY DEF SendZeroed, PacketOK, PacketInv, WireInv
<1>3. HeaderSize \in Nat /\ FlagsAt \in 1..HeaderSize /\ 0 \in Octet /\ rst \in Nat /\ rst # 0
      /\ rst <= Radix - 1
  BY <1>1, ChecksumAssumption, Sizes DEF Octet
<1> DEFINE none == [i \in 1..HeaderSize |-> 0]
<1>4. /\ header' \in Seq(Octet) /\ Len(header') = HeaderSize
      /\ none \in Seq(Octet) /\ Len(none) = HeaderSize
  <2>1. header' \in [1..HeaderSize -> Octet] /\ none \in [1..HeaderSize -> Octet]
    BY <1>1, <1>3
  <2> QED
    BY <1>3, <2>1, FunctionIsSeq
<1>5. /\ r \in Seq(Octet) /\ Len(r) = HeaderSize /\ z \in Seq(Octet) /\ Len(z) = HeaderSize
      /\ \A i \in 1..HeaderSize : r[i] = header'[i] /\ z[i] = 0
  <2>1. /\ r \in Seq(Octet) /\ Len(r) = HeaderSize + 0
        /\ \A i \in 1..HeaderSize : r[i] = header'[i]
    BY <1>2, <1>4, OctetsType
  <2>2. /\ z \in Seq(Octet) /\ Len(z) = HeaderSize + 0
        /\ \A i \in 1..HeaderSize : z[i] = none[i]
    BY <1>2, <1>4, OctetsType
  <2> QED
    BY <1>3, <2>1, <2>2
<1>6. /\ r[FlagsAt] = rst /\ z[FlagsAt] = 0
      /\ \A i \in 1..HeaderSize : i # FlagsAt => r[i] = z[i]
  BY <1>1, <1>3, <1>5
<1> HIDE DEF r, z
<1>7. Sum(z) = 0
  BY <1>5, SumOfZeros
<1>8. /\ Sum(r) = Term(r, FlagsAt) - Term(z, FlagsAt)
      /\ Term(r, FlagsAt) \in Nat /\ Term(z, FlagsAt) \in Nat
  <2>1. /\ Term(z, FlagsAt) \in Nat /\ Term(r, FlagsAt) \in Nat
        /\ Sum(r) = Sum(z) + Term(r, FlagsAt) - Term(z, FlagsAt)
    BY <1>3, <1>5, <1>6, SumChanges
  <2> QED
    BY <1>7, <2>1
<1>9. Term(z, FlagsAt) = 0
  <2>1. Radix * 0 = 0
    BY Sizes
  <2>2. Term(z, FlagsAt) = z[FlagsAt] \/ Term(z, FlagsAt) = Radix * z[FlagsAt]
    BY <1>3, <1>5, TermBound
  <2> QED
    BY <1>6, <2>1, <2>2
<1>10. Sum(r) # 0 /\ Sum(r) < AllOnes /\ Sum(r) \in Nat
  <2>1. Modulus >= 2 * Radix
    BY Sizes DEF Modulus
  <2>2. CASE FlagsAt % 2 = 1
    <3>1. Term(r, FlagsAt) = rst
      BY <1>3, <1>5, <1>6, <2>2, TermBound
    <3> QED
      BY <1>3, <1>8, <1>9, <2>1, <3>1, Sizes
  <2>3. CASE FlagsAt % 2 # 1
    <3>1. Term(r, FlagsAt) = Radix * rst /\ Radix * rst <= Modulus - Radix
      BY <1>3, <1>5, <1>6, <2>3, TermBound
    <3>2. Radix * rst >= rst /\ Radix * rst \in Nat
      BY <1>3, Sizes
    <3> QED
      BY <1>3, <1>8, <1>9, <3>1, <3>2, Sizes
  <2> QED
    BY <2>2, <2>3
<1>11. ~Complete(Sum(r))
  <2> SUFFICES ASSUME Complete(Sum(r)) PROVE FALSE
    OBVIOUS
  <2>1. PICK k \in Nat : k >= 1 /\ Sum(r) = k * AllOnes
    BY <1>10, CompleteMeans
  <2>2. k * AllOnes >= AllOnes
    BY <2>1, Sizes
  <2> QED
    BY <1>10, <2>1, <2>2, Sizes
<1>12. PacketInv'
  BY <1>2, <1>4 DEF PacketInv
<1>13. WireInv' /\ SumInv'
  BY <1>2, <1>11 DEF WireInv, SumInv, Running, Octets, r
<1> QED
  BY <1>12, <1>13 DEF PacketOK

\* The invariant of the packet holds at first,
LEMMA InitPacket == Init => PacketOK
<1> SUFFICES ASSUME Init PROVE PacketOK
  OBVIOUS
<1>1. header \in Seq(Octet) /\ Len(header) = HeaderSize
  BY ChecksumAssumption, FunctionIsSeq DEF Init, Header
<1>2. payload \in Seq(Octet)
  <2>1. PICK n \in 0..MaxPayload : payload \in [1..n -> Octet]
    BY DEF Init, Payload
  <2>2. n \in Nat
    BY ChecksumAssumption
  <2> QED
    BY <2>1, <2>2, FunctionIsSeq
<1> QED
  BY <1>1, <1>2 DEF Init, PacketOK, PacketInv, SumInv, WireInv, Running

\* and every step keeps it.
LEMMA PacketStep == IInv /\ PacketOK /\ [Next]_vars => PacketOK'
<1> SUFFICES ASSUME IInv, PacketOK, [Next]_vars PROVE PacketOK'
  OBVIOUS
<1>1. CASE Next
  BY <1>1, CalculatePacket, VerifyPacket, AddPacket, FoldPacket, StorePacket, ReturnPacket,
     ZeroedPacket, DamagePacket DEF Next
<1>2. CASE UNCHANGED vars
  <2>1. PacketInv' /\ Octets' = Octets
    BY <1>2, SamePacket DEF vars, PacketOK
  <2>2. Position' = Position /\ Data' = Data
    BY <1>2 DEF vars, Position, Data
  <2> QED
    BY <1>2, <2>1, <2>2 DEF vars, PacketOK, SumInv, WireInv, Running
<1> QED
  BY <1>1, <1>2

\* _verify_checksum accepts a packet that _calculate_checksum has completed, and
\* refuses it after any change of one octet, for every radix and packet.
THEOREM OneOctetShows == Spec => []AcceptsExactlyIntact
<1>1. Init => IInv /\ PacketOK
  BY InitIInv, InitPacket
<1>2. IInv /\ PacketOK /\ [Next]_vars => (IInv /\ PacketOK)'
  BY NextStep, PacketStep
<1>3. IInv /\ PacketOK => AcceptsExactlyIntact
  <2> SUFFICES ASSUME IInv, PacketOK, pc = "done" PROVE accepted <=> intact
    BY DEF AcceptsExactlyIntact
  <2> QED
    BY DEF PacketOK, WireInv
<1> QED
  BY <1>1, <1>2, <1>3, PTL DEF Spec

\* Both functions compute the one's complement sum: to add up all words and to
\* fold the carries at the end is the same as to add each carry at once.
THEOREM LoopsAddEndAround == Spec => []SumIsEndAround
<1>1. Init => IInv /\ PacketOK
  BY InitIInv, InitPacket
<1>2. IInv /\ PacketOK /\ [Next]_vars => (IInv /\ PacketOK)'
  BY NextStep, PacketStep
<1>3. IInv /\ PacketOK => SumIsEndAround
  <2> SUFFICES ASSUME IInv, PacketOK, Running, Folded PROVE sum = EndAroundSum
    BY DEF SumIsEndAround
  <2>1. /\ part = "fold" /\ sum \in Nat /\ sum < Modulus
        /\ Residue(Sum(Octets), sum) /\ Sum(Octets) \in Nat
    BY WholeSum DEF Folded, IInv, TypeInv
  <2>2. Octets \in Seq(Octet)
    BY OctetsType DEF PacketOK, PacketInv, Octets
  <2> DEFINE n == EndAroundSums(Octets)[Words(Octets)]
  <2>3. n \in Nat /\ n <= AllOnes /\ Residue(Sum(Octets), n)
    BY <2>2, ReferenceResidue
  <2>4. EndAroundSum = n
    BY DEF EndAroundSum, Octets
  <2> HIDE DEF n
  <2>5. sum <= AllOnes
    BY <2>1, Sizes
  <2> QED
    BY <2>1, <2>3, <2>4, <2>5, ResidueUnique
<1> QED
  BY <1>1, <1>2, <1>3, PTL DEF Spec

=============================================================================
