------------------------- MODULE NumericHelpers_proofs -------------------------
(***************************************************************************)
(* Of NumericHelpers, for any set of calls: calculateExplicitPadding() is  *)
(* right for every size, stride and filter from 1, as far as its integers  *)
(* do not overflow; the conversions between floats and halves are right    *)
(* for every pattern of bits; getMaskBits() spells out every mask that has *)
(* no bit beyond the rank; and a shape is the one that a valid call asks   *)
(* for, for all dimensions and every width of an int, the elements being   *)
(* counted by a loop that is reasoned about with the least number at which *)
(* a claim fails.                                                          *)
(***************************************************************************)
EXTENDS NumericHelpers, FiniteSetTheorems, SequenceTheorems, WellFoundedInduction,
        TLAPS

\* A quotient of a division by s, from the multiples of s around a.
LEMMA DivBounds ==
  ASSUME NEW a \in Int, NEW s \in Int, s > 0
  PROVE  /\ a \div s \in Int
         /\ (a \div s) * s <= a
         /\ a < (a \div s + 1) * s
<1>1. a \div s \in Int
  BY SMT
<1>2. (a \div s) * s <= a
  BY SMT
<1>3. a < (a \div s + 1) * s
  BY SMT
<1> QED BY <1>1, <1>2, <1>3

\* Multiplying by s keeps the order.
LEMMA Grows ==
  ASSUME NEW p \in Int, NEW q \in Int, p < q, NEW s \in Int, s > 0
  PROVE  (p + 1) * s <= q * s /\ (p + 1) * s = p * s + s
BY SMT

\* There is only one such quotient.
LEMMA DivUnique ==
  ASSUME NEW a \in Int, NEW s \in Int, s > 0, NEW q \in Int,
         q * s <= a, a < (q + 1) * s
  PROVE  a \div s = q
<1> DEFINE p == a \div s
<1>1. p \in Int /\ p * s <= a /\ a < (p + 1) * s
  BY DivBounds
<1> HIDE DEF p
<1>2. p * s \in Int /\ q * s \in Int /\ (p + 1) * s \in Int /\ (q + 1) * s \in Int
  BY <1>1, SMT
<1>3. ~ p < q
  BY <1>1, <1>2, Grows
<1>4. ~ q < p
  BY <1>1, <1>2, Grows
<1> QED BY <1>1, <1>3, <1>4 DEF p

-----------------------------------------------------------------------------
\* OutSize is the number of strides that begin in the input.
LEMMA OutSizeIsCeiling ==
  ASSUME NEW in \in Nat \ {0}, NEW s \in Nat \ {0}
  PROVE  LET n == OutSize(in, s) IN
         /\ n \in 0 .. in /\ n > 0
         /\ in <= n * s /\ (n - 1) * s < in
         /\ \A k \in 0 .. in : k * s >= in /\ (k - 1) * s < in => k = n
<1> DEFINE n == OutSize(in, s)
<1>1. n \in Int /\ n * s <= in + s - 1 /\ in + s - 1 < (n + 1) * s
  <2>1. in + s - 1 \in Int
    OBVIOUS
  <2> QED BY <2>1, DivBounds DEF OutSize
<1> HIDE DEF n
<1>2. (n + 1) * s = n * s + s /\ (n - 1) * s = n * s - s /\ n * s \in Int
  BY <1>1, SMT
<1>3. in <= n * s /\ (n - 1) * s < in
  BY <1>1, <1>2
<1>4. n > 0
  <2> SUFFICES ASSUME n <= 0 PROVE FALSE
    BY <1>1
  <2>1. n * s <= 0
    BY <1>1, SMT
  <2> QED BY <2>1, <1>2, <1>3
<1>5. n <= in
  <2> SUFFICES ASSUME in <= n - 1 PROVE FALSE
    BY <1>1
  <2>1. n - 1 <= (n - 1) * s
    BY <1>1, <1>4, SMT
  <2> QED BY <2>1, <1>1, <1>2, <1>3
<1>6. ASSUME NEW k \in 0 .. in, k * s >= in, (k - 1) * s < in
      PROVE  k = n
  <2>1. k \in Int /\ (k - 1) * s = k * s - s /\ k * s \in Int
    BY SMT
  <2>2. (k + 1) * s = k * s + s
    BY <2>1, SMT
  <2>3. k * s <= in + s - 1 /\ in + s - 1 < (k + 1) * s
    BY <1>6, <2>1, <2>2
  <2>4. in + s - 1 \in Int
    OBVIOUS
  <2> QED BY <2>1, <2>3, <2>4, DivUnique DEF OutSize, n
<1> QED BY <1>1, <1>3, <1>4, <1>5, <1>6 DEF n

\* For every size, stride and filter, SAME padding makes room for one window per
\* stride that begins in the input and for no more, with halves that differ by at
\* most one, and there is no smaller one (NgraphHelper.hpp:50-64).
THEOREM SamePaddingFits ==
  ASSUME NEW in \in Nat \ {0}, NEW s \in Nat \ {0}, NEW f \in Nat \ {0}
  PROVE  PaddingFits(calculateExplicitPadding(in, s, f), in, s, f)
<1> DEFINE n == OutSize(in, s)
           missing == Missing(in, s, f)
           p == calculateExplicitPadding(in, s, f)
           wanted == CHOOSE k \in 0 .. in : k * s >= in /\ (k - 1) * s < in
<1>1. /\ n \in 0 .. in /\ n > 0
      /\ in <= n * s /\ (n - 1) * s < in
      /\ \A k \in 0 .. in : k * s >= in /\ (k - 1) * s < in => k = n
  BY OutSizeIsCeiling
<1>2. wanted = n
  <2>1. \E k \in 0 .. in : k * s >= in /\ (k - 1) * s < in
    BY <1>1
  <2>2. wanted \in 0 .. in /\ wanted * s >= in /\ (wanted - 1) * s < in
    BY <2>1
  <2> QED BY <1>1, <2>2
<1>3. missing = (n - 1) * s + f - in
  BY DEF Missing
<1>4. n \in Int /\ s \in Int /\ s > 0 /\ in \in Int /\ f \in Int /\ f > 0
  BY <1>1
<1> HIDE DEF n, wanted, missing
<1>5. n * s \in Int /\ (n - 1) * s = n * s - s /\ (n - 2) * s = n * s - s - s
  BY <1>4, SMT
<1>6. missing \in Int
  BY <1>3, <1>4, <1>5
<1>7. CASE missing > 0
  <2> DEFINE head == missing \div 2
  <2>1. p.head = head /\ p.tail = missing - head
    BY <1>7 DEF missing, calculateExplicitPadding
  <2>2. head \in Int /\ 2 * head \in {missing, missing - 1}
    BY <1>6, SMT
  <2> HIDE DEF head, p
  <2> DEFINE total == in + p.head + p.tail
  <2>3. p.tail - p.head \in {0, 1} /\ total = in + missing
    BY <1>4, <1>6, <2>1, <2>2
  <2>4. total - f = (n - 1) * s /\ total - 1 - f = (n - 1) * s - 1
    <3> HIDE DEF total
    <3> QED BY <1>3, <1>4, <1>5, <1>6, <2>3
  <2>5. ((n - 1) * s) \div s = n - 1
    BY <1>4, <1>5, DivUnique
  <2>6. ((n - 1) * s - 1) \div s = n - 2
    <3>1. (n - 1) * s - 1 \in Int /\ n - 2 \in Int /\ (n - 2) + 1 = n - 1
      BY <1>4, <1>5
    <3>2. (n - 2) * s <= (n - 1) * s - 1 /\ (n - 1) * s - 1 < (n - 1) * s
      BY <1>4, <1>5
    <3> QED BY <1>4, <3>1, <3>2, DivUnique
  <2> HIDE DEF total
  <2>7. Windows(total, s, f) = n
    <3>1. Windows(total, s, f) = (n - 1) + 1
      BY <2>4, <2>5 DEF Windows
    <3> QED BY <1>4, <3>1
  <2>8. Windows(total - 1, s, f) = n - 1
    <3>1. Windows(total - 1, s, f) = (n - 2) + 1
      BY <2>4, <2>6 DEF Windows
    <3> QED BY <1>4, <3>1
  <2> QED BY <1>2, <2>3, <2>7, <2>8 DEF PaddingFits, wanted, total, p
<1>8. CASE ~ missing > 0
  <2>1. p.head = 0 /\ p.tail = 0
    BY <1>8 DEF missing, calculateExplicitPadding
  <2> HIDE DEF p
  <2>2. (n - 1) * s <= in - f /\ in - f < n * s /\ in - f \in Int
    BY <1>1, <1>3, <1>4, <1>5, <1>6, <1>8 DEF n
  <2>3. (in - f) \div s = n - 1
    <3>1. n - 1 \in Int /\ (n - 1) + 1 = n
      BY <1>4
    <3> QED BY <1>4, <2>2, <3>1, DivUnique
  <2>4. Windows(in + p.head + p.tail, s, f) = n
    BY <1>4, <2>1, <2>3 DEF Windows
  <2> QED BY <1>2, <2>1, <2>4 DEF PaddingFits, wanted, p
<1> QED BY <1>6, <1>7, <1>8

-----------------------------------------------------------------------------
\* A call that is done was begun by the action of its op.
PaddingDone ==
    /\ call \in Asked
    /\ pc = "loop" => call.op = "mask"
    /\ pc = "done" /\ call.op = "padding" =>
          /\ call.stride # 0
          /\ result = calculateExplicitPadding(call.in, call.stride, call.filter)

LEMMA PaddingDoneKept ==
  ASSUME PaddingDone, [Next]_vars
  PROVE  PaddingDone'
<1>1. CASE Reshape \/ FullyConnected \/ Groups
  BY <1>1 DEF Reshape, FullyConnected, Groups, Begins, Done, Down, PaddingDone
<1>2. CASE Padding
  BY <1>2 DEF Padding, Begins, Done, Down, PaddingDone
<1>3. CASE MaskBegins \/ MaskBit \/ MaskEnds
  BY <1>3 DEF MaskBegins, MaskBit, MaskEnds, Begins, Done, PaddingDone
<1>4. CASE ToHalf \/ ToFloat
  BY <1>4 DEF ToHalf, ToFloat, Begins, Done, PaddingDone
<1>5. CASE UNCHANGED vars
  BY <1>5 DEF vars, PaddingDone
<1> QED BY <1>1, <1>2, <1>3, <1>4, <1>5 DEF Next

\* For any calls: whenever the padding of a size from 1 has been computed, it is
\* the SAME padding (NgraphHelper.hpp:50-64).
THEOREM PaddingIsSame == Spec => []PaddingAsAsked
<1>1. Init => PaddingDone
  BY DEF Init, PaddingDone
<1>2. PaddingDone /\ [Next]_vars => PaddingDone'
  BY PaddingDoneKept
<1>3. PaddingDone => PaddingAsAsked
  <2> SUFFICES ASSUME PaddingDone, pc = "done", call.op = "padding", call.in > 0
               PROVE  PaddingFits(result, call.in, call.stride, call.filter)
    BY DEF PaddingAsAsked
  <2>1. call.in \in Nat \ {0} /\ call.stride \in Nat \ {0} /\ call.filter \in Nat \ {0}
    <3>1. call.in \in Nat /\ call.stride \in Nat /\ call.filter \in Nat \ {0}
      BY NumericAssumption, Zenon DEF PaddingDone
    <3>2. call.stride # 0
      BY DEF PaddingDone
    <3>3. QED
      BY <3>1, <3>2, SMT
  <2> QED BY <2>1, SamePaddingFits DEF PaddingDone
<1> QED BY <1>1, <1>2, <1>3, PTL DEF Spec

-----------------------------------------------------------------------------
(* Floats and halves.                                                      *)

\* The exponent and the mantissa of a float.
LEMMA Parts ==
  ASSUME NEW b \in Nat
  PROVE  /\ b \div 2^23 \in Nat /\ b % 2^23 \in 0 .. 2^23 - 1
         /\ b = (b \div 2^23) * 2^23 + (b % 2^23)
<1>1. b \div 2^23 \in Nat
  BY SMT
<1>2. b % 2^23 \in 0 .. 2^23 - 1
  BY SMT
<1>3. b = Float(b \div 2^23, b % 2^23)
  BY SMT DEF Float
<1>4. Float(b \div 2^23, b % 2^23) = (b \div 2^23) * 2^23 + (b % 2^23)
  BY Zenon DEF Float
<1>5. QED
  BY <1>1, <1>2, <1>3, <1>4, Zenon

LEMMA Bounds ==
  /\ Float(127 - 15, 0) = Float(112, 0) /\ Float(127 - 14, 0) = Float(113, 0)
  /\ Float(112, 0) \in Nat /\ Float(113, 0) \in Nat /\ Float(112, 0) < Float(113, 0)
  /\ AsFloat(Half(1, 0)) = Float(113, 0) /\ AsFloat(MaxHalf) = Float(142, 1023 * Cut)
  /\ AsFloat(MaxHalf) \in Nat
  /\ Float(113, 0) < AsFloat(MaxHalf) /\ AsFloat(MaxHalf) < InfFloat
  /\ InfFloat \in Nat
BY SMT DEF Float, AsFloat, Half, MaxHalf, InfFloat, Cut

\* What is left of a finite float in f32tof16.
LEMMA NarrowedIs ==
  ASSUME NEW v \in Nat
  PROVE  /\ v < Float(112, 0) => Narrowed(v) = 0
         /\ v >= Float(112, 0) /\ v < Float(113, 0) => Narrowed(v) = Half(1, 0)
         /\ v >= Float(113, 0) /\ v < AsFloat(MaxHalf)
               => Narrowed(v) = (v - Float(112, 0)) \div Cut
         /\ v >= AsFloat(MaxHalf) => Narrowed(v) = MaxHalf
<1> USE Bounds
<1>1. ASSUME v < Float(112, 0)
      PROVE  Narrowed(v) = 0 /\ ~(v >= Float(112, 0)) /\ ~(v >= Float(113, 0))
                             /\ ~(v >= AsFloat(MaxHalf))
  <2>1. v \notin Float(112, 0) .. Float(113, 0) - 1 /\ ~(v >= AsFloat(MaxHalf))
        /\ ~(v >= Float(112, 0)) /\ ~(v >= Float(113, 0))
    BY <1>1, SMT
  <2>2. Narrowed(v) = 0
    BY <1>1, <2>1, Zenon DEF Narrowed
  <2>3. QED
    BY <2>1, <2>2
<1>2. ASSUME v >= Float(112, 0), v < Float(113, 0)
      PROVE  Narrowed(v) = Half(1, 0)
  <2>1. /\ ~(v < Float(112, 0)) /\ v \in Float(112, 0) .. Float(113, 0) - 1
        /\ ~(v >= AsFloat(MaxHalf))
    BY <1>2, SMT
  <2>2. QED
    BY <2>1, Zenon DEF Narrowed
<1>3. ASSUME v >= Float(113, 0)
      PROVE  ~(v < Float(112, 0)) /\ v \notin Float(112, 0) .. Float(113, 0) - 1
  BY <1>3, SMT
<1>4. ASSUME v >= Float(113, 0), v < AsFloat(MaxHalf)
      PROVE  Narrowed(v) = (v - Float(112, 0)) \div Cut
  <2>1. ~(v >= AsFloat(MaxHalf))
    BY <1>4, SMT
  <2>2. QED
    BY <1>3, <1>4, <2>1, Zenon DEF Narrowed
<1>5. ASSUME v >= AsFloat(MaxHalf)
      PROVE  Narrowed(v) = MaxHalf
  <2>1. v >= Float(113, 0)
    BY <1>5, SMT
  <2>2. QED
    BY <1>3, <1>5, <2>1, Zenon DEF Narrowed
<1>6. QED
  BY <1>1, <1>2, <1>4, <1>5

\* What float2half divides the significand of a subnormal half by, and the last bits
\* that the least half has there.
Divisor(e) == 2^(113 - e)
Least(e)   == 2^(126 - e)

\* float2half, by the exponent.
LEMMA HalvedCases ==
  ASSUME NEW b \in Nat, NEW e \in Nat, NEW m \in 0 .. 2^23 - 1, b = e * 2^23 + m
  PROVE  Halved(b) =
           CASE b > InfFloat -> InfHalf + (IF m \div Cut = 0 THEN 1 ELSE m \div Cut)
             [] e \in 143 .. 255 /\ b <= InfFloat -> InfHalf
             [] e < 102 -> 0
             [] e \in 102 .. 112 -> ((2^23 + m) \div Divisor(e) + HalfStep) \div Cut
             [] e \in 113 .. 142 -> Half(e - 112, 0) + (m + HalfStep) \div Cut
<1>1. e = b \div 2^23 /\ m = b % 2^23
  BY SMT
<1>2. QED
  BY <1>1, Zenon DEF Halved, Divisor

LEMMA HalvedIs ==
  ASSUME NEW b \in Nat, NEW e \in Nat, NEW m \in 0 .. 2^23 - 1, b = e * 2^23 + m
  PROVE  /\ b > InfFloat
               => Halved(b) = InfHalf + (IF m \div Cut = 0 THEN 1 ELSE m \div Cut)
         /\ b <= InfFloat /\ e >= 143 => Halved(b) = InfHalf
         /\ e < 102 => Halved(b) = 0
         /\ e \in 113 .. 142 => Halved(b) = Half(e - 112, 0) + (m + HalfStep) \div Cut
<1>2. /\ b <= InfFloat => e <= 255
      /\ e <= 142 => b <= InfFloat
      /\ b > InfFloat <=> ~(b <= InfFloat)
  BY SMT DEF InfFloat, Float
<1> DEFINE A == b > InfFloat
           B == e \in 143 .. 255 /\ b <= InfFloat
           C == e < 102
           D == e \in 102 .. 112
           E == e \in 113 .. 142
<1>3. Halved(b) =
        CASE A -> InfHalf + (IF m \div Cut = 0 THEN 1 ELSE m \div Cut)
          [] B -> InfHalf
          [] C -> 0
          [] D -> ((2^23 + m) \div Divisor(e) + HalfStep) \div Cut
          [] E -> Half(e - 112, 0) + (m + HalfStep) \div Cut
  BY HalvedCases, ZenonT(60)
<1>4. /\ A => ~B /\ ~C /\ ~D /\ ~E
      /\ B => ~A /\ ~C /\ ~D /\ ~E
      /\ C => ~A /\ ~B /\ ~D /\ ~E
      /\ E => ~A /\ ~B /\ ~C /\ ~D
  BY <1>2, SMT
<1>5. b <= InfFloat /\ e >= 143 => B
  BY <1>2, SMT
<1> HIDE DEF A, B, C, D, E
<1>6. /\ A => Halved(b) = InfHalf + (IF m \div Cut = 0 THEN 1 ELSE m \div Cut)
      /\ B => Halved(b) = InfHalf
      /\ C => Halved(b) = 0
      /\ E => Halved(b) = Half(e - 112, 0) + (m + HalfStep) \div Cut
  BY <1>3, <1>4, Zenon
<1>7. QED
  BY <1>5, <1>6, Zenon DEF A, B, C, E

LEMMA SubnormalIs ==
  ASSUME NEW b \in Nat, NEW e \in Nat, NEW m \in 0 .. 2^23 - 1, b = e * 2^23 + m
  PROVE  e \in 102 .. 112
           => Halved(b) = ((2^23 + m) \div Divisor(e) + HalfStep) \div Cut
<1> DEFINE A == b > InfFloat
           B == e \in 143 .. 255 /\ b <= InfFloat
           C == e < 102
           D == e \in 102 .. 112
           E == e \in 113 .. 142
<1>1. D => ~A /\ ~B /\ ~C /\ ~E
  BY SMT DEF InfFloat, Float
<1>2. Halved(b) =
        CASE A -> InfHalf + (IF m \div Cut = 0 THEN 1 ELSE m \div Cut)
          [] B -> InfHalf
          [] C -> 0
          [] D -> ((2^23 + m) \div Divisor(e) + HalfStep) \div Cut
          [] E -> Half(e - 112, 0) + (m + HalfStep) \div Cut
  BY HalvedCases, ZenonT(60)
<1> HIDE DEF A, B, C, D, E
<1>3. D => Halved(b) = ((2^23 + m) \div Divisor(e) + HalfStep) \div Cut
  BY <1>1, <1>2, Zenon
<1>4. QED
  BY <1>3, Zenon DEF D

\* f32tof16 and float2half of the floats that lie between normal halves: the nearest
\* half, and of two the larger.
LEMMA NormalHalf ==
  ASSUME NEW b \in Nat, b >= Float(113, 0), b <= AsFloat(MaxHalf)
  PROVE  LET h == (b - Float(112, 0) + HalfStep) \div Cut IN
         /\ Narrowed(Rounded(b)) = h /\ Halved(b) = h
         /\ AsFloat(h) - b \in -HalfStep + 1 .. HalfStep
<1> DEFINE h == (b - Float(112, 0) + HalfStep) \div Cut
           v == Rounded(b)
<1>1. Narrowed(v) = h
  <2>1. /\ v \in Nat /\ v >= Float(113, 0)
        /\ IF v >= AsFloat(MaxHalf) THEN h = MaxHalf ELSE (v - Float(112, 0)) \div Cut = h
    BY SMTT(60) DEF Rounded, Float, HalfStep, Cut, AsFloat, MaxHalf, Half
  <2> HIDE DEF v, h
  <2>2. v >= AsFloat(MaxHalf) => Narrowed(v) = h
    BY <2>1, NarrowedIs
  <2>3. ~(v >= AsFloat(MaxHalf)) => v < AsFloat(MaxHalf)
    BY <2>1, Bounds, SMT
  <2>4. ~(v >= AsFloat(MaxHalf)) => Narrowed(v) = h
    BY <2>1, <2>3, NarrowedIs
  <2>5. QED
    BY <2>2, <2>4
<1>2. Halved(b) = h
  <2>3. PICK e \in Nat, m \in 0 .. 2^23 - 1 : b = e * 2^23 + m
    BY Parts
  <2>4. e \in 113 .. 142
    BY <2>3, SMT DEF Float, AsFloat, MaxHalf, Half, Cut
  <2>5. Half(e - 112, 0) + (m + HalfStep) \div Cut = h
    BY <2>3, SMT DEF Half, Float, HalfStep, Cut
  <2>6. QED
    <3>1. Halved(b) = Half(e - 112, 0) + (m + HalfStep) \div Cut
      BY <2>3, <2>4, HalvedIs, Zenon
    <3>2. QED
      BY <2>5, <3>1, Zenon
<1>3. AsFloat(h) - b \in -HalfStep + 1 .. HalfStep
  BY SMT DEF AsFloat, Float, HalfStep, Cut
<1>4. QED
  BY <1>1, <1>2, <1>3

\* Beyond the largest half.
LEMMA LargeHalf ==
  ASSUME NEW b \in Nat, b > AsFloat(MaxHalf), b < InfFloat
  PROVE  /\ Narrowed(Rounded(b)) = MaxHalf
         /\ Halved(b) = IF b < AsFloat(MaxHalf) + HalfStep THEN MaxHalf ELSE InfHalf
<1>1. Rounded(b) \in Nat /\ Rounded(b) >= AsFloat(MaxHalf)
  BY SMTT(60) DEF Rounded, Float, HalfStep, Cut, AsFloat, MaxHalf, Half
<1>4. PICK e \in Nat, m \in 0 .. 2^23 - 1 : b = e * 2^23 + m
  BY Parts
<1>5. b <= InfFloat /\ (e = 142 \/ e >= 143)
  BY <1>4, SMT DEF Float, AsFloat, MaxHalf, Half, Cut, InfFloat
<1>6. CASE e = 142
  <2>1. Halved(b) = Half(e - 112, 0) + (m + HalfStep) \div Cut
    <3>1. e \in 113 .. 142
      BY <1>6
    <3>2. QED
      BY <1>4, <3>1, HalvedIs
  <2>2. Half(e - 112, 0) + (m + HalfStep) \div Cut
          = IF b < AsFloat(MaxHalf) + HalfStep THEN MaxHalf ELSE InfHalf
    BY <1>4, <1>6, SMT DEF Half, Float, HalfStep, Cut, AsFloat, MaxHalf, InfHalf
  <2>3. QED
    BY <1>1, <2>1, <2>2, NarrowedIs
<1>7. CASE e >= 143
  <2>1. Halved(b) = InfHalf
    BY <1>4, <1>5, <1>7, HalvedIs
  <2>2. ~(b < AsFloat(MaxHalf) + HalfStep)
    BY <1>4, <1>7, SMT DEF AsFloat, MaxHalf, Half, Float, HalfStep, Cut
  <2>3. QED
    BY <1>1, <2>1, <2>2, NarrowedIs
<1>8. QED
  BY <1>5, <1>6, <1>7

\* Infinities and NaNs stay what they are.
LEMMA InfiniteHalf ==
  ASSUME NEW b \in Nat, b >= InfFloat, b < 2^31
  PROVE  /\ b = InfFloat => Shifted(b) = InfHalf /\ Halved(b) = InfHalf
         /\ b > InfFloat => Shifted(b) > InfHalf /\ Halved(b) > InfHalf
<1>1. CASE b = InfFloat
  <2>1. Shifted(b) = InfHalf
    BY <1>1, SMT DEF Shifted, InfFloat, InfHalf, Float, Half, Cut
  <2>2. PICK e \in Nat, m \in 0 .. 2^23 - 1 : b = e * 2^23 + m
    BY Parts
  <2>3. b <= InfFloat /\ ~(b > InfFloat) /\ e >= 143
    BY <1>1, <2>2, SMT DEF InfFloat, Float
  <2>4. Halved(b) = InfHalf
    BY <2>2, <2>3, HalvedIs
  <2>5. QED
    BY <2>1, <2>3, <2>4
<1>2. CASE b > InfFloat
  <2>1. Shifted(b) > InfHalf
    BY <1>2, SMTT(60) DEF Shifted, InfFloat, InfHalf, Float, Half, Cut
  <2>2. PICK e \in Nat, m \in 0 .. 2^23 - 1 : b = e * 2^23 + m
    BY Parts
  <2>3. Halved(b) = InfHalf + (IF m \div Cut = 0 THEN 1 ELSE m \div Cut)
    BY <1>2, <2>2, HalvedIs
  <2>5. InfHalf + (IF m \div Cut = 0 THEN 1 ELSE m \div Cut) > InfHalf
    BY SMT DEF InfHalf, Half, Cut
  <2>6. b # InfFloat
    BY <1>2, Bounds, SMT
  <2>7. QED
    BY <2>1, <2>3, <2>5, <2>6
<1>3. QED
  <2>1. b = InfFloat \/ b > InfFloat
    BY Bounds, SMT
  <2>2. QED
    BY <1>1, <1>2, <2>1

\* The significand of a float below the normal halves, rounded in float2half to a
\* multiple of the least half, which is 2^(126 - e) of its last bits.
LEMMA Subnormal ==
  ASSUME NEW e \in 102 .. 112, NEW M \in 2^23 .. 2^24 - 1,
         NEW g, g = (M \div Divisor(e) + HalfStep) \div Cut
  PROVE  /\ g \in Nat
         /\ -Least(e) < 2 * (g * Least(e) - M)
         /\ 2 * (g * Least(e) - M) <= Least(e)
         /\ e <= 111 => g <= 512
         /\ e = 112 => g >= 512
<1>1. /\ g = (M \div Divisor(e) + HalfStep) \div Cut
     /\ M \in 2^23 .. 2^24 - 1
  OBVIOUS
<1>2. CASE e = 102
  BY <1>1, <1>2, SMTT(60) DEF Cut, HalfStep, Divisor, Least
<1>3. CASE e = 103
  BY <1>1, <1>3, SMTT(60) DEF Cut, HalfStep, Divisor, Least
<1>4. CASE e = 104
  BY <1>1, <1>4, SMTT(60) DEF Cut, HalfStep, Divisor, Least
<1>5. CASE e = 105
  BY <1>1, <1>5, SMTT(60) DEF Cut, HalfStep, Divisor, Least
<1>6. CASE e = 106
  BY <1>1, <1>6, SMTT(60) DEF Cut, HalfStep, Divisor, Least
<1>7. CASE e = 107
  BY <1>1, <1>7, SMTT(60) DEF Cut, HalfStep, Divisor, Least
<1>8. CASE e = 108
  BY <1>1, <1>8, SMTT(60) DEF Cut, HalfStep, Divisor, Least
<1>9. CASE e = 109
  BY <1>1, <1>9, SMTT(60) DEF Cut, HalfStep, Divisor, Least
<1>10. CASE e = 110
  BY <1>1, <1>10, SMTT(60) DEF Cut, HalfStep, Divisor, Least
<1>11. CASE e = 111
  BY <1>1, <1>11, SMTT(60) DEF Cut, HalfStep, Divisor, Least
<1>12. CASE e = 112
  BY <1>1, <1>12, SMTT(60) DEF Cut, HalfStep, Divisor, Least
<1>13. \/ e = 102 \/ e = 103 \/ e = 104 \/ e = 105 \/ e = 106 \/ e = 107
       \/ e = 108 \/ e = 109 \/ e = 110 \/ e = 111 \/ e = 112
  BY SMT
<1>14. QED
  BY <1>2, <1>3, <1>4, <1>5, <1>6, <1>7, <1>8, <1>9, <1>10, <1>11, <1>12, <1>13

\* f32tof16 of such a float is zero or the least normal half, by the float's own
\* exponent unless rounding lifts it to the next.
LEMMA ZeroOrLeast ==
  ASSUME NEW b \in Nat, b < Float(113, 0)
  PROVE  Narrowed(Rounded(b)) = IF b < Float(112, 0) - HalfStep THEN 0 ELSE Half(1, 0)
<1> DEFINE v == Rounded(b)
<1>1. /\ v \in Nat
      /\ b < Float(112, 0) - HalfStep => v < Float(112, 0)
      /\ ~(b < Float(112, 0) - HalfStep) => v >= Float(112, 0)
      /\ v < Float(113, 0) + Cut
  BY SMTT(60) DEF Rounded, Float, HalfStep, Cut
<1> HIDE DEF v
<1>2. CASE b < Float(112, 0) - HalfStep
  BY <1>1, <1>2, NarrowedIs DEF v
<1>3. CASE ~(b < Float(112, 0) - HalfStep) /\ v < Float(113, 0)
  BY <1>1, <1>3, NarrowedIs DEF v
<1>4. CASE ~(b < Float(112, 0) - HalfStep) /\ ~(v < Float(113, 0))
  <2>1. /\ v >= Float(113, 0) /\ v < AsFloat(MaxHalf)
        /\ (v - Float(112, 0)) \div Cut = Half(1, 0)
    BY <1>1, <1>4, SMT DEF Float, AsFloat, MaxHalf, Half, Cut
  <2>2. QED
    BY <1>1, <1>4, <2>1, NarrowedIs DEF v
<1>5. QED
  BY <1>2, <1>3, <1>4

\* float2half of it, and how far that is.
LEMMA SmallHalf ==
  ASSUME NEW b \in Nat, b < Float(113, 0), NEW e \in Nat, NEW m \in 0 .. 2^23 - 1,
         b = e * 2^23 + m, NEW g, g = Halved(b), NEW h, h = Narrowed(Rounded(b))
  PROVE  /\ IF e < 102 THEN g = 0
            ELSE LET distance == g * Least(e) - (2^23 + m) IN
                 -Least(e) < 2 * distance /\ 2 * distance <= Least(e)
         /\ \/ h = 0 /\ g <= Half(1, 0) \div 2
            \/ h = Half(1, 0) /\ g >= Half(1, 0) \div 2
<1>1. e \in Nat /\ m \in 0 .. 2^23 - 1 /\ b = e * 2^23 + m
  OBVIOUS
<1>2. /\ e <= 112
      /\ e < 111 => b < Float(112, 0) - HalfStep
      /\ e = 112 => ~(b < Float(112, 0) - HalfStep)
      /\ Half(1, 0) \div 2 = 512 /\ HalfStep = 4096 /\ Cut = 8192
      /\ 2^23 + m \in 2^23 .. 2^24 - 1
  BY <1>1, SMT DEF Float, HalfStep, Half, Cut
<1>3. h = IF b < Float(112, 0) - HalfStep THEN 0 ELSE Half(1, 0)
  BY ZeroOrLeast
<1>4. CASE e < 102
  <2>1. g = 0
    BY <1>4, HalvedIs
  <2>2. h = 0
    BY <1>1, <1>2, <1>3, <1>4, SMT
  <2>3. QED
    BY <1>2, <1>4, <2>1, <2>2, SMT
<1>5. CASE e \in 102 .. 112
  <2>1. g = ((2^23 + m) \div Divisor(e) + HalfStep) \div Cut
    BY <1>5, SubnormalIs
  <2>2. PICK M : M = 2^23 + m
    OBVIOUS
  <2>3. M \in 2^23 .. 2^24 - 1 /\ g = (M \div Divisor(e) + HalfStep) \div Cut
    BY <1>2, <2>1, <2>2
  <2>4. /\ g \in Nat
        /\ -Least(e) < 2 * (g * Least(e) - M)
        /\ 2 * (g * Least(e) - M) <= Least(e)
        /\ e <= 111 => g <= 512
        /\ e = 112 => g >= 512
    BY <1>5, <2>3, Subnormal
  <2>5. ~(e < 102)
    BY <1>5, SMT
  <2>6. \/ h = 0 /\ g <= Half(1, 0) \div 2
        \/ h = Half(1, 0) /\ g >= Half(1, 0) \div 2
    <3>1. CASE e < 111
      <4>1. e <= 111 /\ b < Float(112, 0) - HalfStep
        BY <1>1, <1>2, <3>1, SMT
      <4>2. QED
        BY <1>2, <1>3, <2>4, <4>1
    <3>2. CASE e = 112
      BY <1>2, <1>3, <2>4, <3>2
    <3>3. CASE e = 111
      <4>1. g <= 512
        BY <2>4, <3>3, SMT
      <4>2. b >= Float(112, 0) - HalfStep => g >= 512
        <5>1. Divisor(e) = 4
          BY <3>3, SMT DEF Divisor
        <5>2. g = (M \div 4 + HalfStep) \div Cut
          BY <2>3, <5>1
        <5>3. b = 111 * 2^23 + m
          BY <1>1, <3>3
        <5>4. QED
          BY <1>1, <2>2, <5>2, <5>3, SMT DEF Float, HalfStep, Cut
      <4>3. QED
        <5>1. Float(112, 0) - HalfStep \in Int
          BY SMT DEF Float, HalfStep
        <5>2. CASE b < Float(112, 0) - HalfStep
          BY <1>2, <1>3, <4>1, <5>2
        <5>3. CASE ~(b < Float(112, 0) - HalfStep)
          <6>1. g >= 512
            BY <4>2, <5>1, <5>3, SMT
          <6>2. QED
            BY <1>2, <1>3, <5>3, <6>1
        <5>4. QED
          BY <5>2, <5>3
    <3>4. QED
      BY <1>2, <1>5, <3>1, <3>2, <3>3, SMT
  <2>7. QED
    BY <2>2, <2>4, <2>5, <2>6
<1>6. QED
  BY <1>1, <1>2, <1>4, <1>5, SMT

SmallFits(e, m, g, h) ==
    /\ IF e < 102 THEN g = 0
       ELSE LET distance == g * Least(e) - (2^23 + m) IN
            -Least(e) < 2 * distance /\ 2 * distance <= Least(e)
    /\ \/ h = 0 /\ g <= Half(1, 0) \div 2
       \/ h = Half(1, 0) /\ g >= Half(1, 0) \div 2

LEMMA SmallHalfFits ==
  ASSUME NEW b \in Nat, b < Float(113, 0), NEW e \in Nat, NEW m \in 0 .. 2^23 - 1,
         b = e * 2^23 + m, NEW g, g = Halved(b), NEW h, h = Narrowed(Rounded(b))
  PROVE  SmallFits(e, m, g, h)
BY SmallHalf, Zenon DEF SmallFits

\* What HalvesAreNearest says of a float and its two halves.
Nearest(x, r) ==
    LET h == r[1].bits
        g == r[2].bits
        exponent == x.bits \div 2^23
        scale    == 2^(126 - exponent)
        distance == g * scale - (2^23 + (x.bits % 2^23))
    IN  /\ x.bits < InfFloat => r[1].sign = x.sign
        /\ r[2].sign = x.sign
        /\ CASE x.bits \in AsFloat(Half(1, 0)) .. AsFloat(MaxHalf) ->
                  h = g /\ AsFloat(h) - x.bits \in -HalfStep + 1 .. HalfStep
             [] x.bits < AsFloat(Half(1, 0)) ->
                  /\ IF exponent < 102 THEN g = 0
                     ELSE -scale < 2 * distance /\ 2 * distance <= scale
                  /\ \/ h = 0 /\ g <= Half(1, 0) \div 2
                     \/ h = Half(1, 0) /\ g >= Half(1, 0) \div 2
             [] x.bits \in AsFloat(MaxHalf) + 1 .. InfFloat - 1 ->
                  /\ h = MaxHalf
                  /\ g = IF x.bits < AsFloat(MaxHalf) + HalfStep THEN MaxHalf ELSE InfHalf
             [] x.bits = InfFloat -> h = InfHalf /\ g = InfHalf
             [] x.bits > InfFloat -> h > InfHalf /\ g > InfHalf

\* The bits of a float and of a half.
Floats == [sign : {0, 1}, bits : 0 .. Float(255, 2^23 - 1)]
Halves == [sign : {0, 1}, bits : 0 .. Half(31, 2^10 - 1)]

LEMMA NearestHalves ==
  ASSUME NEW x \in Floats
  PROVE  Nearest(x, <<f32tof16(x), float2half(x)>>)
<1> DEFINE b == x.bits
           r == <<f32tof16(x), float2half(x)>>
           h == r[1].bits
           g == r[2].bits
           A == b \in AsFloat(Half(1, 0)) .. AsFloat(MaxHalf)
           B == b < AsFloat(Half(1, 0))
           C == b \in AsFloat(MaxHalf) + 1 .. InfFloat - 1
           D == b = InfFloat
           E == b > InfFloat
<1>1. b \in Nat /\ b < 2^31 /\ b \in Int
  <2>1. b \in 0 .. Float(255, 2^23 - 1)
    BY DEF Floats
  <2> HIDE DEF b
  <2>2. QED
    BY <2>1, SMT DEF Float
<1>2. /\ g = Halved(b) /\ r[2].sign = x.sign
      /\ b < InfFloat => h = Narrowed(Rounded(b)) /\ r[1].sign = x.sign
      /\ b >= InfFloat => h = Shifted(b)
  <2>1. b < InfFloat => ~(b >= InfFloat)
    BY <1>1, Bounds, SMT
  <2>2. QED
    BY <2>1, Zenon DEF f32tof16, float2half
<1>3. PICK e \in Nat, m \in 0 .. 2^23 - 1 : b = e * 2^23 + m
  BY <1>1, Parts
<1>4. e = b \div 2^23 /\ m = b % 2^23
  BY <1>3, SMT
<1>5. /\ A => ~B /\ ~C /\ ~D /\ ~E
      /\ B => ~A /\ ~C /\ ~D /\ ~E
      /\ C => ~A /\ ~B /\ ~D /\ ~E
      /\ D => ~A /\ ~B /\ ~C /\ ~E
      /\ E => ~A /\ ~B /\ ~C /\ ~D
      /\ A \/ B \/ C \/ D \/ E
      /\ A => b >= Float(113, 0) /\ b <= AsFloat(MaxHalf) /\ b < InfFloat
      /\ B => b < Float(113, 0) /\ b < InfFloat
      /\ C => b > AsFloat(MaxHalf) /\ b < InfFloat
      /\ D \/ E => b >= InfFloat
  BY <1>1, Bounds, SMT
<1> HIDE DEF b, r
<1>6. A => h = g /\ AsFloat(h) - b \in -HalfStep + 1 .. HalfStep
  BY <1>1, <1>2, <1>5, NormalHalf DEF A
<1>7. B => /\ IF e < 102 THEN g = 0
              ELSE /\ -Least(e) < 2 * (g * Least(e) - (2^23 + m))
                   /\ 2 * (g * Least(e) - (2^23 + m)) <= Least(e)
           /\ \/ h = 0 /\ g <= Half(1, 0) \div 2
              \/ h = Half(1, 0) /\ g >= Half(1, 0) \div 2
  <2>1. ASSUME B
        PROVE  SmallFits(e, m, g, h)
    <3>1. /\ b \in Nat /\ b < Float(113, 0) /\ e \in Nat /\ m \in 0 .. 2^23 - 1
          /\ b = e * 2^23 + m /\ g = Halved(b)
      BY <1>1, <1>2, <1>3, <1>5, <2>1, Zenon
    <3>2. h = Narrowed(Rounded(b))
      BY <1>2, <1>5, <2>1, Zenon
    <3>3. QED
      BY <3>1, <3>2, SmallHalfFits, Zenon
  <2>2. QED
    BY <2>1, Zenon DEF SmallFits
<1>8. C => /\ h = MaxHalf
           /\ g = IF b < AsFloat(MaxHalf) + HalfStep THEN MaxHalf ELSE InfHalf
  BY <1>1, <1>2, <1>5, LargeHalf DEF C
<1>9. D => h = InfHalf /\ g = InfHalf
  BY <1>1, <1>2, <1>5, InfiniteHalf DEF D
<1>10. E => h > InfHalf /\ g > InfHalf
  BY <1>1, <1>2, <1>5, InfiniteHalf DEF E
<1>11. QED
  <2>1. /\ Nearest(x, r) =
             /\ b < InfFloat => r[1].sign = x.sign
             /\ r[2].sign = x.sign
             /\ CASE A -> h = g /\ AsFloat(h) - b \in -HalfStep + 1 .. HalfStep
                  [] B -> /\ IF e < 102 THEN g = 0
                             ELSE /\ -Least(e) < 2 * (g * Least(e) - (2^23 + m))
                                  /\ 2 * (g * Least(e) - (2^23 + m)) <= Least(e)
                          /\ \/ h = 0 /\ g <= Half(1, 0) \div 2
                             \/ h = Half(1, 0) /\ g >= Half(1, 0) \div 2
                  [] C -> /\ h = MaxHalf
                          /\ g = IF b < AsFloat(MaxHalf) + HalfStep
                                 THEN MaxHalf ELSE InfHalf
                  [] D -> h = InfHalf /\ g = InfHalf
                  [] E -> h > InfHalf /\ g > InfHalf
    BY <1>4, Zenon DEF Nearest, Least, b
  <2> HIDE DEF A, B, C, D, E, h, g
  <2>2. QED
    BY <1>2, <1>5, <1>6, <1>7, <1>8, <1>9, <1>10, <2>1, Zenon DEF r

\* What HalvesRoundTrip says of a half and its float.
BackAgain(h, r) ==
    CASE h.bits < Half(1, 0) -> r = [sign |-> h.sign, bits |-> 0]
      [] h.bits \in Half(1, 0) .. MaxHalf -> f32tof16(r) = h /\ float2half(r) = h
      [] h.bits = InfHalf -> f32tof16(r).bits = InfHalf /\ float2half(r) = h
      [] h.bits > InfHalf -> f32tof16(r).bits > InfHalf /\ float2half(r).bits > InfHalf

\* The bits of the float of a half.
LEMMA FloatOfHalf ==
  ASSUME NEW h \in Halves
  PROVE  LET r == f16tof32(h) IN
         /\ r = [sign |-> h.sign, bits |-> r.bits] /\ r.sign = h.sign
         /\ r.bits \in Nat
         /\ h.bits < Half(1, 0) => r.bits = 0
         /\ h.bits \in Half(1, 0) .. MaxHalf => r.bits = AsFloat(h.bits)
         /\ h.bits = InfHalf => r.bits = InfFloat
         /\ h.bits > InfHalf => r.bits > InfFloat /\ r.bits < 2^31
<1> DEFINE r == f16tof32(h)
           b == h.bits
           m == b % 2^10
           quiet == IF m # 0 /\ m < 2^9 THEN m + 2^9 ELSE m
           A == b >= InfHalf
           B == b < Half(1, 0)
<1>1. b \in 0 .. 2^15 - 1 /\ b \in Nat
  <2>1. b \in 0 .. Half(31, 2^10 - 1)
    BY DEF Halves
  <2> HIDE DEF b
  <2>2. QED
    BY <2>1, SMT DEF Half
<1>2. /\ r = [sign |-> h.sign, bits |-> r.bits] /\ r.sign = h.sign
      /\ r.bits = CASE A -> Float(255, quiet * Cut)
                    [] B -> 0
                    [] OTHER -> AsFloat(b)
  <2> DEFINE c == CASE A -> Float(255, quiet * Cut)
                    [] B -> 0
                    [] OTHER -> AsFloat(b)
  <2>1. r = [sign |-> h.sign, bits |-> c]
    BY Zenon DEF f16tof32
  <2> HIDE DEF r, c
  <2>2. r.bits = c /\ r.sign = h.sign
    BY <2>1, Zenon
  <2>3. QED
    BY <2>1, <2>2, Zenon DEF c
<1> HIDE DEF r, b, A, B
<1>3. /\ A => ~B
      /\ b \in Half(1, 0) .. MaxHalf => ~A /\ ~B
      /\ b = InfHalf \/ b > InfHalf => A
      /\ A <=> ~(B \/ b \in Half(1, 0) .. MaxHalf)
      /\ A <=> b = InfHalf \/ b > InfHalf
  BY <1>1, SMT DEF A, B, InfHalf, MaxHalf, Half
<1>4. /\ A => r.bits = Float(255, quiet * Cut)
      /\ B => r.bits = 0
      /\ b \in Half(1, 0) .. MaxHalf => r.bits = AsFloat(b)
  BY <1>2, <1>3, Zenon
<1>5. /\ Float(255, quiet * Cut) \in Nat
      /\ b = InfHalf => Float(255, quiet * Cut) = InfFloat
      /\ b > InfHalf => /\ Float(255, quiet * Cut) > InfFloat
                         /\ Float(255, quiet * Cut) < 2^31
  BY <1>1, SMT DEF Float, Cut, InfFloat, InfHalf, Half
<1>6. b \in Half(1, 0) .. MaxHalf => AsFloat(b) \in Nat
  BY <1>1, SMT DEF AsFloat, Float, Cut
<1>7. r.bits \in Nat
  BY <1>3, <1>4, <1>5, <1>6
<1> HIDE DEF m, quiet
<1>8. QED
  BY <1>2, <1>3, <1>4, <1>5, <1>7, Zenon DEF r, b, B

LEMMA HalfComesBack ==
  ASSUME NEW h \in Halves
  PROVE  BackAgain(h, f16tof32(h))
<1> DEFINE r == f16tof32(h)
           b == h.bits
           s == h.sign
           A == b < Half(1, 0)
           B == b \in Half(1, 0) .. MaxHalf
           C == b = InfHalf
           D == b > InfHalf
<1>1. b \in Nat /\ h = [sign |-> s, bits |-> b]
  <2>1. b \in 0 .. Half(31, 2^10 - 1) /\ h = [sign |-> s, bits |-> b]
    BY DEF Halves
  <2> HIDE DEF b, s
  <2>2. QED
    BY <2>1, SMT DEF Half
<1>2. /\ r = [sign |-> s, bits |-> r.bits] /\ r.sign = s
      /\ r.bits \in Nat
      /\ A => r.bits = 0
      /\ B => r.bits = AsFloat(b)
      /\ C => r.bits = InfFloat
      /\ D => r.bits > InfFloat /\ r.bits < 2^31
  BY FloatOfHalf, Zenon
<1> HIDE DEF r, b, s
<1>3. /\ float2half(r).bits = Halved(r.bits)
      /\ float2half(r) = [sign |-> s, bits |-> Halved(r.bits)]
      /\ r.bits < InfFloat
            => f32tof16(r) = [sign |-> s, bits |-> Narrowed(Rounded(r.bits))]
      /\ r.bits >= InfFloat => f32tof16(r).bits = Shifted(r.bits)
  <2>1. r.bits < InfFloat => ~(r.bits >= InfFloat)
    BY <1>2, Bounds, SMT
  <2>2. QED
    BY <1>2, <2>1, Zenon DEF f32tof16, float2half
<1>4. /\ A => ~B /\ ~C /\ ~D
      /\ B => ~A /\ ~C /\ ~D
      /\ C => ~A /\ ~B /\ ~D
      /\ D => ~A /\ ~B /\ ~C
      /\ A \/ B \/ C \/ D
  BY <1>1, SMT DEF InfHalf, MaxHalf, Half
<1>5. CASE B
  <2>1. /\ AsFloat(b) >= Float(113, 0) /\ AsFloat(b) <= AsFloat(MaxHalf)
        /\ AsFloat(b) < InfFloat
        /\ (AsFloat(b) - Float(112, 0) + HalfStep) \div Cut = b
    BY <1>1, <1>5, SMT DEF AsFloat, Float, MaxHalf, Half, HalfStep, Cut, InfFloat
  <2>2. Narrowed(Rounded(r.bits)) = b /\ Halved(r.bits) = b
    BY <1>2, <1>5, <2>1, NormalHalf
  <2>3. r.bits < InfFloat
    BY <1>2, <1>5, <2>1, Zenon
  <2>4. f32tof16(r) = h /\ float2half(r) = h
    BY <1>1, <1>3, <2>2, <2>3, Zenon
  <2> HIDE DEF A, B, C, D
  <2>5. QED
    BY <1>4, <1>5, <2>4, Zenon DEF BackAgain, A, B, C, D, r, b
<1>6. CASE A
  <2>1. r = [sign |-> s, bits |-> 0]
    BY <1>2, <1>6, Zenon
  <2> HIDE DEF A, B, C, D
  <2>2. QED
    BY <1>4, <1>6, <2>1, Zenon DEF BackAgain, A, B, C, D, r, b, s
<1>7. CASE C
  <2>1. r.bits >= InfFloat /\ r.bits < 2^31
    BY <1>2, <1>7, SMT DEF InfFloat, Float
  <2>2. Shifted(r.bits) = InfHalf /\ Halved(r.bits) = InfHalf
    BY <1>2, <1>7, <2>1, InfiniteHalf
  <2>3. f32tof16(r).bits = InfHalf /\ float2half(r) = h
    BY <1>1, <1>3, <1>7, <2>1, <2>2, Zenon
  <2> HIDE DEF A, B, C, D
  <2>4. QED
    BY <1>4, <1>7, <2>3, Zenon DEF BackAgain, A, B, C, D, r, b
<1>8. CASE D
  <2>1. r.bits >= InfFloat /\ r.bits < 2^31
    BY <1>2, <1>8, Bounds, SMT
  <2>2. Shifted(r.bits) > InfHalf /\ Halved(r.bits) > InfHalf
    BY <1>2, <1>8, <2>1, InfiniteHalf
  <2>3. f32tof16(r).bits > InfHalf /\ float2half(r).bits > InfHalf
    BY <1>3, <2>1, <2>2, Zenon
  <2> HIDE DEF A, B, C, D
  <2>4. QED
    BY <1>4, <1>8, <2>3, Zenon DEF BackAgain, A, B, C, D, r, b
<1>9. QED
  BY <1>4, <1>5, <1>6, <1>7, <1>8

-----------------------------------------------------------------------------
\* A float or a half that is done has been converted.
HalvesDone ==
    /\ call \in Asked
    /\ pc = "loop" => call.op = "mask"
    /\ pc = "done" /\ call.op = "f32tof16" =>
          result = <<f32tof16(call.x), float2half(call.x)>>
    /\ pc = "done" /\ call.op = "f16tof32" => result = f16tof32(call.x)

LEMMA HalvesDoneKept ==
  ASSUME HalvesDone, [Next]_vars
  PROVE  HalvesDone'
<1>1. CASE Reshape \/ FullyConnected \/ Groups \/ Padding
  BY <1>1 DEF Reshape, FullyConnected, Groups, Padding, Begins, Done, Down, HalvesDone
<1>2. CASE MaskBegins \/ MaskBit \/ MaskEnds
  BY <1>2 DEF MaskBegins, MaskBit, MaskEnds, Begins, Done, HalvesDone
<1>3. CASE ToHalf \/ ToFloat
  BY <1>3 DEF ToHalf, ToFloat, Begins, Done, HalvesDone
<1>4. CASE UNCHANGED vars
  BY <1>4 DEF vars, HalvesDone
<1>5. QED
  BY <1>1, <1>2, <1>3, <1>4 DEF Next

\* For every float: f32tof16 gives the nearest half, of two the larger, and the same as
\* float2half wherever both are normal, with what HalvesAreNearest says of the others
\* (utils.cpp:48-160, 217-279).
THEOREM NearestHalf == Spec => []HalvesAreNearest
<1>1. Init => HalvesDone
  BY DEF Init, HalvesDone
<1>2. HalvesDone /\ [Next]_vars => HalvesDone'
  BY HalvesDoneKept
<1>3. HalvesDone => HalvesAreNearest
  <2> SUFFICES ASSUME HalvesDone, pc = "done", call.op = "f32tof16"
               PROVE  Nearest(call.x, result)
    BY DEF HalvesAreNearest, Nearest
  <2>1. call.x \in Floats
    BY NumericAssumption DEF HalvesDone, Floats
  <2>2. Nearest(call.x, <<f32tof16(call.x), float2half(call.x)>>)
    BY <2>1, NearestHalves
  <2>3. QED
    BY <2>2, Zenon DEF HalvesDone
<1>4. QED
  BY <1>1, <1>2, <1>3, PTL DEF Spec

\* For every half: the float it goes to comes back as the same half, but for what
\* HalvesRoundTrip says of subnormals and signs (utils.cpp:174-213).
THEOREM HalfRoundTrip == Spec => []HalvesRoundTrip
<1>1. Init => HalvesDone
  BY DEF Init, HalvesDone
<1>2. HalvesDone /\ [Next]_vars => HalvesDone'
  BY HalvesDoneKept
<1>3. HalvesDone => HalvesRoundTrip
  <2> SUFFICES ASSUME HalvesDone, pc = "done", call.op = "f16tof32"
               PROVE  BackAgain(call.x, result)
    BY DEF HalvesRoundTrip, BackAgain
  <2>1. call.x \in Halves
    BY NumericAssumption DEF HalvesDone, Halves
  <2>2. BackAgain(call.x, f16tof32(call.x))
    BY <2>1, HalfComesBack
  <2>3. QED
    BY <2>2, Zenon DEF HalvesDone
<1>4. QED
  BY <1>1, <1>2, <1>3, PTL DEF Spec

-----------------------------------------------------------------------------
(* The mask.                                                               *)

\* A set of numbers that is not empty has a least one: the library's induction, for
\* a set of counterexamples instead of a predicate.
LEMMA LeastNumber ==
  ASSUME NEW T \in SUBSET Nat, T # {}
  PROVE  \E x \in T : \A y \in T : x <= y
<1> DEFINE R == {ss \in Nat \X Nat : ss[1] < ss[2]}
<1>1. IsWellFoundedOn(R, Nat)
  BY NatLessThanWellFounded, Zenon DEF OpToRel
<1>2. PICK x \in T : \A y \in T : <<y, x>> \notin R
  BY <1>1, WFMin
<1>3. ASSUME NEW y \in T
      PROVE  x <= y
  <2>1. x \in Nat /\ y \in Nat /\ <<y, x>> \notin R
    BY <1>2
  <2>2. ~(y < x)
    BY <2>1, Zenon
  <2>3. QED
    BY <2>1, <2>2, SMT
<1>4. QED
  BY <1>3

\* The prover knows a power of two only where the exponent is a number.
LEMMA Doubles ==
  ASSUME NEW k \in 0 .. 31
  PROVE  2^k \in Nat \ {0} /\ 2^(k + 1) = 2 * 2^k
<1>1. CASE k = 0
  BY <1>1, SMT
<1>2. CASE k = 1
  BY <1>2, SMT
<1>3. CASE k = 2
  BY <1>3, SMT
<1>4. CASE k = 3
  BY <1>4, SMT
<1>5. CASE k = 4
  BY <1>5, SMT
<1>6. CASE k = 5
  BY <1>6, SMT
<1>7. CASE k = 6
  BY <1>7, SMT
<1>8. CASE k = 7
  BY <1>8, SMT
<1>9. CASE k = 8
  BY <1>9, SMT
<1>10. CASE k = 9
  BY <1>10, SMT
<1>11. CASE k = 10
  BY <1>11, SMT
<1>12. CASE k = 11
  BY <1>12, SMT
<1>13. CASE k = 12
  BY <1>13, SMT
<1>14. CASE k = 13
  BY <1>14, SMT
<1>15. CASE k = 14
  BY <1>15, SMT
<1>16. CASE k = 15
  BY <1>16, SMT
<1>17. CASE k = 16
  BY <1>17, SMT
<1>18. CASE k = 17
  BY <1>18, SMT
<1>19. CASE k = 18
  BY <1>19, SMT
<1>20. CASE k = 19
  BY <1>20, SMT
<1>21. CASE k = 20
  BY <1>21, SMT
<1>22. CASE k = 21
  BY <1>22, SMT
<1>23. CASE k = 22
  BY <1>23, SMT
<1>24. CASE k = 23
  BY <1>24, SMT
<1>25. CASE k = 24
  BY <1>25, SMT
<1>26. CASE k = 25
  BY <1>26, SMT
<1>27. CASE k = 26
  BY <1>27, SMT
<1>28. CASE k = 27
  BY <1>28, SMT
<1>29. CASE k = 28
  BY <1>29, SMT
<1>30. CASE k = 29
  BY <1>30, SMT
<1>31. CASE k = 30
  BY <1>31, SMT
<1>32. CASE k = 31
  BY <1>32, SMT
<1>33. \/ k = 0 \/ k = 1 \/ k = 2 \/ k = 3 \/ k = 4 \/ k = 5
       \/ k = 6 \/ k = 7 \/ k = 8 \/ k = 9 \/ k = 10 \/ k = 11
       \/ k = 12 \/ k = 13 \/ k = 14 \/ k = 15 \/ k = 16 \/ k = 17
       \/ k = 18 \/ k = 19 \/ k = 20 \/ k = 21 \/ k = 22 \/ k = 23
       \/ k = 24 \/ k = 25 \/ k = 26 \/ k = 27 \/ k = 28 \/ k = 29
       \/ k = 30 \/ k = 31
  BY SMT
<1>34. QED
  BY <1>1, <1>2, <1>3, <1>4, <1>5, <1>6, <1>7, <1>8, <1>9, <1>10, <1>11, <1>12,
     <1>13, <1>14, <1>15, <1>16, <1>17, <1>18, <1>19, <1>20, <1>21, <1>22, <1>23,
     <1>24, <1>25, <1>26, <1>27, <1>28, <1>29, <1>30, <1>31, <1>32, <1>33

\* The powers of two that fit.
Power == [k \in 0 .. 32 |-> 2^k]

LEMMA Powers ==
  /\ Power[0] = 1
  /\ \A k \in 0 .. 32 : Power[k] \in Nat \ {0} /\ Power[k] = 2^k
  /\ \A k \in 0 .. 31 : Power[k + 1] = 2 * Power[k]
<1>1. \A k \in 0 .. 32 : Power[k] = 2^k
  BY DEF Power
<1>2. ASSUME NEW k \in 0 .. 31
      PROVE  Power[k] \in Nat \ {0} /\ Power[k + 1] = 2 * Power[k]
  <2>1. k \in 0 .. 32 /\ k + 1 \in 0 .. 32
    BY SMT
  <2>2. Power[k] = 2^k /\ Power[k + 1] = 2^(k + 1)
    BY <1>1, <2>1, Zenon
  <2>3. QED
    BY <2>2, Doubles, Zenon
<1>3. Power[0] = 1
  <2>1. Power[0] = 2^0 /\ 2^0 = 1
    BY <1>1, SMT
  <2>2. QED
    BY <2>1
<1>4. Power[32] \in Nat \ {0}
  <2>1. Power[32] = 2^32
    BY <1>1, SMT
  <2>2. QED
    BY <2>1, SMT
<1>5. \A k \in 0 .. 32 : k \in 0 .. 31 \/ k = 32
  BY SMT
<1>6. QED
  BY <1>1, <1>2, <1>3, <1>4, <1>5

\* The larger exponent has the larger power.
LEMMA PowersGrow ==
  ASSUME NEW j \in 0 .. 32, NEW n \in j .. 32
  PROVE  Power[j] <= Power[n]
<1> SUFFICES ASSUME ~(Power[j] <= Power[n])
             PROVE  FALSE
  OBVIOUS
<1> DEFINE T == {k \in j .. 32 : ~(Power[j] <= Power[k])}
<1>1. T \in SUBSET Nat /\ n \in T
  BY SMT
<1>2. PICK k \in T : \A y \in T : k <= y
  BY <1>1, LeastNumber
<1>3. k \in j .. 32 /\ ~(Power[j] <= Power[k])
  BY <1>2
<1>4. Power[j] \in Nat
  BY Powers
<1>5. k # j
  BY <1>3, <1>4, SMT
<1>6. k - 1 \in j .. 32 /\ k - 1 \in 0 .. 31 /\ (k - 1) + 1 = k /\ ~(k <= k - 1)
  BY <1>3, <1>5, SMT
<1>7. k - 1 \notin T
  BY <1>2, <1>6
<1>8. Power[j] <= Power[k - 1]
  BY <1>6, <1>7
<1>9. Power[k] = 2 * Power[k - 1] /\ Power[k - 1] \in Nat
  <2>1. Power[(k - 1) + 1] = 2 * Power[k - 1] /\ k - 1 \in 0 .. 32
    BY <1>6, Powers, SMT
  <2>2. QED
    BY <1>6, <2>1, Powers
<1>10. QED
  BY <1>3, <1>4, <1>8, <1>9, SMT

\* Two divisions are one.
LEMMA HalfAgain ==
  ASSUME NEW a \in Nat, NEW p \in Nat \ {0}
  PROVE  /\ a \div p \in Nat
         /\ (a \div p) \div 2 = a \div (2 * p)
         /\ a < p => a \div p = 0
<1> DEFINE d == a \div p
           q == d \div 2
<1>1. d \in Int /\ d * p <= a /\ a < (d + 1) * p
  BY DivBounds
<1>2. d \in Nat /\ (a < p => d = 0)
  <2>1. ASSUME d < 0
        PROVE  FALSE
    <3>1. (d + 1) * p <= 0 * p
      BY <1>1, <2>1, Grows, SMT
    <3>2. QED
      BY <1>1, <3>1, SMT
  <2>2. ASSUME a < p, d > 0
        PROVE  FALSE
    <3>1. (0 + 1) * p <= d * p
      BY <1>1, <2>2, Grows, SMT
    <3>2. QED
      BY <1>1, <2>2, <3>1, SMT
  <2>3. QED
    BY <1>1, <2>1, <2>2, SMT
<1> HIDE DEF d
<1>3. q \in Int /\ 2 * q <= d /\ d + 1 <= 2 * q + 2
  BY <1>2, SMT
<1> HIDE DEF q
<1>4. (2 * q) * p <= d * p /\ (d + 1) * p <= (2 * q + 2) * p
  <2>1. ASSUME NEW x \in Int, NEW y \in Int, x <= y
        PROVE  x * p <= y * p
    <3>1. CASE x = y
      BY <3>1, SMT
    <3>2. CASE x < y
      <4>1. (x + 1) * p <= y * p /\ (x + 1) * p = x * p + p
        BY <3>2, Grows
      <4>2. x * p \in Int /\ y * p \in Int
        BY SMT
      <4>3. QED
        BY <4>1, <4>2, SMT
    <3>3. QED
      BY <2>1, <3>1, <3>2, SMT
  <2>2. 2 * q \in Int /\ d \in Int /\ d + 1 \in Int /\ 2 * q + 2 \in Int
    BY <1>1, <1>3, SMT
  <2>3. QED
    BY <1>3, <2>1, <2>2
<1>5. (2 * q) * p = q * (2 * p) /\ (2 * q + 2) * p = (q + 1) * (2 * p)
  BY <1>3, SMT
<1>6. q * (2 * p) <= a /\ a < (q + 1) * (2 * p) /\ 2 * p \in Int /\ 2 * p > 0
  <2>1. /\ d * p \in Int /\ (d + 1) * p \in Int
        /\ q * (2 * p) \in Int /\ (q + 1) * (2 * p) \in Int
    BY <1>1, <1>3, SMT
  <2>2. QED
    BY <1>1, <1>4, <1>5, <2>1, SMT
<1>7. a \div (2 * p) = q
  BY <1>3, <1>6, DivUnique
<1>8. QED
  BY <1>2, <1>7 DEF d, q

\* A mask that has no bit beyond the rank, and its bits.
InRank(c) == c.op = "mask" /\ c.mask \in 0 .. Power[c.rank] - 1
BitAt(c, k) == (c.mask \div Power[k - 1]) % 2

\* The loop of getMaskBits has spelled out the bits before the i-th, and what is left
\* of the mask are the others.
MaskDone ==
    /\ call \in Asked
    /\ pc = "loop" => call.op = "mask"
    /\ InRank(call) =>
          /\ service = "up"
          /\ pc = "loop" =>
                /\ i \in 1 .. call.rank + 1
                /\ mask = call.mask \div Power[i - 1]
                /\ mask < Power[call.rank + 1 - i]
                /\ result = [k \in 1 .. call.rank |-> IF k < i THEN BitAt(call, k) ELSE 0]
          /\ pc = "done" => \A k \in 1 .. call.rank : result[k] = BitAt(call, k)

LEMMA MaskDoneKept ==
  ASSUME MaskDone, [Next]_vars
  PROVE  MaskDone'
<1>1. ASSUME ~InRank(call) \/ call.op # "mask"
      PROVE  MaskDone'
  <2>1. ~InRank(call)
    BY <1>1 DEF InRank
  <2>2. call' = call /\ (pc' = "loop" => call.op = "mask")
    <3>1. CASE Reshape \/ FullyConnected \/ Groups \/ Padding
      BY <3>1 DEF Reshape, FullyConnected, Groups, Padding, Begins, Done, Down, MaskDone
    <3>2. CASE MaskBegins \/ MaskBit \/ MaskEnds \/ ToHalf \/ ToFloat
      BY <3>2 DEF MaskBegins, MaskBit, MaskEnds, ToHalf, ToFloat, Begins, Done, MaskDone
    <3>3. CASE UNCHANGED vars
      BY <3>3 DEF vars, MaskDone
    <3>4. QED
      BY <3>1, <3>2, <3>3 DEF Next
  <2>3. InRank(call)' <=> InRank(call)
    BY <2>2 DEF InRank
  <2>4. QED
    BY <2>1, <2>2, <2>3 DEF MaskDone
<1> SUFFICES ASSUME InRank(call), call.op = "mask"
             PROVE  MaskDone'
  BY <1>1
<1> DEFINE rank == call.rank
<1>2. rank \in 0 .. 32 /\ call.mask \in Nat /\ call.mask < Power[rank]
  <2>1. rank \in 0 .. Width /\ Width \in 2 .. 32
    BY NumericAssumption DEF MaskDone
  <2>2. rank \in 0 .. 32
    BY <2>1, SMT
  <2>3. Power[rank] \in Nat /\ call.mask \in 0 .. Power[rank] - 1
    BY <2>2, Powers DEF InRank
  <2>4. QED
    BY <2>2, <2>3, SMT
<1>3. ~Reshape /\ ~FullyConnected /\ ~Groups /\ ~Padding /\ ~ToHalf /\ ~ToFloat
  BY DEF Reshape, FullyConnected, Groups, Padding, ToHalf, ToFloat, Begins
<1>4. CASE MaskBegins
  <2>1. /\ call' = call /\ service' = service /\ pc' = "loop" /\ mask' = call.mask /\ i' = 1
        /\ result' = [k \in 1 .. rank |-> 0]
    BY <1>4 DEF MaskBegins
  <2>2. call.mask \div Power[1 - 1] = call.mask /\ Power[rank + 1 - 1] = Power[rank]
    <3>1. 1 - 1 = 0 /\ rank + 1 - 1 = rank
      BY <1>2, SMT
    <3>2. Power[1 - 1] = 1
      BY <3>1, Powers
    <3>3. QED
      BY <1>2, <3>1, <3>2, SMT
  <2>3. 1 \in 1 .. rank + 1 /\ \A k \in 1 .. rank : ~(k < 1)
    BY <1>2, SMT
  <2>4. [k \in 1 .. rank |-> 0] = [k \in 1 .. rank |-> IF k < 1 THEN BitAt(call, k) ELSE 0]
    BY <2>3
  <2>5. QED
    BY <1>2, <2>1, <2>2, <2>3, <2>4 DEF MaskDone
<1>5. CASE MaskBit
  <2>0. i \in 1 .. rank + 1
    BY <1>5 DEF MaskBit, MaskDone
  <2>1. /\ i \in 1 .. rank + 1
        /\ mask = call.mask \div Power[i - 1]
        /\ mask < Power[rank + 1 - i]
        /\ result = [k \in 1 .. rank |-> IF k < i THEN BitAt(call, k) ELSE 0]
        /\ pc = "loop" /\ mask # 0 /\ service = "up"
    BY <1>5 DEF MaskBit, MaskDone
  <2>2. i - 1 \in 0 .. 32 /\ Power[i - 1] \in Nat \ {0}
    <3>1. i - 1 \in 0 .. 32
      BY <1>2, <2>0, SMT
    <3>2. QED
      BY <3>1, Powers
  <2>3. mask \in Nat
    BY <1>2, <2>1, <2>2, HalfAgain
  <2>4. i \in 1 .. rank
    <3>1. ASSUME i = rank + 1
          PROVE  FALSE
      <4>1. rank + 1 - i = 0
        BY <1>2, <3>1, SMT
      <4>2. mask < 1
        BY <2>1, <4>1, Powers
      <4>3. QED
        BY <2>1, <2>3, <4>2, SMT
    <3>2. QED
      BY <1>2, <2>0, <3>1, SMT
  <2>5. /\ i - 1 \in 0 .. 31 /\ (i - 1) + 1 = i /\ i + 1 - 1 = i
        /\ rank - i \in 0 .. 31 /\ (rank - i) + 1 = rank + 1 - i
        /\ rank + 1 - (i + 1) = rank - i
        /\ i + 1 \in 1 .. rank + 1
    BY <1>2, <2>4, SMT
  <2>6. /\ Power[i] = 2 * Power[i - 1]
        /\ Power[rank + 1 - i] = 2 * Power[rank - i]
        /\ Power[rank - i] \in Nat
    <3>1. /\ Power[(i - 1) + 1] = 2 * Power[i - 1]
          /\ Power[(rank - i) + 1] = 2 * Power[rank - i]
      BY <2>5, Powers
    <3>2. rank - i \in 0 .. 32
      BY <2>5, SMT
    <3>3. QED
      BY <2>5, <3>1, <3>2, Powers
  <2>7. /\ Quotient(mask, 2) = mask \div 2 /\ Bit = mask % 2
        /\ mask \div 2 < Power[rank - i]
    BY <2>1, <2>3, <2>6, SMT DEF Quotient, Bit
  <2>8. mask \div 2 = call.mask \div Power[i]
    <3>1. call.mask \in Nat /\ Power[i - 1] \in Nat \ {0} /\ mask = call.mask \div Power[i - 1]
      BY <1>2, <2>1, <2>2
    <3>2. (call.mask \div Power[i - 1]) \div 2 = call.mask \div (2 * Power[i - 1])
      BY <3>1, HalfAgain, Zenon
    <3>3. QED
      BY <2>6, <3>1, <3>2, Zenon
  <2>9. /\ mask' = mask \div 2 /\ i' = i + 1
        /\ call' = call /\ pc' = pc /\ service' = service
        /\ result' = [result EXCEPT ![i] = BitAt(call, i)]
    <3>1. i \in DOMAIN result
      BY <2>1, <2>4
    <3>2. Bit = BitAt(call, i)
      BY <2>1, <2>7 DEF BitAt
    <3>3. QED
      BY <1>5, <2>7, <3>1, <3>2 DEF MaskBit
  <2>10. result' = [k \in 1 .. rank |-> IF k < i + 1 THEN BitAt(call, k) ELSE 0]
    <3>1. \A k \in 1 .. rank : k < i + 1 <=> k < i \/ k = i
      BY <1>2, <2>4, SMT
    <3>2. [result EXCEPT ![i] = BitAt(call, i)]
            = [k \in 1 .. rank |-> IF k = i THEN BitAt(call, i) ELSE result[k]]
      BY <2>1, <2>4
    <3>3. \A k \in 1 .. rank : result[k] = IF k < i THEN BitAt(call, k) ELSE 0
      BY <2>1
    <3>4. \A k \in 1 .. rank : (IF k = i THEN BitAt(call, i) ELSE result[k])
                                 = IF k < i + 1 THEN BitAt(call, k) ELSE 0
      BY <3>1, <3>3
    <3>5. QED
      BY <2>9, <3>2, <3>4
  <2>11. pc' = "loop" /\ service' = "up"
    BY <2>1, <2>9
  <2>12. /\ i' \in 1 .. rank + 1
         /\ mask' = call.mask \div Power[i' - 1]
         /\ mask' < Power[rank + 1 - i']
    BY <2>5, <2>7, <2>8, <2>9
  <2>13. result' = [k \in 1 .. rank |-> IF k < i' THEN BitAt(call, k) ELSE 0]
    BY <2>9, <2>10
  <2>14. QED
    BY <2>9, <2>11, <2>12, <2>13 DEF MaskDone
<1>6. CASE MaskEnds
  <2>0. i \in 1 .. rank + 1
    BY <1>6 DEF MaskEnds, MaskDone
  <2>1. /\ i \in 1 .. rank + 1
        /\ 0 = call.mask \div Power[i - 1]
        /\ result = [k \in 1 .. rank |-> IF k < i THEN BitAt(call, k) ELSE 0]
        /\ service = "up"
    BY <1>6 DEF MaskEnds, MaskDone
  <2>2. ASSUME NEW k \in 1 .. rank, ~(k < i)
        PROVE  BitAt(call, k) = 0
    <3>1. i - 1 \in 0 .. 32 /\ k - 1 \in (i - 1) .. 32 /\ k - 1 \in 0 .. 32
      BY <1>2, <2>0, <2>2, SMT
    <3>2. /\ Power[i - 1] \in Nat \ {0} /\ Power[k - 1] \in Nat \ {0}
          /\ Power[i - 1] <= Power[k - 1]
      BY <3>1, Powers, PowersGrow
    <3>3. call.mask < Power[i - 1]
      <4>1. call.mask < (call.mask \div Power[i - 1] + 1) * Power[i - 1]
        BY <1>2, <3>2, DivBounds
      <4>2. QED
        BY <2>1, <3>2, <4>1, SMT
    <3>4. call.mask < Power[k - 1]
      BY <1>2, <3>2, <3>3, SMT
    <3>5. call.mask \div Power[k - 1] = 0
      BY <1>2, <3>2, <3>4, HalfAgain
    <3>6. QED
      BY <3>5, SMT DEF BitAt
  <2>3. \A k \in 1 .. rank : result[k] = BitAt(call, k)
    BY <2>1, <2>2
  <2>4. call' = call /\ pc' = "done" /\ result' = result /\ service' = service
    BY <1>6 DEF MaskEnds, Done
  <2>5. QED
    BY <2>1, <2>3, <2>4 DEF MaskDone
<1>7. CASE UNCHANGED vars
  BY <1>7 DEF vars, MaskDone, InRank
<1>8. QED
  BY <1>3, <1>4, <1>5, <1>6, <1>7 DEF Next

\* A mask that has no bit beyond the rank is spelled out bit by bit, and nothing is
\* written behind the vector, for every rank and mask (StridedSlice.cpp:95-104).
THEOREM MaskSpelledOut == Spec => []MaskAsAsked
<1>1. Init => MaskDone
  BY DEF Init, MaskDone
<1>2. MaskDone /\ [Next]_vars => MaskDone'
  BY MaskDoneKept
<1>3. MaskDone => MaskAsAsked
  <2> SUFFICES ASSUME MaskDone, call.op = "mask", call.mask \in 0 .. 2^call.rank - 1
               PROVE  /\ service = "up"
                      /\ pc = "done" =>
                            \A k \in 1 .. call.rank :
                               result[k] = (call.mask \div 2^(k - 1)) % 2
    BY DEF MaskAsAsked
  <2>1. call.rank \in 0 .. 32
    <3>1. call.rank \in 0 .. Width /\ Width \in 2 .. 32
      BY NumericAssumption DEF MaskDone
    <3>2. QED
      BY <3>1, SMT
  <2>2. InRank(call)
    BY <2>1, Powers DEF InRank
  <2>3. ASSUME NEW k \in 1 .. call.rank
        PROVE  BitAt(call, k) = (call.mask \div 2^(k - 1)) % 2
    <3>1. k - 1 \in 0 .. 32
      BY <2>1, SMT
    <3>2. Power[k - 1] = 2^(k - 1)
      BY <3>1, Powers, Zenon
    <3>3. QED
      BY <3>2, Zenon DEF BitAt
  <2>4. QED
    BY <2>2, <2>3, Zenon DEF MaskDone
<1>4. QED
  BY <1>1, <1>2, <1>3, PTL DEF Spec

-----------------------------------------------------------------------------
(* The shapes.                                                             *)

\* The loop of Elements, up to a number of dimensions.
Loop(d, n, g) ==
    /\ DOMAIN g = 0 .. n
    /\ g[0] = 1
    /\ \A k \in 1 .. n : g[k] = g[k - 1] * d[k]

\* The lists of integers, and the functions that are such.
LEMMA Listed ==
  ASSUME NEW S, NEW n \in Nat, NEW f \in [1 .. n -> S]
  PROVE  f \in Seq(S) /\ Len(f) = n /\ DOMAIN f = 1 .. n
OBVIOUS

LEMMA Loops ==
  ASSUME NEW d, NEW n \in Nat
  PROVE  \E g : Loop(d, n, g)
<1> DEFINE T == {m \in Nat : ~\E g : Loop(d, m, g)}
<1>1. SUFFICES ASSUME T # {}
               PROVE  FALSE
  BY Zenon
<1>2. PICK m \in T : \A y \in T : m <= y
  BY <1>1, LeastNumber
<1>3. m \in Nat /\ ~\E g : Loop(d, m, g)
  BY <1>2
<1>4. m # 0
  <2>1. Loop(d, 0, [k \in 0 .. 0 |-> 1])
    BY DEF Loop
  <2>2. QED
    BY <1>3, <2>1
<1>5. m - 1 \in Nat /\ ~(m <= m - 1)
  BY <1>3, <1>4
<1>6. PICK g : Loop(d, m - 1, g)
  BY <1>2, <1>5
<1> DEFINE h == [k \in 0 .. m |-> IF k = m THEN g[m - 1] * d[m] ELSE g[k]]
<1>7. /\ DOMAIN g = 0 .. m - 1 /\ g[0] = 1
      /\ \A k \in 1 .. m - 1 : g[k] = g[k - 1] * d[k]
  BY <1>6 DEF Loop
<1>8. h[0] = 1
  BY <1>3, <1>4, <1>7
<1>9. ASSUME NEW k \in 1 .. m
      PROVE  h[k] = h[k - 1] * d[k]
  <2>1. CASE k = m
    <3>1. h[k] = g[m - 1] * d[m] /\ h[k - 1] = g[m - 1]
      BY <1>3, <2>1
    <3>2. QED
      BY <2>1, <3>1, Zenon
  <2>2. CASE k # m
    <3>1. h[k] = g[k] /\ h[k - 1] = g[k - 1] /\ k \in 1 .. m - 1
      BY <1>3, <2>2
    <3>2. QED
      BY <1>7, <3>1, Zenon
  <2>3. QED
    BY <2>1, <2>2
<1>10. Loop(d, m, h)
  BY <1>8, <1>9, Zenon DEF Loop
<1>11. QED
  BY <1>3, <1>10, Zenon

LEMMA ElementsLoop ==
  ASSUME NEW d, Len(d) \in Nat
  PROVE  \E g : Loop(d, Len(d), g) /\ Elements(d) = g[Len(d)]
<1> DEFINE n == Len(d)
           Step(f) == [k \in 0 .. n |-> IF k = 0 THEN 1 ELSE f[k - 1] * d[k]]
           f == CHOOSE f : f = Step(f)
<1>1. PICK g : Loop(d, n, g)
  BY Loops
<1>2. \E g1 : g1 = Step(g1)
  <2> SUFFICES \E g1 : Loop(d, n, g1) /\ g1 = [k \in 0 .. n |-> g1[k]]
    <3> SUFFICES ASSUME NEW h, Loop(d, n, h), h = [k \in 0 .. n |-> h[k]]
                 PROVE  h = Step(h)
      OBVIOUS
    <3>1. ASSUME NEW k \in 0 .. n
          PROVE  h[k] = IF k = 0 THEN 1 ELSE h[k - 1] * d[k]
      <4>1. h[0] = 1 /\ \A l \in 1 .. n : h[l] = h[l - 1] * d[l]
        BY Zenon DEF Loop
      <4>2. k # 0 => k \in 1 .. n
        OBVIOUS
      <4>3. QED
        BY <4>1, <4>2, Zenon
    <3>2. [k \in 0 .. n |-> h[k]] = Step(h)
      BY <3>1, Zenon
    <3>3. QED
      BY <3>2
  <2> WITNESS [k \in 0 .. n |-> g[k]]
  <2>1. QED
    BY <1>1 DEF Loop
<1>3. f = Step(f)
  BY <1>2, Zenon
<1>4. Elements(d) = f[n]
  BY Zenon DEF Elements
<1> HIDE DEF f
<1>5. Loop(d, n, f)
  BY <1>3 DEF Loop
<1>6. QED
  BY <1>4, <1>5

\* What the loop comes to is an integer.
LEMMA LoopTypes ==
  ASSUME NEW n \in Nat, NEW d \in [1 .. n -> Int], NEW g, Loop(d, n, g)
  PROVE  \A k \in 0 .. n : g[k] \in Int
<1> DEFINE T == {k \in 0 .. n : g[k] \notin Int}
<1>1. SUFFICES ASSUME T # {}
               PROVE  FALSE
  OBVIOUS
<1>2. T \in SUBSET Nat
  OBVIOUS
<1>3. PICK k \in T : \A y \in T : k <= y
  BY <1>1, <1>2, LeastNumber
<1>4. k \in 0 .. n /\ g[k] \notin Int
  BY <1>3
<1>5. g[0] = 1 /\ \A l \in 1 .. n : g[l] = g[l - 1] * d[l]
  BY DEF Loop
<1>6. k # 0
  BY <1>4, <1>5
<1>7. k \in 1 .. n /\ k - 1 \in 0 .. n /\ ~(k <= k - 1)
  BY <1>4, <1>6
<1>8. g[k - 1] \in Int /\ d[k] \in Int
  BY <1>3, <1>7
<1>9. QED
  BY <1>4, <1>5, <1>7, <1>8

\* Two lists that agree up to the n-th dimension have the same products up to it.
LEMMA SameLoops ==
  ASSUME NEW n \in Nat, NEW m \in 0 .. n, NEW c, NEW d, NEW g, NEW h,
         Loop(c, n, g), Loop(d, n, h), \A k \in 1 .. m : c[k] = d[k]
  PROVE  g[m] = h[m]
<1> DEFINE T == {k \in 0 .. m : g[k] # h[k]}
<1>1. SUFFICES ASSUME T # {}
               PROVE  FALSE
  OBVIOUS
<1>2. T \in SUBSET Nat
  OBVIOUS
<1>3. PICK k \in T : \A y \in T : k <= y
  BY <1>1, <1>2, LeastNumber
<1>4. k \in 0 .. m /\ g[k] # h[k]
  BY <1>3
<1>5. /\ g[0] = 1 /\ \A l \in 1 .. n : g[l] = g[l - 1] * c[l]
      /\ h[0] = 1 /\ \A l \in 1 .. n : h[l] = h[l - 1] * d[l]
  BY DEF Loop
<1>6. k # 0
  BY <1>4, <1>5
<1>7. k \in 1 .. m /\ k \in 1 .. n /\ k - 1 \in 0 .. m /\ ~(k <= k - 1)
  BY <1>4, <1>6
<1>8. g[k - 1] = h[k - 1] /\ c[k] = d[k]
  BY <1>3, <1>7
<1>9. QED
  BY <1>4, <1>5, <1>7, <1>8, Zenon

\* From the n-th dimension on, one product is a multiple of the other when the
\* dimensions after it agree.
LEMMA ScaledLoops ==
  ASSUME NEW n \in Nat, NEW m \in 0 .. n, NEW c \in [1 .. n -> Int], NEW d \in [1 .. n -> Int],
         NEW g, NEW h, NEW v \in Int,
         Loop(c, n, g), Loop(d, n, h), \A k \in m + 1 .. n : c[k] = d[k], g[m] = h[m] * v
  PROVE  g[n] = h[n] * v
<1> DEFINE T == {k \in m .. n : g[k] # h[k] * v}
<1>1. SUFFICES ASSUME T # {}
               PROVE  FALSE
  OBVIOUS
<1>2. T \in SUBSET Nat
  OBVIOUS
<1>3. PICK k \in T : \A y \in T : k <= y
  BY <1>1, <1>2, LeastNumber
<1>4. k \in m .. n /\ g[k] # h[k] * v
  BY <1>3
<1>5. /\ \A l \in 1 .. n : g[l] = g[l - 1] * c[l]
      /\ \A l \in 1 .. n : h[l] = h[l - 1] * d[l]
  BY DEF Loop
<1>6. k # m
  BY <1>4
<1>7. k \in m + 1 .. n /\ k \in 1 .. n /\ k - 1 \in m .. n /\ k - 1 \in 0 .. n /\ ~(k <= k - 1)
  BY <1>4, <1>6
<1>8. g[k - 1] = h[k - 1] * v /\ c[k] = d[k]
  BY <1>3, <1>7
<1>9. PICK x \in Int, y \in Int : x = h[k - 1] /\ y = d[k]
  BY <1>7, LoopTypes
<1>10. g[k] = (x * v) * y /\ h[k] = x * y
  BY <1>5, <1>7, <1>8, <1>9, Zenon
<1>11. (x * v) * y = (x * y) * v
  OBVIOUS
<1>12. QED
  BY <1>4, <1>10, <1>11, Zenon

\* A dimension is a factor.
LEMMA Factor ==
  ASSUME NEW n \in Nat, NEW c \in [1 .. n -> Int], NEW d \in [1 .. n -> Int],
         NEW j \in 1 .. n, NEW v \in Int, c[j] = v, d[j] = 1,
         \A k \in 1 .. n : k # j => c[k] = d[k]
  PROVE  /\ Elements(c) \in Int /\ Elements(d) \in Int
         /\ Elements(c) = Elements(d) * v
<1>1. Len(c) = n /\ Len(d) = n
  BY Listed
<1>2. PICK g : Loop(c, n, g) /\ Elements(c) = g[n]
  BY <1>1, ElementsLoop
<1>3. PICK h : Loop(d, n, h) /\ Elements(d) = h[n]
  BY <1>1, ElementsLoop
<1>4. g[n] \in Int /\ h[n] \in Int /\ h[j - 1] \in Int
  <2>1. n \in 0 .. n /\ j - 1 \in 0 .. n
    OBVIOUS
  <2>2. QED
    BY <1>2, <1>3, <2>1, LoopTypes
<1>5. g[j - 1] = h[j - 1]
  <2>1. j - 1 \in 0 .. n /\ \A k \in 1 .. j - 1 : c[k] = d[k]
    OBVIOUS
  <2>2. QED
    BY <1>2, <1>3, <2>1, SameLoops
<1>6. g[j] = h[j] * v
  <2>1. g[j] = g[j - 1] * v /\ h[j] = h[j - 1] * 1
    BY <1>2, <1>3, Zenon DEF Loop
  <2>2. PICK x \in Int : x = h[j - 1]
    BY <1>4
  <2>3. x * 1 = x
    OBVIOUS
  <2>4. QED
    BY <1>5, <2>1, <2>2, <2>3, Zenon
<1>7. j \in 0 .. n /\ \A k \in j + 1 .. n : c[k] = d[k]
  OBVIOUS
<1>8. g[n] = h[n] * v
  BY <1>2, <1>3, <1>6, <1>7, ScaledLoops
<1>9. QED
  BY <1>2, <1>3, <1>4, <1>8

\* The product of dimensions that are positive, and of dimensions that may be 0.
LEMMA PositiveElements ==
  ASSUME NEW n \in Nat, NEW d \in [1 .. n -> Nat]
  PROVE  /\ Elements(d) \in Nat
         /\ (\A k \in 1 .. n : d[k] > 0) => Elements(d) > 0
<1>1. Len(d) = n /\ d \in [1 .. n -> Int]
  BY Listed
<1>2. PICK g : Loop(d, n, g) /\ Elements(d) = g[n]
  BY <1>1, ElementsLoop
<1>3. g[0] = 1 /\ \A k \in 1 .. n : g[k] = g[k - 1] * d[k]
  BY <1>2 DEF Loop
<1>4. ASSUME NEW p \in Nat, \A k \in 1 .. n : d[k] >= p, p \in {0, 1}
      PROVE  \A k \in 0 .. n : g[k] \in Nat /\ g[k] >= p
  <2> DEFINE T == {k \in 0 .. n : ~(g[k] \in Nat /\ g[k] >= p)}
  <2>1. SUFFICES ASSUME T # {}
                 PROVE  FALSE
    OBVIOUS
  <2>2. T \in SUBSET Nat
    OBVIOUS
  <2>3. PICK k \in T : \A y \in T : k <= y
    BY <2>1, <2>2, LeastNumber
  <2>4. k \in 0 .. n /\ ~(g[k] \in Nat /\ g[k] >= p)
    BY <2>3
  <2>5. k # 0
    BY <1>3, <1>4, <2>4
  <2>6. k \in 1 .. n /\ k - 1 \in 0 .. n /\ ~(k <= k - 1)
    BY <2>4, <2>5
  <2>7. g[k - 1] \in Nat /\ g[k - 1] >= p /\ d[k] \in Nat /\ d[k] >= p
    BY <1>4, <2>3, <2>6
  <2>8. PICK x \in Nat, y \in Nat : x = g[k - 1] /\ y = d[k]
    BY <2>7
  <2>9. x * y \in Nat /\ x * y >= p
    BY <1>4, <2>7, <2>8, SMT
  <2>10. QED
    BY <1>3, <2>4, <2>6, <2>8, <2>9, Zenon
<1>5. g[n] \in Nat
  BY <1>4
<1>6. ASSUME \A k \in 1 .. n : d[k] > 0
      PROVE  g[n] > 0
  <2>1. \A k \in 1 .. n : d[k] >= 1
    BY <1>6
  <2>2. g[n] >= 1
    BY <1>4, <2>1
  <2>3. QED
    BY <1>5, <2>2
<1>7. QED
  BY <1>2, <1>5, <1>6

\* A product is not 0 only if no dimension is.
LEMMA NoZeros ==
  ASSUME NEW n \in Nat, NEW d \in [1 .. n -> Nat], Elements(d) > 0
  PROVE  \A k \in 1 .. n : d[k] > 0
<1> SUFFICES ASSUME NEW j \in 1 .. n, ~(d[j] > 0)
             PROVE  FALSE
  OBVIOUS
<1> DEFINE c == [d EXCEPT ![j] = 1]
<1>1. d[j] = 0 /\ d \in [1 .. n -> Int] /\ 0 \in Int
  OBVIOUS
<1>2. c \in [1 .. n -> Int] /\ c[j] = 1 /\ \A k \in 1 .. n : k # j => d[k] = c[k]
  OBVIOUS
<1> HIDE DEF c
<1>3. PICK v \in Int : v = 0
  OBVIOUS
<1>4. Elements(c) \in Int /\ Elements(d) = Elements(c) * v
  <2>1. d[j] = v
    BY <1>1, <1>3
  <2>2. PICK f \in [1 .. n -> Int] : f = d
    BY <1>1
  <2>3. PICK h \in [1 .. n -> Int] : h = c
    BY <1>2
  <2>4. Elements(h) \in Int /\ Elements(f) = Elements(h) * v
    BY <1>2, <2>1, <2>2, <2>3, Factor
  <2>5. QED
    BY <2>2, <2>3, <2>4
<1>5. QED
  BY <1>3, <1>4

\* The products of short lists.
LEMMA ShortElements ==
  ASSUME NEW n \in Nat, NEW d \in [1 .. n -> Int], n >= 2
  PROVE  \E g : /\ Elements(d) = g[n] /\ g[2] = d[1] * d[2]
                /\ n >= 3 => g[3] = g[2] * d[3]
                /\ n >= 4 => g[4] = g[3] * d[4]
                /\ n >= 5 => g[5] = g[4] * d[5]
<1>1. Len(d) = n
  BY Listed
<1>2. PICK g : Loop(d, n, g) /\ Elements(d) = g[n]
  BY <1>1, ElementsLoop
<1>3. g[0] = 1 /\ \A k \in 1 .. n : g[k] = g[k - 1] * d[k]
  BY <1>2 DEF Loop
<1>4. /\ g[1] = g[0] * d[1] /\ g[2] = g[1] * d[2]
      /\ n >= 3 => g[3] = g[2] * d[3]
      /\ n >= 4 => g[4] = g[3] * d[4]
      /\ n >= 5 => g[5] = g[4] * d[5]
  <2>1. \A k \in 1 .. 5 : n >= k => g[k] = g[k - 1] * d[k]
    BY <1>3
  <2>2. g[1] = g[1 - 1] * d[1] /\ g[2] = g[2 - 1] * d[2]
    BY <2>1
  <2>3. n >= 3 => g[3] = g[3 - 1] * d[3]
    BY <2>1
  <2>4. n >= 4 => g[4] = g[4 - 1] * d[4]
    BY <2>1
  <2>5. n >= 5 => g[5] = g[5 - 1] * d[5]
    BY <2>1
  <2>6. 1 - 1 = 0 /\ 2 - 1 = 1 /\ 3 - 1 = 2 /\ 4 - 1 = 3 /\ 5 - 1 = 4
    OBVIOUS
  <2>7. QED
    BY <2>2, <2>3, <2>4, <2>5, <2>6, Zenon
<1>5. g[1] = d[1]
  <2>1. PICK x \in Int : x = d[1]
    OBVIOUS
  <2>2. 1 * x = x
    OBVIOUS
  <2>3. QED
    BY <1>3, <1>4, <2>1, <2>2, Zenon
<1>6. QED
  BY <1>2, <1>4, <1>5, Zenon

\* Among fewer than two there is at most one.
LEMMA AtMostOne ==
  ASSUME NEW n \in Nat, NEW S \in SUBSET (1 .. n), ~(Cardinality(S) > 1)
  PROVE  S = {} \/ \E j \in 1 .. n : S = {j}
<1> SUFFICES ASSUME NEW a \in S, NEW b \in S, a # b
             PROVE  FALSE
  <2> SUFFICES ASSUME S # {} PROVE \E j \in 1 .. n : S = {j}
    OBVIOUS
  <2>1. PICK a \in S : TRUE
    OBVIOUS
  <2>2. S = {a}
    OBVIOUS
  <2>3. QED
    BY <2>2
<1>1. IsFiniteSet(1 .. n)
  BY FS_Interval
<1>2. IsFiniteSet(S) /\ Cardinality(S) \in Nat
  BY <1>1, FS_Subset, FS_CardinalityType
<1>3. IsFiniteSet({b}) /\ Cardinality({b}) = 1
  BY FS_Singleton
<1>4. Cardinality({b} \cup {a}) = 2
  <2>1. Cardinality({b} \cup {a}) = Cardinality({b}) + 1
    BY <1>3, FS_AddElement
  <2>2. QED
    BY <1>3, <2>1
<1>5. {b} \cup {a} \subseteq S
  OBVIOUS
<1>6. Cardinality({b} \cup {a}) <= Cardinality(S)
  BY <1>2, <1>5, FS_Subset
<1>7. QED
  BY <1>2, <1>4, <1>6

LEMMA Rests ==
  ASSUME NEW e \in Nat, NEW r \in Nat \ {0}, e % r = 0
  PROVE  e \div r \in Nat /\ r * (e \div r) = e /\ (e > 0 => e \div r > 0 /\ r <= e)
<1>1. e \div r \in Nat
  BY HalfAgain
<1>2. PICK q \in Nat : q = e \div r
  BY <1>1
<1>3. e = r * q + (e % r)
  BY <1>2, SMT
<1>4. e = r * q
  <2>1. r * q \in Nat
    BY SMT
  <2>2. QED
    BY <1>3, <2>1
<1>5. e > 0 => q > 0
  BY <1>4, SMT
<1>6. e > 0 => r <= e
  BY <1>4, <1>5, SMT
<1>7. QED
  BY <1>1, <1>2, <1>4, <1>5, <1>6

\* What nGraph reshapes to has the elements of the shape, and the dimensions of the
\* pattern that are given.
LEMMA ReshapedFits ==
  ASSUME NEW shape, NEW n \in Nat, NEW pattern \in [1 .. n -> Int], NEW special \in BOOLEAN,
         shape \in Seq(Nat), Elements(shape) \in Nat, Elements(shape) > 0,
         Reshaped(shape, pattern, special) # Refused
  PROVE  LET r == Reshaped(shape, pattern, special) IN
         /\ r \in [1 .. n -> Nat]
         /\ Elements(r) = Elements(shape)
         /\ \A k \in 1 .. n : r[k] > 0
         /\ \A k \in 1 .. n : pattern[k] > 0 => r[k] = pattern[k]
<1> DEFINE r      == Reshaped(shape, pattern, special)
           filled == [k \in DOMAIN pattern |->
                        IF special /\ pattern[k] = 0 /\ k <= Len(shape) THEN shape[k]
                        ELSE pattern[k]]
           open   == {k \in DOMAIN filled : filled[k] = -1}
           given  == [k \in DOMAIN filled |-> IF k \in open THEN 1 ELSE filled[k]]
           rest   == Elements(given)
           whole  == Elements(shape)
           answer == [k \in DOMAIN filled |->
                        IF k \in open THEN whole \div rest ELSE filled[k]]
<1>1. r = IF \/ \E k \in DOMAIN filled : filled[k] < -1
             \/ Cardinality(open) > 1
             \/ open = {} /\ rest # whole
             \/ open # {} /\ (rest = 0 \/ whole % rest # 0)
          THEN Refused ELSE answer
  BY Zenon DEF Reshaped
<1>2. /\ ~\E k \in DOMAIN filled : filled[k] < -1
      /\ ~(Cardinality(open) > 1)
      /\ open = {} => rest = whole
      /\ open # {} => rest # 0 /\ whole % rest = 0
      /\ r = answer
  BY <1>1, Zenon
<1>3. DOMAIN filled = 1 .. n
  OBVIOUS
<1>4. \A k \in 1 .. n :
         filled[k] \in Int /\ (pattern[k] > 0 => filled[k] = pattern[k])
  <2> SUFFICES ASSUME NEW k \in 1 .. n
               PROVE  filled[k] \in Int /\ (pattern[k] > 0 => filled[k] = pattern[k])
    OBVIOUS
  <2>1. k <= Len(shape) => shape[k] \in Nat
    OBVIOUS
  <2>2. pattern[k] \in Int /\ (pattern[k] > 0 => pattern[k] # 0)
    OBVIOUS
  <2>3. filled[k] = IF special /\ pattern[k] = 0 /\ k <= Len(shape) THEN shape[k]
                    ELSE pattern[k]
    OBVIOUS
  <2>4. QED
    BY <2>1, <2>2, <2>3
<1> HIDE DEF filled
<1>5. open \subseteq 1 .. n /\ \A k \in 1 .. n : k \in open <=> filled[k] = -1
  BY <1>3
<1>6. open = {} \/ \E j \in 1 .. n : open = {j}
  <2>1. open \in SUBSET (1 .. n)
    BY <1>5
  <2>2. QED
    BY <1>2, <2>1, AtMostOne
<1> HIDE DEF open
<1>7. \A k \in 1 .. n : k \notin open => filled[k] \in Nat
  <2>1. ASSUME NEW k \in 1 .. n, k \notin open
        PROVE  filled[k] \in Nat
    <3>1. filled[k] \in Int /\ ~(filled[k] < -1) /\ filled[k] # -1
      BY <1>2, <1>3, <1>4, <1>5, <2>1
    <3>2. QED
      BY <3>1
  <2>2. QED
    BY <2>1
<1>8. given \in [1 .. n -> Nat] /\ \A k \in 1 .. n : given[k] = IF k \in open THEN 1 ELSE filled[k]
  BY <1>3, <1>7
<1>9. rest \in Nat
  BY <1>8, PositiveElements
<1> HIDE DEF given
<1>10. r \in [1 .. n -> Nat] /\ Elements(r) = whole
  <2>1. CASE open = {}
    <3>1. r = given
      <4>1. \A k \in 1 .. n : answer[k] = given[k]
        BY <1>3, <1>8, <2>1
      <4>2. DOMAIN answer = 1 .. n /\ DOMAIN given = 1 .. n
        BY <1>3, <1>8
      <4>3. answer = given
        BY <1>8, <4>1, <4>2
      <4>4. QED
        BY <1>2, <4>3, Zenon
    <3>2. QED
      BY <1>2, <1>8, <2>1, <3>1
  <2>2. ASSUME NEW j \in 1 .. n, open = {j}
        PROVE  r \in [1 .. n -> Nat] /\ Elements(r) = whole
    <3>1. rest # 0 /\ whole % rest = 0 /\ rest \in Nat \ {0}
      BY <1>2, <1>9, <2>2
    <3>2. whole \div rest \in Nat /\ rest * (whole \div rest) = whole
      BY <3>1, Rests
    <3>3. PICK v \in Nat : v = whole \div rest
      BY <3>2
    <3>4. answer = [k \in 1 .. n |-> IF k = j THEN v ELSE filled[k]]
      BY <1>3, <2>2, <3>3
    <3>5. /\ answer \in [1 .. n -> Nat] /\ answer[j] = v
          /\ \A k \in 1 .. n : k # j => answer[k] = filled[k]
      BY <1>7, <2>2, <3>4
    <3>6. given[j] = 1 /\ \A k \in 1 .. n : k # j => given[k] = filled[k]
      BY <1>8, <2>2
    <3>7. answer \in [1 .. n -> Int] /\ given \in [1 .. n -> Int] /\ v \in Int
      BY <1>8, <3>5
    <3> HIDE DEF answer
    <3>8. \A k \in 1 .. n : k # j => answer[k] = given[k]
      BY <3>5, <3>6
    <3>9. Elements(answer) = rest * v
      BY <3>5, <3>6, <3>7, <3>8, Factor
    <3>10. QED
      BY <1>2, <3>2, <3>3, <3>5, <3>9
  <2>3. QED
    BY <1>6, <2>1, <2>2
<1>11. \A k \in 1 .. n : r[k] > 0
  BY <1>10, NoZeros
<1>12. \A k \in 1 .. n : pattern[k] > 0 => r[k] = pattern[k]
  <2>1. ASSUME NEW k \in 1 .. n, pattern[k] > 0
        PROVE  r[k] = pattern[k]
    <3>1. filled[k] = pattern[k] /\ k \notin open
      BY <1>4, <1>5, <2>1
    <3>2. answer[k] = filled[k]
      BY <1>3, <3>1
    <3>3. QED
      BY <1>2, <3>1, <3>2, Zenon
  <2>2. QED
    BY <2>1
<1> HIDE DEF r
<1>13. QED
  BY <1>10, <1>11, <1>12 DEF r

\* It does not refuse what has the elements of the shape.
LEMMA ReshapedTaken ==
  ASSUME NEW shape, NEW n \in Nat, NEW pattern \in [1 .. n -> Int], NEW special \in BOOLEAN,
         \A k \in 1 .. n : pattern[k] > 0, Elements(pattern) = Elements(shape)
  PROVE  Reshaped(shape, pattern, special) = pattern /\ pattern # Refused
<1> DEFINE filled == [k \in DOMAIN pattern |->
                        IF special /\ pattern[k] = 0 /\ k <= Len(shape) THEN shape[k]
                        ELSE pattern[k]]
           open   == {k \in DOMAIN filled : filled[k] = -1}
           given  == [k \in DOMAIN filled |-> IF k \in open THEN 1 ELSE filled[k]]
           rest   == Elements(given)
           whole  == Elements(shape)
<1>1. Reshaped(shape, pattern, special) =
        IF \/ \E k \in DOMAIN filled : filled[k] < -1
           \/ Cardinality(open) > 1
           \/ open = {} /\ rest # whole
           \/ open # {} /\ (rest = 0 \/ whole % rest # 0)
        THEN Refused
        ELSE [k \in DOMAIN filled |-> IF k \in open THEN whole \div rest ELSE filled[k]]
  BY Zenon DEF Reshaped
<1>2. filled = pattern
  OBVIOUS
<1>3. open = {} /\ ~\E k \in DOMAIN filled : filled[k] < -1
  BY <1>2
<1>4. given = pattern
  BY <1>2, <1>3
<1>5. ~(Cardinality(open) > 1)
  BY <1>3, FS_EmptySet
<1>6. [k \in DOMAIN filled |-> IF k \in open THEN whole \div rest ELSE filled[k]] = pattern
  BY <1>2, <1>3
<1>7. rest = whole
  BY <1>4, Zenon
<1> HIDE DEF filled, open, rest, whole
<1>8. Reshaped(shape, pattern, special) = pattern
  BY <1>1, <1>3, <1>5, <1>6, <1>7, Zenon
<1>9. pattern # Refused
  BY DEF Refused
<1>10. QED
  BY <1>8, <1>9

\* Numbers that fit into an int stay what they are.
LEMMA IntsFit ==
  /\ Lowest \in Int /\ Lowest < 0 /\ 2^(Width - 1) = -Lowest
  /\ \A m \in Int : Int32(m) \in Int
  /\ \A m \in Nat : m < -Lowest => Int32(m) = m /\ Unsigned(m) = m
<1>1. Width - 1 \in 0 .. 31 /\ (Width - 1) + 1 = Width
  BY NumericAssumption
<1>2. PICK h \in Nat \ {0} : h = 2^(Width - 1)
  BY <1>1, Doubles
<1>3. PICK p \in Nat \ {0} : p = 2^Width /\ p = 2 * h
  <2>1. 2^((Width - 1) + 1) = 2 * 2^(Width - 1)
    BY <1>1, Doubles
  <2>2. 2^Width = 2 * h
    BY <1>1, <1>2, <2>1, Zenon
  <2>3. 2 * h \in Nat \ {0}
    OBVIOUS
  <2>4. QED
    BY <2>2, <2>3
<1>4. Lowest = -h
  BY <1>2, Zenon DEF Lowest
<1>5. \A m : Int32(m) = ((m - (-h)) % p) + (-h) /\ Unsigned(m) = m % p
  BY <1>3, <1>4, Zenon DEF Int32, Unsigned
<1>6. ASSUME NEW m \in Int
      PROVE  Int32(m) \in Int
  <2>1. m - (-h) \in Int
    OBVIOUS
  <2>2. (m - (-h)) % p \in Int
    BY <2>1, SMT
  <2>3. QED
    BY <1>5, <2>2
<1>7. ASSUME NEW x \in Nat, x < p
      PROVE  x % p = x
  <2>1. x \div p = 0
    BY <1>7, HalfAgain
  <2>2. x = p * (x \div p) + (x % p)
    BY SMT
  <2>3. x % p \in Int
    BY SMT
  <2>4. QED
    BY <2>1, <2>2, <2>3, SMT
<1>8. ASSUME NEW m \in Nat, m < h
      PROVE  Int32(m) = m /\ Unsigned(m) = m
  <2>1. m < p /\ m + h < p /\ m + h \in Nat /\ m - (-h) = m + h
    BY <1>3, <1>8
  <2>2. m % p = m /\ (m - (-h)) % p = m + h
    BY <1>7, <2>1
  <2>3. QED
    BY <1>5, <2>1, <2>2
<1>9. QED
  BY <1>2, <1>4, <1>6, <1>8

LEMMA QuotientTypes ==
  ASSUME NEW a \in Int, NEW b \in Int, b # 0
  PROVE  /\ Quotient(a, b) \in Int
         /\ a \in Nat /\ b > 0 => Quotient(a, b) = a \div b
<1> DEFINE x == IF a < 0 THEN -a ELSE a
           y == IF b < 0 THEN -b ELSE b
<1>1. x \in Nat /\ y \in Nat \ {0}
  OBVIOUS
<1>2. Quotient(a, b) = IF (a < 0) = (b < 0) THEN x \div y ELSE -(x \div y)
  BY DEF Quotient
<1>3. a \in Nat /\ b > 0 => x = a /\ y = b /\ (a < 0) = (b < 0)
  OBVIOUS
<1> HIDE DEF x, y
<1>4. x \div y \in Nat
  BY <1>1, HalfAgain
<1>5. QED
  BY <1>2, <1>3, <1>4

\* A shape is the answer to a call, and is not refused if its elements fit into an int.
Answers(c, shape) ==
    /\ shape # Refused => IsAnswer(c, shape)
    /\ Elements(c.in) < 2^(Width - 1) => shape # Refused

LEMMA PositiveShapes ==
  ASSUME NEW d \in Seq(Nat), Positive(d)
  PROVE  /\ d \in [1 .. Len(d) -> Nat] /\ Len(d) \in Nat
         /\ Elements(d) \in Nat /\ Elements(d) > 0
<1>1. d \in [1 .. Len(d) -> Nat] /\ Len(d) \in Nat /\ DOMAIN d = 1 .. Len(d)
  OBVIOUS
<1>2. \A k \in 1 .. Len(d) : d[k] > 0
  BY <1>1, Zenon DEF Positive
<1>3. QED
  BY <1>1, <1>2, PositiveElements

LEMMA ReshapeFits ==
  ASSUME NEW c, c.op = "reshape", c.in \in Seq(Nat), Positive(c.in),
         NEW n \in Nat, DOMAIN c.out = 1 .. n, NEW pattern \in [1 .. n -> Int],
         \A k \in 1 .. n : c.out[k] > 0 => pattern[k] > 0 /\ pattern[k] = c.out[k],
         Reshaped(c.in, pattern, TRUE) # Refused
  PROVE  IsAnswer(c, Reshaped(c.in, pattern, TRUE))
<1>1. Elements(c.in) \in Nat /\ Elements(c.in) > 0
  BY PositiveShapes
<1>2. PICK r : r = Reshaped(c.in, pattern, TRUE)
  OBVIOUS
<1>3. /\ r \in [1 .. n -> Nat] /\ Elements(r) = Elements(c.in)
      /\ \A k \in 1 .. n : r[k] > 0
      /\ \A k \in 1 .. n : pattern[k] > 0 => r[k] = pattern[k]
  <2>1. TRUE \in BOOLEAN
    OBVIOUS
  <2>2. QED
    BY <1>1, <1>2, <2>1, ReshapedFits
<1>4. DOMAIN r = 1 .. n
  BY <1>3
<1>5. Positive(r)
  BY <1>3, <1>4, Zenon DEF Positive
<1>6. \A k \in 1 .. n : c.out[k] > 0 => r[k] = c.out[k]
  BY <1>3
<1>7. c.op # "fullyConnected" /\ c.op # "groups"
  OBVIOUS
<1>8. IsAnswer(c, r)
  BY <1>3, <1>4, <1>5, <1>6, <1>7, Zenon DEF IsAnswer
<1>9. QED
  BY <1>2, <1>8, Zenon

LEMMA ReshapeAnswers ==
  ASSUME NEW c \in Asked, c.op = "reshape", Valid(c)
  PROVE  LET in  == Int32(Elements(c.in))
             out == OutputElements(c.out)
             negative == {k \in DOMAIN c.out : c.out[k] < 0}
             last == CHOOSE k \in negative : \A j \in negative : j <= k
         IN  /\ negative = {} => Answers(c, Reshaped(c.in, c.out, TRUE))
             /\ negative # {} /\ Elements(c.in) < 2^(Width - 1) => ~Traps(in, out)
             /\ negative # {} /\ ~Traps(in, out) =>
                   Answers(c, Reshaped(c.in, [c.out EXCEPT ![last] = Quotient(in, out)], TRUE))
<1> DEFINE n == Len(c.out)
           open     == {k \in DOMAIN c.out : c.out[k] = -1}
           given    == [k \in DOMAIN c.out |-> IF k \in open THEN 1 ELSE c.out[k]]
           whole    == Elements(c.in)
           known    == Elements(given)
           in       == Int32(whole)
           out      == OutputElements(c.out)
           negative == {k \in DOMAIN c.out : c.out[k] < 0}
           last     == CHOOSE k \in negative : \A j \in negative : j <= k
           pattern  == [c.out EXCEPT ![last] = Quotient(in, out)]
<1>1. c.in \in Seq(Nat) /\ c.out \in Seq(Int)
  BY NumericAssumption
<1>2. n \in Nat /\ DOMAIN c.out = 1 .. n /\ c.out \in [1 .. n -> Int]
  BY <1>1
<1> HIDE DEF n
<1>3. /\ Positive(c.in)
      /\ \A k \in DOMAIN c.out \ open : c.out[k] > 0
      /\ \/ open = {} /\ known = whole
         \/ Cardinality(open) = 1 /\ whole % known = 0
  BY Zenon DEF Valid
<1>4. whole \in Nat /\ whole > 0
  BY <1>1, <1>3, PositiveShapes
<1>5. negative = open
  BY <1>2, <1>3
<1>6. given \in [1 .. n -> Nat] /\ \A k \in 1 .. n : given[k] > 0
  BY <1>2, <1>3
<1>7. known \in Nat /\ known > 0
  BY <1>2, <1>6, PositiveElements
<1>8. out = Int32(known)
  <2>1. [k \in DOMAIN c.out |-> IF c.out[k] < 0 THEN 1 ELSE c.out[k]] = given
    BY <1>2, <1>3, SMTT(30)
  <2>2. QED
    BY <2>1, Zenon DEF OutputElements
<1>9. ASSUME negative = {}
      PROVE  Answers(c, Reshaped(c.in, c.out, TRUE))
  <2>1. given = c.out
    BY <1>2, <1>5, <1>9
  <2>2. whole = known
    <3>1. ~(Cardinality(open) = 1)
      BY <1>5, <1>9, FS_EmptySet
    <3>2. QED
      BY <1>3, <3>1, Zenon
  <2>3. (\A k \in 1 .. n : c.out[k] > 0) /\ Elements(c.out) = Elements(c.in)
    BY <1>6, <2>1, <2>2
  <2>4. Reshaped(c.in, c.out, TRUE) = c.out /\ c.out # Refused
    BY <1>2, <2>3, ReshapedTaken
  <2>5. IsAnswer(c, Reshaped(c.in, c.out, TRUE))
    <3>1. \A k \in 1 .. n : c.out[k] > 0 => c.out[k] > 0 /\ c.out[k] = c.out[k]
      OBVIOUS
    <3>2. Reshaped(c.in, c.out, TRUE) # Refused
      BY <2>4
    <3>3. QED
      BY <1>1, <1>2, <1>3, <3>1, <3>2, ReshapeFits
  <2>6. QED
    BY <2>4, <2>5, Zenon DEF Answers
<1>10. ASSUME negative # {}
       PROVE  /\ whole < 2^(Width - 1) => ~Traps(in, out)
              /\ ~Traps(in, out) => Answers(c, Reshaped(c.in, pattern, TRUE))
  <2>1. whole % known = 0
    BY <1>3, <1>5, <1>10
  <2>2. PICK j \in 1 .. n : negative = {j}
    <3>1. ~(Cardinality(open) > 1)
      BY <1>3, <1>5, <1>10
    <3>2. open \in SUBSET (1 .. n)
      BY <1>2
    <3>3. QED
      BY <1>2, <1>5, <1>10, <3>1, <3>2, AtMostOne
  <2>3. last = j
    <3>1. \A k \in negative : (\A l \in negative : l <= k) <=> k = j
      BY <2>2
    <3>2. QED
      BY <2>2, <3>1
  <2>4. \A k \in 1 .. n : k # j => c.out[k] > 0
    BY <1>2, <1>3, <1>5, <2>2
  <2>5. c.out[j] < 0
    BY <1>2, <2>2
  <2>6. given[j] = 1 /\ \A k \in 1 .. n : k # j => given[k] = c.out[k]
    BY <1>2, <1>5, <2>2
  <2> HIDE DEF negative, open, given
  <2>7. PICK w \in Nat, p \in Nat : w = whole /\ p = known /\ w > 0 /\ p > 0 /\ w % p = 0
    BY <1>4, <1>7, <2>1
  <2>8. w \div p \in Nat /\ p * (w \div p) = w /\ w \div p > 0 /\ p <= w
    BY <2>7, Rests
  <2>9. PICK a \in Int, b \in Int : a = in /\ b = out
    BY <1>8, <2>7, IntsFit
  <2>10. ASSUME whole < 2^(Width - 1)
         PROVE  a = w /\ b = p
    <3>1. w < -Lowest /\ p < -Lowest
      BY <2>7, <2>8, <2>10, IntsFit
    <3>2. Int32(w) = w /\ Int32(p) = p
      BY <3>1, IntsFit
    <3>3. QED
      BY <1>8, <2>7, <2>9, <3>2, Zenon
  <2>11. ASSUME whole < 2^(Width - 1)
         PROVE  ~Traps(in, out)
    <3>1. b # 0 /\ ~(a = Lowest /\ b = -1)
      BY <2>7, <2>10, <2>11
    <3>2. QED
      BY <2>9, <3>1, Zenon DEF Traps
  <2>12. ASSUME ~Traps(in, out)
         PROVE  Answers(c, Reshaped(c.in, pattern, TRUE))
    <3>1. b # 0
      BY <2>9, <2>12, Zenon DEF Traps
    <3>2. PICK q \in Int : q = Quotient(in, out) /\ (a \in Nat /\ b > 0 => q = a \div b)
      BY <2>9, <3>1, QuotientTypes
    <3>3. pattern = [c.out EXCEPT ![j] = q]
      BY <2>3, <3>2, Zenon
    <3>4. /\ pattern \in [1 .. n -> Int] /\ pattern[j] = q
          /\ \A k \in 1 .. n : k # j => pattern[k] = c.out[k]
      BY <1>2, <3>3
    <3> HIDE DEF pattern
    <3>5. ASSUME Reshaped(c.in, pattern, TRUE) # Refused
          PROVE  IsAnswer(c, Reshaped(c.in, pattern, TRUE))
      <4>1. \A k \in 1 .. n : c.out[k] > 0 => pattern[k] > 0 /\ pattern[k] = c.out[k]
        <5>1. ASSUME NEW k \in 1 .. n, c.out[k] > 0
              PROVE  pattern[k] > 0 /\ pattern[k] = c.out[k]
          <6>1. k # j
            BY <1>2, <2>5, <5>1
          <6>2. QED
            BY <3>4, <5>1, <6>1
        <5>2. QED
          BY <5>1
      <4>2. QED
        BY <1>1, <1>2, <1>3, <3>4, <3>5, <4>1, ReshapeFits
    <3>6. ASSUME whole < 2^(Width - 1)
          PROVE  Reshaped(c.in, pattern, TRUE) # Refused
      <4>1. q = w \div p
        BY <2>7, <2>10, <3>2, <3>6
      <4>2. \A k \in 1 .. n : pattern[k] > 0
        BY <2>4, <2>8, <3>4, <4>1
      <4>3. Elements(pattern) = Elements(c.in)
        <5>1. given \in [1 .. n -> Int] /\ \A k \in 1 .. n : k # j => pattern[k] = given[k]
          BY <1>6, <2>6, <3>4
        <5>2. PICK f \in [1 .. n -> Int], h \in [1 .. n -> Int] : f = pattern /\ h = given
          BY <3>4, <5>1
        <5>3. Elements(f) = Elements(h) * q
          <6>1. f[j] = q /\ h[j] = 1 /\ \A k \in 1 .. n : k # j => f[k] = h[k]
            BY <2>6, <3>4, <5>1, <5>2, Zenon
          <6>2. /\ n \in Nat /\ f \in [1 .. n -> Int] /\ h \in [1 .. n -> Int]
                /\ j \in 1 .. n /\ q \in Int
            BY <1>2
          <6>3. QED
            BY <6>1, <6>2, Factor, Zenon
        <5>4. Elements(f) = p * q
          BY <2>7, <5>2, <5>3, Zenon
        <5>5. p * q = w
          BY <2>8, <4>1
        <5>6. QED
          BY <2>7, <5>2, <5>4, <5>5, Zenon
      <4>4. PICK f \in [1 .. n -> Int] : f = pattern
        BY <3>4
      <4>5. (\A k \in 1 .. n : f[k] > 0) /\ Elements(f) = Elements(c.in)
        BY <4>2, <4>3, <4>4, Zenon
      <4>6. Reshaped(c.in, f, TRUE) = f /\ f # Refused
        <5>1. n \in Nat /\ f \in [1 .. n -> Int] /\ TRUE \in BOOLEAN
          BY <1>2
        <5>2. QED
          BY <4>5, <5>1, ReshapedTaken, Zenon
      <4>7. QED
        BY <4>4, <4>6, Zenon
    <3>7. QED
      BY <3>5, <3>6, Zenon DEF Answers
  <2>13. QED
    BY <2>11, <2>12
<1>11. QED
  BY <1>9, <1>10, Zenon

LEMMA FullyConnectedAnswers ==
  ASSUME NEW c \in Asked, c.op = "fullyConnected", Valid(c)
  PROVE  LET size  == c.weights[2]
             shape == <<Int32(NumberOfElements(c.in) \div size), size>>
         IN  /\ ~(c.in[1] = 0 \/ Len(c.in) < 2) /\ size # 0
             /\ Len(c.in) = 2 /\ c.in[2] = size => Answers(c, c.in)
             /\ Answers(c, Reshaped(c.in, shape, FALSE))
<1> DEFINE size  == c.weights[2]
           whole == Elements(c.in)
           rows  == Int32(NumberOfElements(c.in) \div size)
           shape == <<rows, size>>
<1>1. c.in \in Seq(Nat) /\ c.weights \in Seq(Nat) /\ Len(c.weights) >= 2
  BY NumericAssumption
<1>2. size \in Nat
  BY <1>1
<1>3. Len(c.in) >= 2 /\ Positive(c.in) /\ size > 0 /\ whole % size = 0
  <2>1. c.op # "reshape"
    OBVIOUS
  <2>2. QED
    BY <2>1, Zenon DEF Valid
<1>4. whole \in Nat /\ whole > 0 /\ c.in \in [1 .. Len(c.in) -> Nat] /\ Len(c.in) \in Nat
  BY <1>1, <1>3, PositiveShapes
<1>5. c.in[1] > 0
  <2>1. 1 \in DOMAIN c.in
    BY <1>3, <1>4
  <2>2. QED
    BY <1>3, <2>1, Zenon DEF Positive
<1>6. c.op # "reshape" /\ c.op # "groups"
  OBVIOUS
<1>7. ASSUME Len(c.in) = 2, c.in[2] = size
      PROVE  Answers(c, c.in)
  <2>1. IsAnswer(c, c.in)
    BY <1>3, <1>6, <1>7, Zenon DEF IsAnswer
  <2>2. c.in # Refused
    BY <1>7 DEF Refused
  <2>3. QED
    BY <2>1, <2>2, Zenon DEF Answers
<1>8. PICK w \in Nat, s \in Nat : w = whole /\ s = size /\ w > 0 /\ s > 0 /\ w % s = 0
  BY <1>2, <1>3, <1>4
<1>9. w \div s \in Nat /\ s * (w \div s) = w /\ w \div s > 0
  <2>1. s \in Nat \ {0} /\ w % s = 0 /\ w > 0
    BY <1>8
  <2>2. QED
    BY <2>1, Rests
<1>10. PICK r \in Int : r = rows
  <2>1. Unsigned(w) \in Nat
    <3>1. PICK p \in Nat \ {0} : p = 2^Width
      <4>1. Width - 1 \in 0 .. 31 /\ (Width - 1) + 1 = Width
        BY NumericAssumption
      <4>2. 2^(Width - 1) \in Nat \ {0} /\ 2^((Width - 1) + 1) = 2 * 2^(Width - 1)
        BY <4>1, Doubles
      <4>3. PICK h \in Nat \ {0} : h = 2^(Width - 1)
        BY <4>2
      <4>4. 2 * h \in Nat \ {0}
        OBVIOUS
      <4>5. 2^Width = 2 * h
        BY <4>1, <4>2, <4>3, Zenon
      <4>6. QED
        BY <4>4, <4>5
    <3>2. w % p \in Nat
      BY SMT
    <3>3. QED
      BY <3>1, <3>2, Zenon DEF Unsigned
  <2>2. PICK u \in Nat : u = Unsigned(w)
    BY <2>1
  <2>3. s \in Nat \ {0}
    BY <1>8
  <2>4. u \div s \in Int
    BY <2>3, HalfAgain
  <2>5. Int32(u \div s) \in Int
    BY <2>4, IntsFit
  <2>6. rows = Int32(u \div s)
    BY <1>8, <2>2, Zenon DEF NumberOfElements
  <2>7. QED
    BY <2>5, <2>6
<1>11. ASSUME whole < 2^(Width - 1)
       PROVE  r = w \div s
  <2>1. w < -Lowest /\ w \div s <= w
    <3>1. s <= w /\ w < -Lowest
      BY <1>8, <1>11, Rests, IntsFit
    <3>2. PICK q \in Nat : q = w \div s
      BY <1>9
    <3>3. q <= w
      <4>1. s * q = w
        BY <1>9, <3>2
      <4>2. QED
        BY <1>8, <4>1, SMT
    <3>4. QED
      BY <3>1, <3>2, <3>3
  <2>2. w \div s < -Lowest
    BY <1>9, <2>1, IntsFit
  <2>3. Unsigned(w) = w /\ Int32(w \div s) = w \div s
    BY <1>9, <2>1, <2>2, IntsFit
  <2>4. QED
    BY <1>8, <1>10, <2>3, Zenon DEF NumberOfElements
<1>12. PICK f \in [1 .. 2 -> Int] : f = shape /\ f[1] = r /\ f[2] = s
  <2>1. shape = <<r, s>>
    BY <1>8, <1>10, Zenon
  <2>2. s \in Int /\ <<r, s>> \in [1 .. 2 -> Int] /\ <<r, s>>[1] = r /\ <<r, s>>[2] = s
    OBVIOUS
  <2>3. QED
    BY <2>1, <2>2, Zenon
<1> HIDE DEF shape, rows, whole, size
<1>13. ASSUME Reshaped(c.in, f, FALSE) # Refused
       PROVE  IsAnswer(c, Reshaped(c.in, f, FALSE))
  <2>1. PICK g : g = Reshaped(c.in, f, FALSE)
    OBVIOUS
  <2>2. Elements(c.in) \in Nat /\ Elements(c.in) > 0 /\ FALSE \in BOOLEAN /\ 2 \in Nat
    BY <1>4 DEF whole
  <2>3. /\ g \in [1 .. 2 -> Nat] /\ Elements(g) = Elements(c.in)
        /\ \A k \in 1 .. 2 : g[k] > 0
        /\ \A k \in 1 .. 2 : f[k] > 0 => g[k] = f[k]
    BY <1>1, <1>13, <2>1, <2>2, ReshapedFits
  <2>4. DOMAIN g = 1 .. 2 /\ Len(g) = 2 /\ g[2] = s
    BY <1>8, <1>12, <2>3, Listed
  <2>5. Positive(g)
    BY <2>3, <2>4, Zenon DEF Positive
  <2>6. g[2] = c.weights[2]
    BY <1>8, <2>4 DEF size
  <2>7. IsAnswer(c, g)
    BY <1>6, <2>3, <2>4, <2>5, <2>6, Zenon DEF IsAnswer
  <2>8. QED
    BY <2>1, <2>7, Zenon
<1>14. ASSUME whole < 2^(Width - 1)
       PROVE  Reshaped(c.in, f, FALSE) # Refused
  <2>1. r = w \div s
    BY <1>11, <1>14
  <2>2. \A k \in 1 .. 2 : f[k] > 0
    BY <1>8, <1>9, <1>12, <2>1
  <2>3. Elements(f) = r * s
    <3>1. 2 \in Nat /\ 2 >= 2
      OBVIOUS
    <3>2. Elements(f) = f[1] * f[2]
      BY <3>1, ShortElements
    <3>3. QED
      BY <1>12, <3>2
  <2>4. r * s = w
    <3>1. PICK q \in Nat : q = w \div s
      BY <1>9
    <3>2. s * q = w /\ q * s = s * q
      BY <1>9, <3>1, SMT
    <3>3. QED
      BY <2>1, <3>1, <3>2
  <2>5. Elements(f) = Elements(c.in)
    BY <1>8, <2>3, <2>4 DEF whole
  <2>6. FALSE \in BOOLEAN /\ 2 \in Nat
    OBVIOUS
  <2>7. QED
    BY <2>2, <2>5, <2>6, ReshapedTaken
<1>15. Answers(c, Reshaped(c.in, shape, FALSE))
  BY <1>12, <1>13, <1>14, Zenon DEF Answers, whole
<1>16. ~(c.in[1] = 0 \/ Len(c.in) < 2) /\ size # 0
  BY <1>3, <1>4, <1>5, <1>8
<1>17. QED
  BY <1>7, <1>15, <1>16, Zenon DEF size, shape, rows

LEMMA FourElements ==
  ASSUME NEW d \in [1 .. 4 -> Int]
  PROVE  Elements(d) = ((d[1] * d[2]) * d[3]) * d[4]
<1>1. PICK n \in Nat : n = 4
  OBVIOUS
<1>2. n >= 4 /\ n >= 3 /\ n >= 2 /\ d \in [1 .. n -> Int]
  BY <1>1
<1>3. \E g : /\ Elements(d) = g[n] /\ g[2] = d[1] * d[2]
             /\ n >= 3 => g[3] = g[2] * d[3]
             /\ n >= 4 => g[4] = g[3] * d[4]
  BY <1>2, ShortElements
<1>4. QED
  BY <1>1, <1>2, <1>3, Zenon

LEMMA FiveElements ==
  ASSUME NEW d \in [1 .. 5 -> Int]
  PROVE  Elements(d) = (((d[1] * d[2]) * d[3]) * d[4]) * d[5]
<1>1. PICK n \in Nat : n = 5
  OBVIOUS
<1>2. n >= 5 /\ n >= 4 /\ n >= 3 /\ n >= 2 /\ d \in [1 .. n -> Int]
  BY <1>1
<1>3. \E g : /\ Elements(d) = g[n] /\ g[2] = d[1] * d[2]
             /\ n >= 3 => g[3] = g[2] * d[3]
             /\ n >= 4 => g[4] = g[3] * d[4]
             /\ n >= 5 => g[5] = g[4] * d[5]
  BY <1>2, ShortElements
<1>4. QED
  BY <1>1, <1>2, <1>3, Zenon

LEMMA FiveLong ==
  ASSUME NEW u \in Seq(Nat), Len(u) = 5
  PROVE  u = <<u[1], u[2], u[3], u[4], u[5]>>
OBVIOUS

LEMMA Joined ==
  ASSUME NEW g \in Nat, NEW p \in Nat, NEW x \in Nat, NEW y \in Nat, NEW z \in Nat
  PROVE  <<g, p>> \o <<x, y, z>> = <<g, p, x, y, z>>
<1>1. <<g, p>> \in Seq(Nat) /\ <<x, y, z>> \in Seq(Nat)
  OBVIOUS
<1>2. PICK s \in Seq(Nat) : s = <<g, p>>
  BY <1>1, Zenon
<1>3. PICK t \in Seq(Nat) : t = <<x, y, z>>
  BY <1>1, Zenon
<1>4. Len(s) = 2 /\ s[1] = g /\ s[2] = p
  BY <1>2
<1>5. Len(t) = 3 /\ t[1] = x /\ t[2] = y /\ t[3] = z
  BY <1>3
<1>6. /\ s \o t \in Seq(Nat)
      /\ Len(s \o t) = Len(s) + Len(t)
      /\ \A k \in 1 .. Len(s) + Len(t) : (s \o t)[k] =
                     IF k <= Len(s) THEN s[k] ELSE t[k - Len(s)]
  BY ConcatProperties
<1>7. PICK u \in Seq(Nat) : u = s \o t
  BY <1>6, Zenon
<1>8. Len(u) = 5 /\ \A k \in 1 .. 5 : u[k] = IF k <= 2 THEN s[k] ELSE t[k - 2]
  <2>1. Len(s) + Len(t) = 5
    BY <1>4, <1>5
  <2>2. \A k \in 1 .. 5 : u[k] = IF k <= Len(s) THEN s[k] ELSE t[k - Len(s)]
    BY <1>6, <1>7, <2>1, Zenon
  <2>3. \A k \in 1 .. 5 : u[k] = IF k <= 2 THEN s[k] ELSE t[k - 2]
    BY <1>4, <2>2, Zenon
  <2>4. Len(u) = 5
    BY <1>6, <1>7, <2>1, Zenon
  <2>5. QED
    BY <2>3, <2>4
<1>9. u[1] = g /\ u[2] = p /\ u[3] = x /\ u[4] = y /\ u[5] = z
  <2>1. u[1] = s[1] /\ u[2] = s[2] /\ u[3] = t[1] /\ u[4] = t[2] /\ u[5] = t[3]
    BY <1>8
  <2>2. QED
    BY <1>4, <1>5, <2>1
<1>10. u = <<g, p, x, y, z>>
  BY <1>8, <1>9, FiveLong, Zenon
<1>11. QED
  BY <1>2, <1>3, <1>7, <1>10, Zenon
LEMMA GroupsAnswers ==
  ASSUME NEW c \in Asked, c.op = "groups", Valid(c)
  PROVE  LET shape == <<c.groups, c.in[1] \div c.groups>> \o Tail(c.in)
         IN  c.groups > 0 /\ Answers(c, Reshaped(c.in, shape, TRUE))
<1>1. c.in \in Seq(Nat) /\ Len(c.in) = 4 /\ c.groups \in Int
  BY NumericAssumption
<1>2. Positive(c.in) /\ c.groups > 0 /\ c.in[1] % c.groups = 0
  <2>1. c.op # "reshape" /\ c.op # "fullyConnected"
    OBVIOUS
  <2>2. QED
    BY <2>1, Zenon DEF Valid
<1>3. PICK v \in Nat, x \in Nat, y \in Nat, z \in Nat :
         /\ c.in = <<v, x, y, z>> /\ v > 0 /\ x > 0 /\ y > 0 /\ z > 0
  <2>1. /\ c.in[1] \in Nat /\ c.in[2] \in Nat /\ c.in[3] \in Nat /\ c.in[4] \in Nat
        /\ c.in = <<c.in[1], c.in[2], c.in[3], c.in[4]>>
    BY <1>1
  <2>2. 1 \in DOMAIN c.in /\ 2 \in DOMAIN c.in /\ 3 \in DOMAIN c.in /\ 4 \in DOMAIN c.in
    BY <1>1
  <2>3. c.in[1] > 0 /\ c.in[2] > 0 /\ c.in[3] > 0 /\ c.in[4] > 0
    BY <1>2, <2>2, Zenon DEF Positive
  <2>4. QED
    BY <2>1, <2>3
<1>4. PICK g \in Nat : g = c.groups /\ g > 0 /\ v % g = 0
  BY <1>1, <1>2, <1>3
<1>5. PICK p \in Nat : p = v \div g /\ g * p = v /\ p > 0
  <2>1. g \in Nat \ {0}
    BY <1>4
  <2>2. QED
    BY <1>3, <1>4, <2>1, Rests
<1>6. PICK f \in [1 .. 5 -> Nat] :
         /\ f = <<c.groups, c.in[1] \div c.groups>> \o Tail(c.in)
         /\ f = <<g, p, x, y, z>>
         /\ f[1] = g /\ f[2] = p /\ f[3] = x /\ f[4] = y /\ f[5] = z
  <2>1. c.in[1] \div c.groups = p
    BY <1>3, <1>4, <1>5
  <2>2. Tail(c.in) = <<x, y, z>>
    BY <1>3
  <2>3. <<g, p>> \o <<x, y, z>> = <<g, p, x, y, z>>
    BY Joined
  <2>4. <<g, p>> \o <<x, y, z>> = <<c.groups, c.in[1] \div c.groups>> \o Tail(c.in)
    BY <1>4, <2>1, <2>2, Zenon
  <2>5. <<g, p, x, y, z>> \in [1 .. 5 -> Nat]
    OBVIOUS
  <2>6. PICK h \in [1 .. 5 -> Nat] : h = <<g, p, x, y, z>>
    BY <2>5, Zenon
  <2>7. h[1] = g /\ h[2] = p /\ h[3] = x /\ h[4] = y /\ h[5] = z
    BY <2>6
  <2>8. h = <<c.groups, c.in[1] \div c.groups>> \o Tail(c.in)
    BY <2>3, <2>4, <2>6, Zenon
  <2>9. QED
    BY <2>6, <2>7, <2>8, Zenon
<1>7. /\ f[1] = g /\ f[2] = p /\ f[3] = x /\ f[4] = y /\ f[5] = z
      /\ \A k \in 1 .. 5 : f[k] > 0
  <2>1. f[1] = g /\ f[2] = p /\ f[3] = x /\ f[4] = y /\ f[5] = z
    BY <1>6
  <2>2. ASSUME NEW k \in 1 .. 5
        PROVE  f[k] > 0
    <3>1. k = 1 \/ k = 2 \/ k = 3 \/ k = 4 \/ k = 5
      OBVIOUS
    <3>2. QED
      BY <1>3, <1>4, <1>5, <2>1, <3>1
  <2>3. QED
    BY <2>1, <2>2
<1>8. Elements(f) = (((g * p) * x) * y) * z
  <2>1. f \in [1 .. 5 -> Int]
    OBVIOUS
  <2>2. Elements(f) = (((f[1] * f[2]) * f[3]) * f[4]) * f[5]
    BY <2>1, FiveElements
  <2>3. QED
    BY <1>7, <2>2, Zenon
<1>9. Elements(c.in) = ((v * x) * y) * z
  <2>1. PICK e \in [1 .. 4 -> Int] : e = c.in
    BY <1>3
  <2>2. Elements(e) = ((e[1] * e[2]) * e[3]) * e[4]
    BY FourElements
  <2>3. e[1] = v /\ e[2] = x /\ e[3] = y /\ e[4] = z
    BY <1>3, <2>1
  <2>4. QED
    BY <2>1, <2>2, <2>3, Zenon
<1>10. Elements(f) = Elements(c.in)
  BY <1>5, <1>8, <1>9, Zenon
<1>11. Reshaped(c.in, f, TRUE) = f /\ f # Refused
  <2>1. 5 \in Nat /\ f \in [1 .. 5 -> Int] /\ TRUE \in BOOLEAN
    OBVIOUS
  <2>2. \A k \in 1 .. 5 : f[k] > 0
    BY <1>7
  <2>3. QED
    BY <1>10, <2>1, <2>2, ReshapedTaken, Zenon
<1>12. IsAnswer(c, f)
  <2>1. DOMAIN f = 1 .. 5 /\ Len(f) = 5 /\ Tail(Tail(f)) = Tail(c.in)
    <3>1. DOMAIN f = 1 .. 5 /\ Len(f) = 5 /\ f \in Seq(Nat)
      <4>1. PICK n \in Nat : n = 5
        OBVIOUS
      <4>2. f \in [1 .. n -> Nat]
        BY <4>1
      <4>3. DOMAIN f = 1 .. n /\ Len(f) = n /\ f \in Seq(Nat)
        BY <4>2, Listed
      <4>4. QED
        BY <4>1, <4>3
    <3>2. f = <<g, p, x, y, z>>
      BY <1>6
    <3>3. Tail(Tail(<<g, p, x, y, z>>)) = <<x, y, z>> /\ Tail(<<v, x, y, z>>) = <<x, y, z>>
      OBVIOUS
    <3>4. QED
      BY <1>3, <3>1, <3>2, <3>3, Zenon
  <2>2. Positive(f)
    BY <1>7, <2>1, Zenon DEF Positive
  <2>3. f[1] = c.groups
    BY <1>4, <1>7
  <2>4. c.op # "reshape" /\ c.op # "fullyConnected"
    OBVIOUS
  <2>5. QED
    BY <1>10, <2>1, <2>2, <2>3, <2>4, Zenon DEF IsAnswer
<1>13. Answers(c, Reshaped(c.in, f, TRUE))
  BY <1>11, <1>12, Zenon DEF Answers
<1>14. QED
  BY <1>2, <1>6, <1>13, Zenon

\* What is known of a call in progress.
ShapesDone ==
    /\ call \in Asked
    /\ pc = "begin" => result = Nothing
    /\ pc = "loop" => call.op = "mask"
    /\ pc \in {"begin", "loop", "done"}
    /\ ShapesAsAsked

LEMMA DoneAnswers ==
  ASSUME ShapesDone, NEW r, Valid(call) => Answers(call, r), service = "up", Done(r)
  PROVE  ShapesDone'
<1>1. call' = call /\ service' = service /\ pc' = "done" /\ result' = r
  BY DEF Done
<1>2. ShapesAsAsked'
  BY <1>1, Zenon DEF ShapesAsAsked, Answers
<1>3. pc' # "begin" /\ pc' # "loop" /\ pc' \in {"begin", "loop", "done"} /\ call' \in Asked
  BY <1>1 DEF ShapesDone
<1>4. QED
  BY <1>2, <1>3 DEF ShapesDone

LEMMA DownAnswers ==
  ASSUME ShapesDone, Down, Valid(call) => ~(Elements(call.in) < 2^(Width - 1)), pc = "begin"
  PROVE  ShapesDone'
<1>1. call' = call /\ pc' = pc /\ result' = result
  BY DEF Down
<1>2. pc # "done"
  OBVIOUS
<1>3. ShapesAsAsked'
  BY <1>1, <1>2, Zenon DEF ShapesAsAsked
<1>4. QED
  BY <1>1, <1>3 DEF ShapesDone

LEMMA ShapesDoneKept ==
  ASSUME ShapesDone, [Next]_vars
  PROVE  ShapesDone'
<1>1. call \in Asked
  BY DEF ShapesDone
<1>2. CASE Reshape
  <2> DEFINE in  == Int32(Elements(call.in))
             out == OutputElements(call.out)
             negative == {k \in DOMAIN call.out : call.out[k] < 0}
             last == CHOOSE k \in negative : \A j \in negative : j <= k
             stretched == [call.out EXCEPT ![last] = Quotient(in, out)]
  <2>1. /\ service = "up" /\ pc = "begin" /\ call.op = "reshape"
        /\ \/ negative = {} /\ Done(Reshaped(call.in, call.out, TRUE))
           \/ negative # {} /\ Traps(in, out) /\ Down
           \/ negative # {} /\ ~Traps(in, out) /\ Done(Reshaped(call.in, stretched, TRUE))
    BY <1>2, Zenon DEF Reshape, Begins
  <2>2. Valid(call) =>
          /\ negative = {} => Answers(call, Reshaped(call.in, call.out, TRUE))
          /\ negative # {} /\ Elements(call.in) < 2^(Width - 1) => ~Traps(in, out)
          /\ negative # {} /\ ~Traps(in, out) => Answers(call, Reshaped(call.in, stretched, TRUE))
    BY <1>1, <2>1, ReshapeAnswers, Zenon
  <2> HIDE DEF in, out, negative, stretched
  <2>3. QED
    BY <2>1, <2>2, DoneAnswers, DownAnswers, Zenon
<1>3. CASE FullyConnected
  <2> DEFINE size  == call.weights[2]
             shape == <<Int32(NumberOfElements(call.in) \div size), size>>
             empty == call.in[1] = 0 \/ Len(call.in) < 2
             same  == Len(call.in) = 2 /\ call.in[2] = size
  <2>1. /\ service = "up" /\ pc = "begin" /\ call.op = "fullyConnected"
        /\ \/ empty /\ Done(Refused)
           \/ same /\ Done(call.in)
           \/ size = 0 /\ Down
           \/ Done(Reshaped(call.in, shape, FALSE))
    BY <1>3, Zenon DEF FullyConnected, Begins
  <2>2. Valid(call) =>
          /\ ~empty /\ size # 0
          /\ same => Answers(call, call.in)
          /\ Answers(call, Reshaped(call.in, shape, FALSE))
    BY <1>1, <2>1, FullyConnectedAnswers, Zenon
  <2> HIDE DEF size, shape, empty, same
  <2>3. QED
    BY <2>1, <2>2, DoneAnswers, DownAnswers, Zenon
<1>4. CASE Groups
  <2> DEFINE shape == <<call.groups, call.in[1] \div call.groups>> \o Tail(call.in)
  <2>1. service = "up" /\ pc = "begin" /\ call.op = "groups"
    BY <1>4, Zenon DEF Groups, Begins
  <2>2. Valid(call) => call.groups > 0 /\ Answers(call, Reshaped(call.in, shape, TRUE))
    BY <1>1, <2>1, GroupsAnswers, Zenon
  <2>3. CASE call.groups = 0
    <3>1. Down
      BY <1>4, <2>3, Zenon DEF Groups
    <3>2. ~Valid(call)
      BY <2>2, <2>3
    <3>3. QED
      BY <2>1, <3>1, <3>2, DownAnswers, Zenon
  <2>4. CASE call.groups # 0
    <3>1. PICK q : Done(Reshaped(call.in, <<call.groups, q>> \o Tail(call.in), TRUE))
                   /\ q = IF call.groups < 0 THEN 0 ELSE call.in[1] \div call.groups
      BY <1>4, <2>4, Zenon DEF Groups
    <3>2. Valid(call) => Answers(call, Reshaped(call.in, <<call.groups, q>> \o Tail(call.in), TRUE))
      <4>1. ASSUME Valid(call)
            PROVE  q = call.in[1] \div call.groups
        <5>1. call.groups \in Int /\ call.groups > 0
          BY <1>1, <2>1, <2>2, <4>1, NumericAssumption
        <5>2. ~(call.groups < 0)
          BY <5>1
        <5>3. QED
          BY <3>1, <5>2, Zenon
      <4>2. QED
        BY <2>2, <4>1, Zenon
    <3>3. QED
      BY <2>1, <3>1, <3>2, DoneAnswers, Zenon
  <2>5. QED
    BY <2>3, <2>4
<1>5. ASSUME ~Valid(call), call' = call, pc' \in {"begin", "loop", "done"},
             pc' = "begin" => result' = Nothing, pc' = "loop" => call.op = "mask"
      PROVE  ShapesDone'
  <2>1. ShapesAsAsked'
    BY <1>5, Zenon DEF ShapesAsAsked
  <2>2. QED
    BY <1>1, <1>5, <2>1 DEF ShapesDone
<1>6. ASSUME call.op \notin {"reshape", "fullyConnected", "groups"}
      PROVE  ~Valid(call)
  <2>1. call.op # "reshape" /\ call.op # "fullyConnected" /\ call.op # "groups"
    BY <1>6
  <2>2. QED
    BY <2>1, Zenon DEF Valid
<1>7. CASE Padding \/ MaskBegins \/ MaskBit \/ MaskEnds \/ ToHalf \/ ToFloat
  <2>1. call.op \in {"padding", "mask", "f32tof16", "f16tof32"} /\ call' = call
    BY <1>7 DEF Padding, MaskBegins, MaskBit, MaskEnds, ToHalf, ToFloat, Begins, Done, Down,
       ShapesDone
  <2>2. /\ pc' \in {"begin", "loop", "done"}
        /\ pc' = "begin" => result' = Nothing
        /\ pc' = "loop" => call.op = "mask"
    BY <1>7 DEF Padding, MaskBegins, MaskBit, MaskEnds, ToHalf, ToFloat, Begins, Done, Down,
       ShapesDone
  <2>3. QED
    BY <1>5, <1>6, <2>1, <2>2
<1>8. CASE UNCHANGED vars
  <2>1. ShapesAsAsked' <=> ShapesAsAsked
    BY <1>8 DEF vars, ShapesAsAsked
  <2>2. QED
    BY <1>8, <2>1 DEF vars, ShapesDone
<1>9. QED
  BY <1>2, <1>3, <1>4, <1>7, <1>8 DEF Next

\* A valid request gets the shape it asks for, if its elements can be counted in an
\* int, and never computes on another, for all dimensions, however counts wrap
\* around: ShapesAsAsked (Reshape.cpp:33-54, FullyConnected.cpp:42-46,
\* GroupedConv2d.cpp:195-203, utils.cpp:296).
THEOREM ShapesFit == Spec => []ShapesAsAsked
<1>1. Init => ShapesDone
  <2> SUFFICES ASSUME Init
               PROVE  ShapesDone
    OBVIOUS
  <2>1. call \in Asked /\ pc = "begin" /\ result = Nothing /\ service = "up"
    BY DEF Init
  <2>2. Nothing # Refused
    BY DEF Nothing, Refused
  <2>3. ShapesAsAsked
    BY <2>1, <2>2 DEF ShapesAsAsked
  <2>4. QED
    BY <2>1, <2>3 DEF ShapesDone
<1>2. ShapesDone /\ [Next]_vars => ShapesDone'
  BY ShapesDoneKept
<1>3. ShapesDone => ShapesAsAsked
  BY DEF ShapesDone
<1>4. QED
  BY <1>1, <1>2, <1>3, PTL DEF Spec

==============================================================================
