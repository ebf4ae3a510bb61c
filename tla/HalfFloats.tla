----------------------------- MODULE HalfFloats ------------------------------
(***************************************************************************)
(* The conversions between 32-bit and 16-bit floats of utils.cpp, on bit   *)
(* patterns.  A float is its sign and the rest of its bits as a number, of *)
(* which the lowest MantissaBits are the mantissa and the others the       *)
(* exponent: of two positive floats the larger has the larger bits.        *)
(***************************************************************************)
EXTENDS Integers

Cut      == 2^13           \* the bits a half does not have: 23 - 10
HalfStep == 2^12           \* half the distance between two halves, in bits
Float(exponent, mantissa) == exponent * 2^23 + mantissa
Half(exponent, mantissa)  == exponent * 2^10 + mantissa

InfFloat == Float(255, 0)
InfHalf  == Half(31, 0)
MaxHalf  == Half(30, 2^10 - 1)

\* The bits of the float that has the value of a normal half, by its new bias.
AsFloat(half) == half * Cut + Float(127 - 15, 0)

-----------------------------------------------------------------------------
(* f32tof16, f16tof32 and float2half.  Each takes and gives a record       *)
(* [sign, bits].                                                           *)

\* Not the code: the half below, however near the next one is.
NotRounded(bits) == bits

\* x + halfULP as a float: where the sum has a larger exponent than x, its last
\* bit is rounded to even.  A subnormal x has a halfULP of 0.
Rounded(bits) ==
    LET exponent == bits \div 2^23
        sum      == bits + HalfStep
        over     == sum - Float(exponent + 1, 0)  \* what exceeds the next power of two
        half     == over \div 2
    IN  IF exponent = 0 THEN bits
        ELSE IF over < 0 THEN sum
        ELSE Float(exponent + 1, half + (IF over % 2 = 1 /\ half % 2 = 1 THEN 1 ELSE 0))

\* The half for the rounded bits of a finite float.
Narrowed(v) ==
    CASE v < Float(127 - 15, 0)           -> 0
      [] v \in Float(127 - 15, 0) .. Float(127 - 14, 0) - 1 -> Half(1, 0)
      [] v >= AsFloat(MaxHalf)            -> MaxHalf
      [] OTHER                            -> (v - Float(127 - 15, 0)) \div Cut

\* NaN and infinity are shifted without a new exponent: bit 17 of the result is
\* lost in the conversion to short, and bit 16 becomes its sign.
Shifted(bits) ==
    LET shifted == bits \div Cut
        raised  == IF bits > InfFloat /\ (shifted \div 2^9) % 2 = 0
                   THEN shifted + 2^9 ELSE shifted
    IN  raised % 2^15

f32tof16(x) ==
    IF x.bits >= InfFloat THEN [sign |-> 1, bits |-> Shifted(x.bits)]
    ELSE [sign |-> x.sign, bits |-> Narrowed(Rounded(x.bits))]

\* Not the code: the exponent keeps the bias of a half.
f16tof32Unbiased(h) == [sign |-> h.sign, bits |-> h.bits * Cut]

f16tof32(h) ==
    LET mantissa == h.bits % 2^10
        quiet    == IF mantissa # 0 /\ mantissa < 2^9 THEN mantissa + 2^9 ELSE mantissa
    IN  [ sign |-> h.sign,
          bits |-> CASE h.bits >= InfHalf   -> Float(255, quiet * Cut)
                     [] h.bits < Half(1, 0) -> 0
                     [] OTHER               -> AsFloat(h.bits) ]

\* The half for the bits of a float, by the exponent.
Halved(bits) ==
    LET exponent    == bits \div 2^23
        mantissa    == bits % 2^23
        payload     == mantissa \div Cut
        significand == (2^23 + mantissa) \div 2^(113 - exponent)
    IN  CASE bits > InfFloat -> InfHalf + (IF payload = 0 THEN 1 ELSE payload)
          [] exponent \in 143 .. 255 /\ bits <= InfFloat -> InfHalf
          [] exponent < 102 -> 0
          [] exponent \in 102 .. 112 -> (significand + HalfStep) \div Cut
          [] exponent \in 113 .. 142 ->
                 Half(exponent - 112, 0) + (mantissa + HalfStep) \div Cut

float2half(x) == [sign |-> x.sign, bits |-> Halved(x.bits)]
==============================================================================
