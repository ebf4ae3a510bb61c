---------------------------- MODULE NumericHelpers ---------------------------
(***************************************************************************)
(* The arithmetic by which createNode() of some operations turns numbers   *)
(* of the client into shapes and masks, one call at a time: a client may   *)
(* ask for anything, int is Width bits wide, a division by zero ends the   *)
(* service (no try block catches SIGFPE), and nGraph refuses a reshape     *)
(* that does not keep the elements.  The conversions between floats and    *)
(* halves (HalfFloats), which no operation uses yet, are called alike.     *)
(***************************************************************************)
EXTENDS HalfFloats, ExplicitPadding, FiniteSets, Sequences

CONSTANTS
    Width,  \* the width of an int, 32 in the code
    Asked   \* the calls

\* A call is a record of an op and its arguments.  Sizes and filters are dimensions;
\* a negative stride is left out, as nGraph takes it for a huge one.
ASSUME NumericAssumption ==
    /\ Width \in 2 .. 32
    /\ \A c \in Asked :
          /\ c.op \in {"reshape", "fullyConnected", "groups", "mask", "padding",
                       "f32tof16", "f16tof32"}
          /\ c.op = "reshape" => c.in \in Seq(Nat) /\ c.out \in Seq(Int)
          /\ c.op = "fullyConnected" =>
                /\ c.in \in Seq(Nat) /\ c.in # <<>>
                /\ c.weights \in Seq(Nat) /\ Len(c.weights) >= 2
          /\ c.op = "groups" => c.in \in Seq(Nat) /\ Len(c.in) = 4 /\ c.groups \in Int
          /\ c.op = "padding" =>
                c.in \in Nat /\ c.stride \in Nat /\ c.filter \in Nat \ {0}
          /\ c.op = "mask" => c.rank \in 0 .. Width /\ c.mask \in Int
          /\ c.op = "f32tof16" => c.x \in [sign : {0, 1}, bits : 0 .. Float(255, 2^23 - 1)]
          /\ c.op = "f16tof32" => c.x \in [sign : {0, 1}, bits : 0 .. Half(31, 2^10 - 1)]

VARIABLES
    call,    \* the call in progress
    pc,      \* "begin" | "loop" | "done"
    result,  \* what it has computed; Refused: nGraph or validate() refuses
    mask,    \* the loop of getMaskBits: what is left of maskValue,
    i,       \* and the next bit
    service  \* "up" until SIGFPE or a fault

vars == <<call, pc, result, mask, i, service>>

Refused == <<-1>>  \* no shape has a negative dimension
Nothing == <<>>

-----------------------------------------------------------------------------
(* Integers.                                                               *)

Lowest == -(2^(Width - 1))

Unsigned(n) == n % 2^Width
Int32(n)    == ((n - Lowest) % 2^Width) + Lowest

\* A quotient of ints is cut towards zero.
Quotient(a, b) ==
    LET Size(n) == IF n < 0 THEN -n ELSE n
        q       == Size(a) \div Size(b)
    IN  IF (a < 0) = (b < 0) THEN q ELSE -q

Traps(a, b) == b = 0 \/ (a = Lowest /\ b = -1)

\* The loop that multiplies the dimensions.
Elements(dims) ==
    LET upTo[n \in 0 .. Len(dims)] == IF n = 0 THEN 1 ELSE upTo[n - 1] * dims[n]
    IN  upTo[Len(dims)]

\* getNumberOfElements
NumberOfElements(dims) == Unsigned(Elements(dims))

\* nGraph's Reshape of a shape to a pattern; special: a 0 copies a dimension.
Reshaped(shape, pattern, special) ==
    LET filled == [k \in DOMAIN pattern |->
                     IF special /\ pattern[k] = 0 /\ k <= Len(shape) THEN shape[k]
                     ELSE pattern[k]]
        open   == {k \in DOMAIN filled : filled[k] = -1}
        rest   == Elements([k \in DOMAIN filled |-> IF k \in open THEN 1 ELSE filled[k]])
    IN  IF \/ \E k \in DOMAIN filled : filled[k] < -1
           \/ Cardinality(open) > 1
           \/ open = {} /\ rest # Elements(shape)
           \/ open # {} /\ (rest = 0 \/ Elements(shape) % rest # 0)
        THEN Refused
        ELSE [k \in DOMAIN filled |-> IF k \in open THEN Elements(shape) \div rest ELSE filled[k]]

-----------------------------------------------------------------------------
(* The calls.                                                              *)

Begins(op) == service = "up" /\ pc = "begin" /\ call.op = op

Done(r) == pc' = "done" /\ result' = r /\ UNCHANGED <<call, mask, i, service>>

Down == service' = "down" /\ UNCHANGED <<call, pc, result, mask, i>>

\* Not the code: the dimension to be found is multiplied with the others.
AllElements(dims) == Int32(Elements(dims))

\* numOutputElements: the negative dimensions are left out.
OutputElements(dims) ==
    Int32(Elements([k \in DOMAIN dims |-> IF dims[k] < 0 THEN 1 ELSE dims[k]]))

\* Reshape::createNode().  The last negative dimension is the one that stretches;
\* element counts that differ are logged and go to nGraph all the same.
Reshape ==
    /\ Begins("reshape")
    /\ LET in  == Int32(Elements(call.in))
           out == OutputElements(call.out)
           negative == {k \in DOMAIN call.out : call.out[k] < 0}
           last == CHOOSE k \in negative : \A j \in negative : j <= k
       IN  IF negative = {} THEN Done(Reshaped(call.in, call.out, TRUE))
           ELSE IF Traps(in, out) THEN Down
           ELSE Done(Reshaped(call.in, [call.out EXCEPT ![last] = Quotient(in, out)], TRUE))

\* FullyConnected::createNode(): the input becomes a matrix for the weights, unless
\* it is one.  The MatMul needs what validate() does not ask for, equal inner sizes.
FullyConnected ==
    /\ Begins("fullyConnected")
    /\ LET size == call.weights[2] IN
       IF call.in[1] = 0 \/ Len(call.in) < 2 THEN Done(Refused)
       ELSE IF Len(call.in) = 2 /\ call.in[2] = size THEN Done(call.in)
       ELSE IF size = 0 THEN Down
       ELSE Done(Reshaped(call.in, <<Int32(NumberOfElements(call.in) \div size), size>>, FALSE))

\* DepthwiseConv2d and GroupedConv2d: a filter of shape OIHW gets an axis of groups.
Groups ==
    /\ Begins("groups")
    /\ IF call.groups = 0 THEN Down
       ELSE LET perGroup == IF call.groups < 0 THEN 0 ELSE call.in[1] \div call.groups
            IN  Done(Reshaped(call.in, <<call.groups, perGroup>> \o Tail(call.in), TRUE))

\* calculateExplicitPadding() of an operation with implicit SAME padding.
Padding ==
    /\ Begins("padding")
    /\ IF call.stride = 0 THEN Down
       ELSE Done(calculateExplicitPadding(call.in, call.stride, call.filter))

\* StridedSlice::getMaskBits(): a vector of zeros, and a loop over the mask.
MaskBegins ==
    /\ Begins("mask")
    /\ pc' = "loop" /\ mask' = call.mask /\ i' = 1
    /\ result' = [k \in 1 .. call.rank |-> 0]
    /\ UNCHANGED <<call, service>>

\* Not the code: a bit is the sign of what is left of the mask.
BitBySign == IF mask > 0 THEN 1 ELSE 0

Bit == IF Quotient(mask, 2) * 2 = mask THEN 0 ELSE 1

\* A bit beyond the rank is written behind the vector, which may end the service.
MaskBit ==
    /\ service = "up" /\ pc = "loop" /\ mask # 0
    /\ mask' = Quotient(mask, 2) /\ i' = i + 1
    /\ IF i \in DOMAIN result
       THEN result' = [result EXCEPT ![i] = Bit] /\ UNCHANGED service
       ELSE service' \in {"up", "down"} /\ UNCHANGED result
    /\ UNCHANGED <<call, pc>>

MaskEnds ==
    /\ service = "up" /\ pc = "loop" /\ mask = 0
    /\ Done(result)

\* f32tof16, with float2half beside it, and f16tof32.
ToHalf ==
    /\ Begins("f32tof16")
    /\ Done(<<f32tof16(call.x), float2half(call.x)>>)

ToFloat ==
    /\ Begins("f16tof32")
    /\ Done(f16tof32(call.x))

Init ==
    /\ call \in Asked
    /\ pc = "begin" /\ result = Nothing /\ mask = 0 /\ i = 0
    /\ service = "up"

Next ==
    \/ Reshape \/ FullyConnected \/ Groups \/ Padding
    \/ MaskBegins \/ MaskBit \/ MaskEnds
    \/ ToHalf \/ ToFloat

Spec == Init /\ [][Next]_vars
-----------------------------------------------------------------------------
(* Properties.                                                             *)

Positive(dims) == \A k \in DOMAIN dims : dims[k] > 0

\* What NNAPI allows a client to ask for.
Valid(c) ==
    CASE c.op = "reshape" ->
           LET open  == {k \in DOMAIN c.out : c.out[k] = -1}
               known == Elements([k \in DOMAIN c.out |-> IF k \in open THEN 1 ELSE c.out[k]])
           IN  /\ Positive(c.in)
               /\ \A k \in DOMAIN c.out \ open : c.out[k] > 0
               /\ \/ open = {} /\ known = Elements(c.in)
                  \/ Cardinality(open) = 1 /\ Elements(c.in) % known = 0
      [] c.op = "fullyConnected" ->
           Len(c.in) >= 2 /\ Positive(c.in) /\ c.weights[2] > 0 /\ Elements(c.in) % c.weights[2] = 0
      [] c.op = "groups" -> Positive(c.in) /\ c.groups > 0 /\ c.in[1] % c.groups = 0
      [] OTHER -> FALSE

\* What it asks for then: the same elements, in the dimensions that were given.
IsAnswer(c, shape) ==
    /\ Positive(shape) /\ Elements(shape) = Elements(c.in)
    /\ CASE c.op = "reshape" ->
              /\ DOMAIN shape = DOMAIN c.out
              /\ \A k \in DOMAIN shape : c.out[k] > 0 => shape[k] = c.out[k]
         [] c.op = "fullyConnected" -> Len(shape) = 2 /\ shape[2] = c.weights[2]
         [] c.op = "groups" -> Len(shape) = 5 /\ shape[1] = c.groups /\ Tail(Tail(shape)) = Tail(c.in)

\* A valid request gets the shape it asks for, if its elements can be counted in
\* an int; beyond, counts wrap around and the service may refuse or trap, but it
\* never computes on a tensor of another shape (Reshape.cpp:33-54,
\* FullyConnected.cpp:42-46, GroupedConv2d.cpp:195-203, utils.cpp:296).
ShapesAsAsked ==
    Valid(call) =>
        /\ pc = "done" /\ result # Refused => IsAnswer(call, result)
        /\ Elements(call.in) < 2^(Width - 1) => service = "up" /\ result # Refused

\* SAME padding, for every size, stride and filter (NgraphHelper.hpp:50-64).
PaddingAsAsked ==
    pc = "done" /\ call.op = "padding" /\ call.in > 0 =>
        PaddingFits(result, call.in, call.stride, call.filter)

\* A mask that has no bit beyond the rank is spelled out bit by bit, and nothing
\* is written behind the vector (StridedSlice.cpp:95-104).
MaskAsAsked ==
    call.op = "mask" /\ call.mask \in 0 .. 2^call.rank - 1 =>
        /\ service = "up"
        /\ pc = "done" =>
              \A k \in 1 .. call.rank : result[k] = (call.mask \div 2^(k - 1)) % 2

\* f32tof16 gives the nearest half, the larger one of two that are as near, and
\* the same as float2half wherever both are normal.  Below, it knows zero and the
\* least normal half only, and gives the one that float2half's subnormal half is
\* nearer to; above, it gives the largest half where float2half gives infinity.
\* A NaN stays one; of an infinity it loses the sign (utils.cpp:48-160, 217-279).
HalvesAreNearest ==
    pc = "done" /\ call.op = "f32tof16" =>
        LET x == call.x
            h == result[1].bits
            g == result[2].bits
            exponent == x.bits \div 2^23
            scale    == 2^(126 - exponent)
            distance == g * scale - (2^23 + (x.bits % 2^23))
        IN  /\ x.bits < InfFloat => result[1].sign = x.sign
            /\ result[2].sign = x.sign
            /\ CASE x.bits \in AsFloat(Half(1, 0)) .. AsFloat(MaxHalf) ->
                      h = g /\ AsFloat(h) - x.bits \in -HalfStep + 1 .. HalfStep
                 [] x.bits < AsFloat(Half(1, 0)) ->
                      /\ IF exponent < 102 THEN g = 0
                         ELSE -scale < 2 * distance /\ 2 * distance <= scale
                      /\ \/ h = 0 /\ g <= Half(1, 0) \div 2
                         \/ h = Half(1, 0) /\ g >= Half(1, 0) \div 2
                 [] x.bits \in AsFloat(MaxHalf) + 1 .. InfFloat - 1 ->
                      /\ h = MaxHalf
                      /\ g = IF x.bits < AsFloat(MaxHalf) + HalfStep THEN MaxHalf ELSE InfHalf
                 [] x.bits = InfFloat -> h = InfHalf /\ g = InfHalf
                 [] x.bits > InfFloat -> h > InfHalf /\ g > InfHalf

\* A half that goes to a float and back is the same again, but for a subnormal one
\* in f16tof32, which becomes zero, and the sign f32tof16 gives to infinities and
\* NaNs; float2half keeps these too (utils.cpp:174-213).
HalvesRoundTrip ==
    pc = "done" /\ call.op = "f16tof32" =>
        LET h == call.x IN
        CASE h.bits < Half(1, 0) -> result = [sign |-> h.sign, bits |-> 0]
          [] h.bits \in Half(1, 0) .. MaxHalf -> f32tof16(result) = h /\ float2half(result) = h
          [] h.bits = InfHalf -> f32tof16(result).bits = InfHalf /\ float2half(result) = h
          [] h.bits > InfHalf -> f32tof16(result).bits > InfHalf /\ float2half(result).bits > InfHalf
==============================================================================
