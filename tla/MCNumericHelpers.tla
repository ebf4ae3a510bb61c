-------------------------- MODULE MCNumericHelpers ---------------------------
(* Calls of the helpers, for an int of 8 bits: element counts that fill it,  *)
(* that wrap to zero, to -1 and to the lowest int, and floats on both sides  *)
(* of every bound of the conversions.                                        *)
EXTENDS NumericHelpers

Dims(S, lengths) == UNION {[1 .. n -> S] : n \in lengths}

SomeReshapes ==
    [op : {"reshape"}, in : Dims({1, 2, 3, 8, 16, 17}, 1 .. 2),
     out : Dims({-2, -1, 0, 1, 2, 15, 16, 17}, 1 .. 3)]
SomeFullyConnecteds ==
    [op : {"fullyConnected"}, in : Dims({0, 1, 2, 3, 16, 17}, 1 .. 3),
     weights : {<<3, n>> : n \in {0, 1, 2, 3, 16, 17}}]
SomeGroups ==
    [op : {"groups"}, in : {<<o, n, 3, 3>> : o \in 1 .. 6, n \in 1 .. 2}, groups : -2 .. 4]
SomePaddings ==
    [op : {"padding"}, in : 0 .. 12, stride : 0 .. 5, filter : 1 .. 6]
SomeMasks ==
    [op : {"mask"}, rank : 1 .. 4, mask : -9 .. 17]

Exponents == {0, 1, 100, 127, 253, 254, 255} \cup 101 .. 114 \cup 140 .. 144
Mantissas ==
    LET near == {k * HalfStep + d : k \in {0, 1, 2, 3, 4, 5, 1024, 2045, 2046, 2047}, d \in -1 .. 1}
    IN  (near \cap 0 .. 2^23 - 1) \cup {2^23 - 1}
SomeFloats ==
    [op : {"f32tof16"}, x : {[sign |-> s, bits |-> Float(e, m)] :
                               s \in {0, 1}, e \in Exponents, m \in Mantissas}]
SomeHalves ==
    [op : {"f16tof32"}, x : {[sign |-> s, bits |-> Half(e, m)] :
                               s \in {0, 1}, e \in 0 .. 31, m \in {0, 1, 2, 511, 512, 513, 1022, 1023}}]

SomeCalls ==
    SomeReshapes \cup SomeFullyConnecteds \cup SomeGroups \cup SomePaddings
        \cup SomeMasks \cup SomeFloats \cup SomeHalves
==============================================================================
