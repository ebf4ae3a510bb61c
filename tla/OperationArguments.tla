------------------------- MODULE OperationArguments -------------------------
(***************************************************************************)
(* What the operations under ngraph_creator/operations look at: validate() *)
(* when the driver decides whether it supports an operation, and           *)
(* createNode() when it translates the operation.                          *)
(*                                                                         *)
(* The arguments of an operation are the sequence of its input operands.   *)
(* Of an operand the width of a scalar, the rank of a tensor and which     *)
(* dimensions are 0, and what can be tripped over in a constant are kept,  *)
(* because these are what can be read wrongly; any other comparison that   *)
(* validate() makes with a value (a channelDim, equal ratios, a slice) may *)
(* turn out either way.  LSTM and BidirectionalSequenceRNN, whose          *)
(* arguments decide which nodes they have, are in GraphConstruction.       *)
(***************************************************************************)
EXTENDS Naturals, Sequences

ScalarTypes == {"FLOAT16", "FLOAT32", "INT32", "BOOL"}

PerChannel == "TENSOR_QUANT8_SYMM_PER_CHANNEL"

\* The tensors that getInputNode() dequantizes.
QuantizedTypes ==
    {"TENSOR_QUANT8_ASYMM", "TENSOR_QUANT8_ASYMM_SIGNED", "TENSOR_QUANT8_SYMM",
     "TENSOR_QUANT16_SYMM", "TENSOR_QUANT16_ASYMM", PerChannel}

TensorTypes ==
    {"TENSOR_FLOAT32", "TENSOR_FLOAT16", "TENSOR_INT32", "TENSOR_BOOL8"} \cup QuantizedTypes

\* What there is to trip over in a constant: a number that is 0, as a divisor, or 1,
\* for SAME padding; a mask with bits beyond the dimensions it is for; a vector with
\* fewer elements than are indexed; dimensions for RESHAPE, one to be stretched and 0
\* the product of the others, count as 0.  The rest is plain.
Data == {"zero", "one", "wide", "short", "plain"}

\* rank is dimensions.size(), 0 when it is not specified, and zeros are the dimensions
\* that are 0.  scale stands for the scales and the zero point of an operand.
ArgumentType(Scales) ==
    [ type : ScalarTypes \cup TensorTypes, rank : Nat, zeros : SUBSET Nat, scale : Scales,
      data : Data, life : {"input", "output", "temp", "const", "none"} ]

\* The input at a position of the code, which counts from 0.
Input(a, p) == a[p + 1]

IsConst(a, p)     == Input(a, p).life = "const"  \* isOperandLifeTimeConst
IsOmitted(a, p)   == Input(a, p).life = "none"   \* isOmittedInput
IsZeroSized(a, p) == Input(a, p).rank = 0 \/ 0 \in Input(a, p).zeros
IsValidTensor(a, p) == Input(a, p).rank > 0 /\ Input(a, p).zeros = {}
InputType(a, p, t) == Input(a, p).type = t       \* checkInputOperandType
Rank(a, p)        == Input(a, p).rank

\* ParseOperationInput<T>() of those positions that the operation has.
Parse(a, positions, bytes) ==
    {[at |-> p, bytes |-> bytes] : p \in {q \in positions : q < Len(a)}}

Words(a, positions)  == Parse(a, positions, 4)   \* int, uint32_t, float
Halves(a, positions) == Parse(a, positions, 2)   \* _Float16
Bytes(a, positions)  == Parse(a, positions, 1)   \* uint8_t, for a BOOL

-----------------------------------------------------------------------------
(* What createNode() reads: inputs as nodes, inputs as nodes although they *)
(* may be constants (bare), scalars, vectors (GetConstVecOperand), and     *)
(* dimensions, for which an operand needs a rank.  It divides by numbers   *)
(* (divisors) and by dimensions (extents), and writes and indexes vectors  *)
(* without a look at their size (strays).                                  *)

Reads(nodes, scalars) ==
    [nodes |-> nodes, bare |-> {}, scalars |-> scalars, vectors |-> {}, shapes |-> {},
     divisors |-> {}, extents |-> {}, strays |-> {}]

Shape(p, rank) == [at |-> p, rank |-> rank]
Extent(p, dim) == [at |-> p, dim |-> dim]
Stray(p, data) == [at |-> p, data |-> data]

Abs(a)    == Reads({0}, {})
Equal(a)  == Reads({0, 1}, {})
Select(a) == Reads({0, 1, 2}, {})
Add(a)    == Reads({0, 1}, Words(a, {2}))
ReduceSum(a) == Reads({0, 1}, Bytes(a, {2}))
Mean(a)   == Reads({0, 1}, Words(a, {2}))
Argmax(a) == Reads({0}, Words(a, {1}))
Gather(a) == Reads({0, 2}, Words(a, {1}))
ExpandDims(a) == Reads({0}, Words(a, {1}))
EmbeddingLookup(a) == Reads({0, 1}, {})

DepthToSpace(a) ==
    Reads({0}, Words(a, {1}) \cup IF Len(a) = 3 THEN Bytes(a, {2}) ELSE {})
SpaceToDepth(a) == DepthToSpace(a)

\* beta and, from HAL 1.2 on, the axis.
Softmax(a) ==
    Reads({0}, (IF InputType(a, 0, "TENSOR_FLOAT16") THEN Halves(a, {1}) ELSE Words(a, {1}))
               \cup IF Len(a) = 3 THEN Words(a, {2}) ELSE {})
LogSoftmax(a) == Softmax(a)

Transpose(a) == Reads({0} \cup IF IsZeroSized(a, 1) THEN {} ELSE {1}, {})
Squeeze(a)   == Reads({0, 1}, {})
Concat(a)    == Reads(0..(Len(a) - 2), Words(a, {Len(a) - 1}))
L2Normalization(a) == Reads({0}, IF Len(a) = 2 THEN Words(a, {1}) ELSE {})

Pad(a) == [Reads({0}, {}) EXCEPT !.vectors = {1}]

PadV2(a) ==
    [Reads({0}, IF InputType(a, 0, "TENSOR_FLOAT16") THEN Halves(a, {2}) ELSE Words(a, {2}))
        EXCEPT !.vectors = {1}]

BatchToSpace(a) ==
    [Reads({0}, IF Len(a) = 3 THEN Bytes(a, {2}) ELSE {}) EXCEPT !.vectors = {1}]
SpaceToBatch(a) ==
    [Reads({0}, IF Len(a) = 4 THEN Bytes(a, {3}) ELSE {}) EXCEPT !.vectors = {1, 2}]

\* A dimension to be stretched is divided by the others.
Reshape(a) == [Reads({0}, {}) EXCEPT !.vectors = {1}, !.divisors = {1}]

\* The bias may be omitted, or have no dimensions.  The input is reshaped for weights
\* whose dimension differs from its own.
FullyConnected(a) ==
    [Reads({0, 1} \cup IF IsOmitted(a, 2) \/ Rank(a, 2) = 0 THEN {} ELSE {2}, Words(a, {3}))
        EXCEPT !.shapes = {Shape(0, 2), Shape(1, 2)},
               !.extents = IF Rank(a, 0) > 2 \/ 1 \notin Input(a, 0).zeros
                           THEN {Extent(1, 1)} ELSE {}]

ChannelShuffle(a) == Reads({0}, Words(a, {1, 2}))
InstanceNormalization(a) == Reads({0}, Words(a, {1, 2, 3}) \cup Bytes(a, {4}))
ROIAlign(a) == Reads({0, 1, 2}, Words(a, {3, 4, 5, 7}) \cup Bytes(a, {9}))

\* The regions are asked for by getOperationOutput(), and the batch indices
\* have to be constant.
ROIPooling(a) ==
    [Reads({0}, Words(a, {3, 4, 5}) \cup Bytes(a, {7})) EXCEPT !.bare = {1}, !.vectors = {2}]

\* getMaskBits() writes as many bits as a mask has.
StridedSlice(a) ==
    [Reads({0, 1, 2, 3}, Words(a, {4, 5, 6})) EXCEPT !.strays = {Stray(p, "wide") : p \in 4..6}]

\* To a size or by a scale, a FLOAT16 or FLOAT32.
ResizeBilinear(a) ==
    Reads({0}, (IF InputType(a, 1, "FLOAT16") THEN Halves(a, {1, 2}) ELSE Words(a, {1, 2}))
               \cup Bytes(a, {3, 4, 5}))
ResizeNearestNeighbor(a) == ResizeBilinear(a)

RNN(a) == Reads(0..4, Words(a, {5}))
UnidirectionalSequenceRNN(a) ==
    [Reads(0..4, Words(a, {5, 6})) EXCEPT !.shapes = {Shape(0, 2)}]

Split(a)  == Reads({0}, Words(a, {1, 2}))
TopkV2(a) == Reads({0}, Words(a, {1}))
Cast(a)   == Reads({0}, {})
Dequantize(a) == Reads({0}, {})
Quantize(a)   == Reads({0}, {})

-----------------------------------------------------------------------------
(* Convolutions and pooling have arguments with explicit and with implicit *)
(* padding; optional ones follow, and the number of arguments does not     *)
(* always tell which they are.  Each of these operations has a function    *)
(* from the names that createNode() has for its arguments to positions.    *)

\* The positions from p on, for as many names as there are arguments.
From(a, p, names) ==
    LET given == {i \in DOMAIN names : p + i - 1 < Len(a)}
    IN  [n \in {names[i] : i \in given} |-> p + (CHOOSE i \in given : names[i] = n) - 1]

Padding   == <<"padding_left", "padding_right", "padding_top", "padding_bottom">>
Scheme    == <<"padding_scheme">>
Strides   == <<"stride_width", "stride_height">>
Dilations == <<"dilation_width", "dilation_height">>
Filter    == <<"filter_width", "filter_height">>
Layout    == <<"activation", "layout">>

Conv2dArguments(a) ==
    IF Len(a) \in 10..13 /\ ~InputType(a, 7, "BOOL")
    THEN From(a, 3, Padding \o Strides \o Layout \o Dilations)
    ELSE IF Len(a) \in 7..10
    THEN From(a, 3, Scheme \o Strides \o Layout \o Dilations)
    ELSE <<>>

DepthwiseArguments(a) ==
    IF Len(a) \in 11..14 /\ ~InputType(a, 8, "BOOL")
    THEN From(a, 3, Padding \o Strides \o <<"multiplier">> \o Layout \o Dilations)
    ELSE IF Len(a) \in 8..11
    THEN From(a, 3, Scheme \o Strides \o <<"multiplier">> \o Layout \o Dilations)
    ELSE <<>>

GroupedArguments(a) ==
    IF Len(a) \in 11..12 /\ ~InputType(a, 8, "BOOL")
    THEN From(a, 3, Padding \o Strides \o <<"groups">> \o Layout)
    ELSE IF Len(a) \in 8..9
    THEN From(a, 3, Scheme \o Strides \o <<"groups">> \o Layout)
    ELSE <<>>

TransposeConvArguments(a) ==
    CASE Len(a) = 11 -> From(a, 3, Padding \o Strides \o Layout)
      [] Len(a) = 9  -> From(a, 4, Scheme \o Strides \o Layout)
      [] OTHER       -> <<>>

PoolArguments(a) ==
    CASE Len(a) \in 10..11 -> From(a, 1, Padding \o Strides \o Filter \o Layout)
      [] Len(a) \in 7..8   -> From(a, 1, Scheme \o Strides \o Filter \o Layout)
      [] OTHER             -> <<>>

\* The layout is the only argument of one byte.
Scalars(a, names) ==
    Words(a, {names[n] : n \in DOMAIN names \ {"layout"}})
        \cup Bytes(a, {names[n] : n \in DOMAIN names \cap {"layout"}})

\* calculateExplicitPadding() divides by the strides, for a padding_scheme of SAME.
PaddingDivisors(a, names) ==
    IF "padding_scheme" \in DOMAIN names /\ Input(a, names["padding_scheme"]).data = "one"
    THEN {names[n] : n \in DOMAIN names \cap {"stride_width", "stride_height"}} ELSE {}

\* The size of the bias is taken from its dimensions.
Convolution(a, names) == [Reads({0, 1, 2}, Scalars(a, names)) EXCEPT !.shapes = {Shape(2, 1)}]
Padded(a, names) == [Convolution(a, names) EXCEPT !.divisors = PaddingDivisors(a, names)]

Conv2d(a) == Padded(a, Conv2dArguments(a))

\* The filter is divided into groups, one for each channel of the input.
DepthwiseConv2d(a, nchw) ==
    [Padded(a, DepthwiseArguments(a)) EXCEPT !.extents = {Extent(0, IF nchw THEN 1 ELSE 3)}]
GroupedConv2d(a) ==
    LET names == GroupedArguments(a) IN
    [Padded(a, names) EXCEPT !.divisors = @ \cup {names[n] : n \in DOMAIN names \cap {"groups"}}]

\* With implicit padding there is an output shape, which has to be constant; two of its
\* elements are the width and the height.
TransposeConv2D(a) ==
    [Convolution(a, TransposeConvArguments(a))
        EXCEPT !.vectors = IF Len(a) = 9 THEN {3} ELSE {},
               !.strays = IF Len(a) = 9 THEN {Stray(3, "short")} ELSE {}]

\* Width and height are taken from the dimensions of the input.
Pool(a) ==
    LET names == PoolArguments(a) IN
    [Reads({0}, Scalars(a, names))
        EXCEPT !.shapes = {Shape(0, 4)}, !.divisors = PaddingDivisors(a, names)]
MaxPool2d(a)     == Pool(a)
AveragePool2D(a) == Pool(a)
L2Pooling2D(a)   == Pool(a)

-----------------------------------------------------------------------------
(* validate(): what must hold of the arguments, which scalars are read,     *)
(* whether something else is compared that may refuse the operation, and    *)
(* what strays.                                                             *)

Check(holds, reads, compares) ==
    [holds |-> holds, reads |-> reads, compares |-> compares, strays |-> {}]

Requires(holds) == Check(holds, {}, FALSE)
Accepts         == Requires(TRUE)

Spatial(a) == Rank(a, 0) = 4 /\ Rank(a, 1) = 4

\* channelDim is compared for a filter that has one.
Conv2dCheck(a) ==
    Check(Spatial(a) /\ IsValidTensor(a, 0) /\ IsValidTensor(a, 1), {},
          InputType(a, 1, PerChannel))
TransposeConv2DCheck(a) == [Conv2dCheck(a) EXCEPT !.compares = TRUE]
DepthwiseConv2dCheck(a) == Check(Spatial(a), {}, TRUE)
GroupedConv2dCheck(a)   == Check(Spatial(a), {}, InputType(a, 1, PerChannel))

AveragePool2DCheck(a)  == Requires(Rank(a, 0) = 4)
ResizeCheck(a)         == Requires(Rank(a, 0) = 4)
AddCheck(a)            == Requires(IsConst(a, 2))
MeanCheck(a)           == Requires(IsConst(a, 1))
SqueezeCheck(a)        == Requires(~IsOmitted(a, 1) /\ IsConst(a, 1))
TransposeCheck(a)      == Requires(IsZeroSized(a, 1) \/ IsConst(a, 1))
ConcatCheck(a)         == Requires(\A p \in 0..(Len(a) - 2) : IsValidTensor(a, p))
PReluCheck(a)          == Check(TRUE, {}, TRUE)
EmbeddingLookupCheck(a) == Requires(Rank(a, 1) >= 2)
ExpandDimsCheck(a)      == Requires(Rank(a, 0) >= 1)
L2NormalizationCheck(a) == Requires(Rank(a, 0) <= 4 /\ IsValidTensor(a, 0))
ReshapeCheck(a)         == Requires(IsConst(a, 1) /\ IsValidTensor(a, 1))
FullyConnectedCheck(a)  == Requires(~IsZeroSized(a, 0) /\ Rank(a, 0) >= 2)

\* Not the code: the paddings of PAD_V2 may come from anywhere.
PadV2Unchecked(a) == Requires(Rank(a, 0) \in 2..4)

PadCheck(a)          == Requires(Rank(a, 0) \in 2..4 /\ IsConst(a, 1))
PadV2Check(a)        == Requires(Rank(a, 0) \in 2..4 /\ IsConst(a, 1))
BatchToSpaceCheck(a) == Requires(Rank(a, 0) = 4 /\ IsConst(a, 1))
SpaceToBatchCheck(a) == Requires(Rank(a, 0) = 4 /\ IsConst(a, 1) /\ IsConst(a, 2))

\* The bits of a mask say which elements of the vectors are compared.
StridedSliceCheck(a) ==
    [Check(Rank(a, 0) <= 4 /\ \A p \in 1..3 : IsConst(a, p), Words(a, {6}), TRUE)
        EXCEPT !.strays = {Stray(p, "short") : p \in 1..3} \cup {Stray(6, "wide")}]
ChannelShuffleCheck(a) == Check(Rank(a, 0) \in 1..4, Words(a, {2}), TRUE)

\* The output has to be TENSOR_FLOAT32 too, here and below; NNAPI gives it the type of
\* the input.
InstanceNormalizationCheck(a) ==
    Requires(InputType(a, 0, "TENSOR_FLOAT32") /\ Rank(a, 0) <= 4 /\ IsValidTensor(a, 0))

\* Ratios that differ are refused.
ROIPoolingCheck(a) ==
    Check(\A p \in {0, 1} : InputType(a, p, "TENSOR_FLOAT32"), Words(a, {5, 6}), TRUE)
ROIAlignCheck(a) ==
    [ROIPoolingCheck(a) EXCEPT !.holds = @ /\ \A p \in 0..2 : ~IsZeroSized(a, p)]
=============================================================================
